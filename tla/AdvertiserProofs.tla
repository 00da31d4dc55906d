-------------------------- MODULE AdvertiserProofs --------------------------
(***************************************************************************)
(* Proofs about one incarnation of the Advertiser and about the task that  *)
(* runs one after the other, for any hosts, any channel capacities and     *)
(* retry bounds, and any errors.                                           *)
(***************************************************************************)
EXTENDS AdvertiserTask, FiniteSetTheorems, FunctionTheorems, TLAPS

-----------------------------------------------------------------------------
(* Type correctness, one group of variables at a time.                     *)

(* The types hold when an incarnation starts.                              *)
LEMMA InitType == Init => TypeOK
<1> SUFFICES ASSUME Init PROVE TypeOK
  OBVIOUS
<1> USE DEF Init
<1>1. S!SigTypeOK
  BY Zenon DEF S!SigInit, S!SigTypeOK
<1>2. L!LTypeOK
  <2>1. EgCtx \in BOOLEAN
    BY Zenon DEF EgCtx
  <2> QED
    BY <2>1, AdvertiserAssumption DEF L!LInit, L!LTypeOK, L!LPCs, L!LErrs
<1>3. W!LinkTypeOK
  <2>1. EgCtx \in BOOLEAN /\ wclosed \in BOOLEAN
    BY Zenon DEF EgCtx, W!LinkInit
  <2> QED
    BY <2>1, AdvertiserAssumption DEF W!LinkInit, W!LinkTypeOK
<1>4. MainTypeOK
  <2>1. ready \in BOOLEAN /\ final \in BOOLEAN
    BY Zenon
  <2> QED
    BY <2>1 DEF MainTypeOK
<1>5. ProducersTypeOK
  BY AdvertiserAssumption DEF ProducersTypeOK
<1>6. ScheduleTypeOK
  BY DEF ScheduleTypeOK
<1> QED
  BY <1>1, <1>2, <1>3, <1>4, <1>5, <1>6 DEF TypeOK

(* A step that leaves a group's variables alone leaves its types alone.    *)
LEMMA SigSame == S!SigTypeOK /\ UNCHANGED sigVars => S!SigTypeOK'
BY DEF S!SigTypeOK, sigVars

(* The errgroup's context is a Boolean: what the instances of Listener and *)
(* LinkStateWatcher are given for it.                                      *)
LEMMA CtxType == EgCtx \in BOOLEAN /\ EgCtx' \in BOOLEAN
BY Zenon DEF EgCtx, S!ctx

(* A step that leaves the listener alone keeps its types.                  *)
LEMMA LsnSame == L!LTypeOK /\ UNCHANGED lsnVars => L!LTypeOK'
BY CtxType DEF L!LTypeOK, lsnVars

(* The same for the link state watcher.                                    *)
LEMMA LinkSame == W!LinkTypeOK /\ UNCHANGED linkVars => W!LinkTypeOK'
BY CtxType DEF W!LinkTypeOK, linkVars

(* The same for Run's closure, the errgroup and the connection.            *)
LEMMA MainSame ==
  MainTypeOK /\ UNCHANGED <<mainVars, egErr, wireVars>> => MainTypeOK'
BY DEF MainTypeOK, mainVars, wireVars

(* The same for the channel of requests and its producers.                 *)
LEMMA ProducersSame ==
  ProducersTypeOK /\ UNCHANGED <<chVars, mcVars, cbVars>> => ProducersTypeOK'
BY DEF ProducersTypeOK, chVars, mcVars, cbVars

(* The same for schedule and the schedgroup.                               *)
LEMMA ScheduleSame ==
  ScheduleTypeOK /\ UNCHANGED <<schedVars, sgVars>> => ScheduleTypeOK'
BY DEF ScheduleTypeOK, schedVars, sgVars

(* The errgroup keeps one of the kinds of errors that it is given.         *)
LEMMA EgReturnType ==
  ASSUME MainTypeOK, NEW e \in ErrKinds \cup {"nil"}, EgReturn(e),
         UNCHANGED <<mainVars, wireVars>>
  PROVE  MainTypeOK'
BY DEF MainTypeOK, EgReturn, mainVars, wireVars

(* Run's closure.                                                          *)
LEMMA MainType ==
  ASSUME TypeOK, Start \/ StartFails \/ EgWait \/ Shutdown \/ Close
  PROVE  TypeOK'
<1> USE DEF TypeOK
<1>1. CASE Start
  <2>1. ready' \in BOOLEAN
    BY <1>1, Zenon DEF Start
  <2>2. MainTypeOK'
    BY <1>1, <2>1 DEF Start, MainTypeOK, SendOk, wireVars
  <2> QED
    BY <1>1, <2>2, SigSame, LsnSame, LinkSame, ProducersSame, ScheduleSame
       DEF Start
<1>2. CASE StartFails
  <2>1. MainTypeOK'
    BY <1>2 DEF StartFails, MainTypeOK, ErrKinds, wireVars
  <2> QED
    BY <1>2, <2>1, SigSame, LsnSame, LinkSame, ProducersSame, ScheduleSame
       DEF StartFails
<1>3. CASE EgWait
  <2>1. MainTypeOK'
    BY <1>3 DEF EgWait, MainTypeOK, wireVars
  <2> QED
    BY <1>3, <2>1, SigSame, LsnSame, LinkSame, ProducersSame, ScheduleSame
       DEF EgWait
<1>4. CASE Shutdown
  <2>1. term \in BOOLEAN
    BY DEF S!SigTypeOK
  <2>2. MainTypeOK'
    BY <1>4, <2>1 DEF Shutdown, MainTypeOK, SendOk, SendFails, wireVars
  <2> QED
    BY <1>4, <2>2, SigSame, LsnSame, LinkSame, ProducersSame, ScheduleSame
       DEF Shutdown
<1>5. CASE Close
  <2>1. MainTypeOK'
    BY <1>5 DEF Close, MainTypeOK
  <2> QED
    BY <1>5, <2>1, SigSame, LsnSame, LinkSame, ProducersSame, ScheduleSame
       DEF Close
<1> QED
  BY <1>1, <1>2, <1>3, <1>4, <1>5

(* schedule.                                                               *)
LEMMA ScheduleType ==
  ASSUME TypeOK,
         ScheduleErr \/ ScheduleFailed \/ ScheduleDone \/ ScheduleRA
  PROVE  TypeOK'
<1> USE DEF TypeOK
<1>1. CASE ScheduleErr
  <2>1. ScheduleTypeOK'
    BY <1>1, AdvertiserAssumption
       DEF ScheduleErr, ScheduleTypeOK, ErrKinds, sgVars
  <2> QED
    BY <1>1, <2>1, SigSame, LsnSame, LinkSame, MainSame, ProducersSame
       DEF ScheduleErr
<1>2. CASE ScheduleFailed
  <2>1. ScheduleTypeOK'
    BY <1>2 DEF ScheduleFailed, ScheduleTypeOK, sgVars
  <2>2. MainTypeOK'
    BY <1>2, EgReturnType DEF ScheduleFailed, ScheduleTypeOK
  <2> QED
    BY <1>2, <2>1, <2>2, SigSame, LsnSame, LinkSame, ProducersSame
       DEF ScheduleFailed
<1>3. CASE ScheduleDone
  <2>1. ScheduleTypeOK'
    BY <1>3 DEF ScheduleDone, ScheduleTypeOK, sgVars
  <2> QED
    BY <1>3, <2>1, SigSame, LsnSame, LinkSame, MainSame, ProducersSame
       DEF ScheduleDone
<1>4. CASE ScheduleRA
  <2>1. ipC \in Seq(Dst) /\ ipC # <<>> /\ Len(ipC) <= IpcCap
    BY <1>4 DEF ScheduleRA, ProducersTypeOK
  <2>2. /\ Head(ipC) \in Dst /\ Tail(ipC) \in Seq(Dst)
        /\ Len(Tail(ipC)) = Len(ipC) - 1
    BY <2>1
  <2>3. Len(Tail(ipC)) <= IpcCap
    BY <2>1, <2>2, AdvertiserAssumption
  <2>4. ProducersTypeOK'
    BY <1>4, <2>2, <2>3 DEF ScheduleRA, ProducersTypeOK, mcVars, cbVars
  <2>5. ScheduleTypeOK'
    BY <1>4, <2>2 DEF ScheduleRA, ScheduleTypeOK, schedVars
  <2> QED
    BY <1>4, <2>4, <2>5, SigSame, LsnSame, LinkSame, MainSame
       DEF ScheduleRA
<1> QED
  BY <1>1, <1>2, <1>3, <1>4

(* schedgroup and its workers.                                             *)
LEMMA WorkerType ==
  ASSUME TypeOK,
         \/ SchedgroupStops
         \/ \E d \in Dst : Dispatch(d) \/ WorkerSends(d) \/ WorkerFails(d)
  PROVE  TypeOK'
<1> USE DEF TypeOK
<1>1. CASE SchedgroupStops
  <2>1. ScheduleTypeOK'
    BY <1>1 DEF SchedgroupStops, ScheduleTypeOK, schedVars
  <2> QED
    BY <1>1, <2>1, SigSame, LsnSame, LinkSame, MainSame, ProducersSame
       DEF SchedgroupStops
<1>2. ASSUME NEW d \in Dst, Dispatch(d) PROVE TypeOK'
  <2>1. ScheduleTypeOK'
    BY <1>2 DEF Dispatch, ScheduleTypeOK, schedVars
  <2> QED
    BY <1>2, <2>1, SigSame, LsnSame, LinkSame, MainSame, ProducersSame
       DEF Dispatch
<1>3. ASSUME NEW d \in Dst, WorkerSends(d) PROVE TypeOK'
  <2>1. ScheduleTypeOK'
    BY <1>3 DEF WorkerSends, ScheduleTypeOK, schedVars
  <2>2. MainTypeOK'
    BY <1>3 DEF WorkerSends, SendOk, MainTypeOK, mainVars, wireVars
  <2> QED
    BY <1>3, <2>1, <2>2, SigSame, LsnSame, LinkSame, ProducersSame
       DEF WorkerSends
<1>4. ASSUME NEW d \in Dst, WorkerFails(d) PROVE TypeOK'
  <2>1. ScheduleTypeOK'
    BY <1>4 DEF WorkerFails, ScheduleTypeOK, schedVars
  <2> QED
    BY <1>4, <2>1, SigSame, LsnSame, LinkSame, MainSame, ProducersSame
       DEF WorkerFails, SendFails
<1> QED
  BY <1>1, <1>2, <1>3, <1>4

(* multicast and the listener's callback.                                  *)
LEMMA PutType ==
  ASSUME ProducersTypeOK, NEW d \in Dst, Put(d)
  PROVE  /\ ipC' \in Seq(Dst) /\ Len(ipC') <= IpcCap
         /\ asked' \in [Dst -> Nat]
<1>1. ipC \in Seq(Dst) /\ Len(ipC) < IpcCap /\ ipC' = Append(ipC, d)
  BY DEF ProducersTypeOK, Put
<1>2. Append(ipC, d) \in Seq(Dst) /\ Len(Append(ipC, d)) = Len(ipC) + 1
  BY <1>1
<1>3. asked' \in [Dst -> Nat]
  BY DEF ProducersTypeOK, Put
<1> QED
  BY <1>1, <1>2, <1>3, AdvertiserAssumption

(* multicast keeps the types.                                              *)
LEMMA MulticastType ==
  ASSUME TypeOK,
         \/ MulticastCheck \/ MulticastPut \/ MulticastCanceled
         \/ MulticastTick
  PROVE  TypeOK'
<1> USE DEF TypeOK
<1>1. CASE MulticastCheck
  <2>1. ProducersTypeOK'
    BY <1>1 DEF MulticastCheck, ProducersTypeOK, chVars, cbVars
  <2> QED
    BY <1>1, <2>1, SigSame, LsnSame, LinkSame, MainSame, ScheduleSame
       DEF MulticastCheck
<1>2. CASE MulticastPut
  <2>1. ProducersTypeOK'
    BY <1>2, PutType DEF MulticastPut, ProducersTypeOK, cbVars, Dst
  <2> QED
    BY <1>2, <2>1, SigSame, LsnSame, LinkSame, MainSame, ScheduleSame
       DEF MulticastPut
<1>3. CASE MulticastCanceled
  <2>1. ProducersTypeOK'
    BY <1>3 DEF MulticastCanceled, ProducersTypeOK, chVars, cbVars
  <2> QED
    BY <1>3, <2>1, SigSame, LsnSame, LinkSame, MainSame, ScheduleSame
       DEF MulticastCanceled
<1>4. CASE MulticastTick
  <2>1. ProducersTypeOK'
    BY <1>4, AdvertiserAssumption
       DEF MulticastTick, ProducersTypeOK, chVars, cbVars
  <2> QED
    BY <1>4, <2>1, SigSame, LsnSame, LinkSame, MainSame, ScheduleSame
       DEF MulticastTick
<1> QED
  BY <1>1, <1>2, <1>3, <1>4

(* The listener's callback keeps the types.                                *)
LEMMA HandleType ==
  ASSUME TypeOK, HandleRS \/ HandlePut \/ HandleOther \/ HandleFails
  PROVE  TypeOK'
<1> USE CtxType DEF TypeOK
<1>1. CASE HandleRS
  <2>1. ProducersTypeOK'
    BY <1>1, AdvertiserAssumption
       DEF HandleRS, ProducersTypeOK, chVars, mcVars
  <2> QED
    BY <1>1, <2>1, SigSame, LsnSame, LinkSame, MainSame, ScheduleSame
       DEF HandleRS
<1>2. CASE HandlePut
  <2>1. ProducersTypeOK'
    BY <1>2, PutType DEF HandlePut, ProducersTypeOK, mcVars
  <2>2. L!LTypeOK'
    BY <1>2 DEF HandlePut, L!CallbackOk, L!LTypeOK, L!LPCs
  <2> QED
    BY <1>2, <2>1, <2>2, SigSame, LinkSame, MainSame, ScheduleSame
       DEF HandlePut
<1>3. CASE HandleOther
  <2>1. L!LTypeOK'
    BY <1>3 DEF HandleOther, L!CallbackOk, L!LTypeOK, L!LPCs
  <2> QED
    BY <1>3, <2>1, SigSame, LinkSame, MainSame, ProducersSame, ScheduleSame
       DEF HandleOther
<1>4. CASE HandleFails
  <2>1. L!LTypeOK'
    BY <1>4 DEF HandleFails, L!CallbackErr, L!LTypeOK, L!LPCs, L!LErrs
  <2> QED
    BY <1>4, <2>1, SigSame, LinkSame, MainSame, ProducersSame, ScheduleSame
       DEF HandleFails
<1> QED
  BY <1>1, <1>2, <1>3, <1>4

(* The listener: each step of receiveRetry, Listen and the interrupter.    *)
LEMMA ReceiveFailedType ==
  ASSUME L!LTypeOK, NEW e \in L!LErrs, L!ReceiveFailed(e), UNCHANGED intr
  PROVE  L!LTypeOK'
BY CtxType, AdvertiserAssumption
   DEF L!LTypeOK, L!ReceiveFailed, L!ReceiveCanceled, L!LPCs, L!LErrs

(* A read is in progress only while receiveRetry has a retry left.         *)
TriesLeft == lpc \in {"read", "backoff"} => tries < Retries

(* The listener's own steps keep its types: a retry adds to tries only     *)
(* where one is left.                                                      *)
LEMMA ListenerStepType ==
  ASSUME L!LTypeOK, TriesLeft,
         \/ L!Check \/ L!Backoff \/ L!Interrupt \/ L!NetworkStep
         \/ L!WaitReturn \/ L!DeferReturn
  PROVE  L!LTypeOK'
<1> USE CtxType, AdvertiserAssumption DEF L!LTypeOK, L!LPCs, TriesLeft
<1>1. CASE L!Check
  BY <1>1, ReceiveFailedType DEF L!Check, L!ReceiveCanceled, L!LErrs
<1>2. CASE L!Backoff
  <2>1. CASE L!ReceiveCanceled
    BY <1>2, <2>1 DEF L!Backoff, L!ReceiveCanceled
  <2>2. CASE L!Retry
    BY <1>2, <2>2 DEF L!Backoff, L!Retry
  <2> QED
    BY <1>2, <2>1, <2>2 DEF L!Backoff
<1>3. CASE L!Interrupt
  BY <1>3 DEF L!Interrupt
<1>4. CASE L!NetworkStep
  <2>1. CASE L!ReadMessage
    BY <2>1 DEF L!ReadMessage
  <2>2. CASE L!ReadInvalid
    BY <2>2 DEF L!ReadInvalid, L!Retry
  <2>3. CASE L!ReadTimeout
    BY <2>3 DEF L!ReadTimeout, L!ReceiveCanceled
  <2>4. ASSUME NEW e \in ReadErrs, L!ReadFatal(e) PROVE L!LTypeOK'
    BY <2>4, ReceiveFailedType DEF L!ReadFatal, L!LErrs
  <2> QED
    BY <1>4, <2>1, <2>2, <2>3, <2>4 DEF L!NetworkStep
<1>5. CASE L!WaitReturn
  BY <1>5 DEF L!WaitReturn, L!LErrs
<1>6. CASE L!DeferReturn
  BY <1>6 DEF L!DeferReturn
<1> QED
  BY <1>1, <1>2, <1>3, <1>4, <1>5, <1>6

(* They also keep a retry in hand wherever a read is under way.            *)
LEMMA ListenerStepTries ==
  ASSUME L!LTypeOK, TriesLeft,
         \/ L!Check \/ L!Backoff \/ L!Interrupt \/ L!NetworkStep
         \/ L!WaitReturn \/ L!DeferReturn
  PROVE  TriesLeft'
BY AdvertiserAssumption
   DEF L!LTypeOK, TriesLeft, L!Check, L!Backoff, L!Interrupt, L!NetworkStep,
       L!WaitReturn, L!DeferReturn, L!ReadMessage, L!ReadInvalid,
       L!ReadTimeout, L!ReadFatal, L!ReceiveFailed, L!ReceiveCanceled, L!Retry

(* The listener's steps within the Advertiser, where its error goes to the *)
(* errgroup.                                                               *)
LEMMA ListenerType ==
  ASSUME TypeOK, TriesLeft, ListenerRuns
  PROVE  TypeOK'
<1> USE DEF TypeOK
<1>1. L!LTypeOK'
  BY ListenerStepType DEF ListenerRuns
<1>2. lerr' \in ErrKinds \cup {"nil"}
  BY <1>1, AdvertiserAssumption DEF L!LTypeOK, L!LErrs, ErrKinds
<1>3. MainTypeOK'
  BY <1>2, EgReturnType, MainSame DEF ListenerRuns
<1> QED
  BY <1>1, <1>3, SigSame, LinkSame, ProducersSame, ScheduleSame
     DEF ListenerRuns

(* The link state watcher, its channel and the server.                     *)
LEMMA LinkType ==
  ASSUME TypeOK, LinkWatcherRuns \/ LinkEvent
  PROVE  TypeOK'
<1> USE CtxType, AdvertiserAssumption DEF TypeOK
<1>1. CASE LinkWatcherRuns
  <2>1. W!LinkTypeOK'
    BY <1>1 DEF LinkWatcherRuns, W!WatchCanceled, W!WatchClosed,
                W!WatchChanged, W!LinkTypeOK
  <2>2. MainTypeOK'
    BY <1>1, EgReturnType, MainSame DEF LinkWatcherRuns, ErrKinds
  <2> QED
    BY <1>1, <2>1, <2>2, SigSame, LsnSame, ProducersSame, ScheduleSame
       DEF LinkWatcherRuns
<1>2. CASE LinkEvent
  <2>1. CASE W!LinkChange
    BY <1>2, <2>1, SigSame, LsnSame, MainSame, ProducersSame, ScheduleSame
       DEF LinkEvent, W!LinkChange, W!LinkTypeOK
  <2>2. CASE W!WatcherHalts
    <3>1. wclosed' \in BOOLEAN
      BY <2>2, Zenon DEF W!WatcherHalts
    <3>2. W!LinkTypeOK'
      BY <2>2, <3>1 DEF W!WatcherHalts, W!LinkTypeOK
    <3> QED
      BY <1>2, <3>2, SigSame, LsnSame, MainSame, ProducersSame, ScheduleSame
         DEF LinkEvent
  <2> QED
    BY <1>2, <2>1, <2>2 DEF LinkEvent
<1> QED
  BY <1>1, <1>2

(* A signal, or another task that ends, keeps the types.                   *)
LEMMA ServerType ==
  ASSUME TypeOK, ServerRuns
  PROVE  TypeOK'
<1> USE DEF TypeOK
<1>1. S!SigTypeOK'
  <2>1. term' \in BOOLEAN
    BY Zenon DEF ServerRuns, S!SigNext, S!SigReceive, S!SigStep, S!SigCtxDone,
       S!SigSet, S!SigCancel, S!OtherTaskFails, S!SigTypeOK, S!isTerminal
  <2> QED
    BY <2>1 DEF ServerRuns, S!SigNext, S!SigReceive, S!SigStep, S!SigCtxDone,
       S!SigSet, S!SigCancel, S!OtherTaskFails, S!Cancel, S!SigTypeOK
<1> QED
  BY <1>1, LsnSame, LinkSame, MainSame, ProducersSame, ScheduleSame
     DEF ServerRuns

(* Nothing but the listener and its callback moves the listener.           *)
LEMMA TriesStep ==
  ASSUME TypeOK, TriesLeft, [Next]_vars
  PROVE  TriesLeft'
<1>1. CASE UNCHANGED lsnVars
  BY <1>1 DEF lsnVars, TriesLeft
<1>2. CASE ListenerRuns
  BY <1>2, ListenerStepTries DEF ListenerRuns, TypeOK
<1>3. CASE HandlePut \/ HandleOther \/ HandleFails
  BY <1>3 DEF HandlePut, HandleOther, HandleFails, L!CallbackOk,
              L!CallbackErr, TriesLeft
<1>4. CASE Start \/ StartFails \/ EgWait \/ Shutdown \/ Close
  BY <1>1, <1>4 DEF Start, StartFails, EgWait, Shutdown, Close
<1>5. CASE ScheduleErr \/ ScheduleFailed \/ ScheduleDone \/ ScheduleRA
  BY <1>1, <1>5 DEF ScheduleErr, ScheduleFailed, ScheduleDone, ScheduleRA
<1>6. CASE \/ SchedgroupStops
           \/ \E d \in Dst : Dispatch(d) \/ WorkerSends(d) \/ WorkerFails(d)
  BY <1>1, <1>6 DEF SchedgroupStops, Dispatch, WorkerSends, WorkerFails
<1>7. CASE \/ MulticastCheck \/ MulticastPut \/ MulticastCanceled
           \/ MulticastTick \/ HandleRS
  BY <1>1, <1>7 DEF MulticastCheck, MulticastPut, MulticastCanceled,
                    MulticastTick, HandleRS
<1>8. CASE LinkWatcherRuns \/ LinkEvent \/ ServerRuns
  BY <1>1, <1>8 DEF LinkWatcherRuns, LinkEvent, ServerRuns
<1>9. CASE UNCHANGED vars
  BY <1>1, <1>9 DEF vars
<1> QED
  BY <1>2, <1>3, <1>4, <1>5, <1>6, <1>7, <1>8, <1>9 DEF Next, Run

(* Every step keeps the types, given that a reading listener has a retry   *)
(* left.                                                                   *)
LEMMA NextType ==
  TypeOK /\ TriesLeft /\ [Next]_vars => (TypeOK /\ TriesLeft)'
<1> SUFFICES ASSUME TypeOK, TriesLeft, [Next]_vars
             PROVE  (TypeOK /\ TriesLeft)'
  OBVIOUS
<1>1. CASE UNCHANGED vars
  BY <1>1, SigSame, LsnSame, LinkSame, MainSame, ProducersSame, ScheduleSame,
     TriesStep DEF vars, TypeOK
<1>2. CASE Next
  BY <1>2, MainType, ScheduleType, WorkerType, MulticastType, HandleType,
     ListenerType, LinkType, ServerType, TriesStep DEF Next, Run
<1> QED
  BY <1>1, <1>2

(* The inductive type invariant of the Advertiser.                         *)
LEMMA TypeInvariant == Spec => [](TypeOK /\ TriesLeft)
<1>1. Init => TypeOK /\ TriesLeft
  BY InitType DEF Init, L!LInit, TriesLeft
<1> QED
  BY <1>1, NextType, PTL DEF Spec

(* Every variable of the Advertiser keeps its type: ipC never holds more   *)
(* than its capacity, and receiveRetry never exceeds its retries, for any  *)
(* capacity and any bound.                                                 *)
THEOREM AdvertiserTypeCorrect == Spec => []TypeOK
BY TypeInvariant, PTL

-----------------------------------------------------------------------------
(* Cancelation.  The errgroup can only have ended without an error because *)
(* schedule, which never stops by itself, was canceled from outside.  (The *)
(* task has a closed incarnation, with no schedule, before its first.)     *)
CancelKnown ==
  /\ sched = "done" => EgCtx \/ main = "closed"
  /\ sched = "failed" => serr # "nil"
  /\ main = "shutdown" => S!ctx
  /\ result = "nil" => S!ctx

(* The signal.  Whoever sees the context canceled by a signal also sees    *)
(* what signalTask recorded about it, and nothing changes that any more.   *)
SignalKnown ==
  /\ spc = "cancel" => (term <=> S!isTerminal(sig))
  /\ cause = "signal" => spc = "done" /\ (term <=> S!isTerminal(sig))
  /\ result = "nil" /\ cause = "signal" => (final <=> term)

SafeInv == CancelKnown /\ SignalKnown

(* Nothing has been canceled when an incarnation starts.                   *)
LEMMA InitSafe == Init => SafeInv
BY DEF Init, SafeInv, CancelKnown, SignalKnown, EgCtx, S!SigInit, S!ctx

(* A step that touches neither schedule, Run's closure nor the signal.     *)
LEMMA SafeSame ==
  ASSUME SafeInv, UNCHANGED <<sigVars, mainVars, egErr, schedVars>>
  PROVE  SafeInv'
BY DEF SafeInv, CancelKnown, SignalKnown, EgCtx, S!ctx, S!isTerminal, sigVars,
       mainVars, schedVars

(* A goroutine's error cancels the errgroup, and nothing uncancels it.     *)
LEMMA SafeEgReturn ==
  ASSUME SafeInv, UNCHANGED <<sigVars, mainVars, schedVars>>,
         NEW e, EgReturn(e)
  PROVE  SafeInv'
BY DEF SafeInv, CancelKnown, SignalKnown, EgCtx, EgReturn, S!ctx,
       S!isTerminal, sigVars, mainVars, schedVars

(* Run's closure decides on egErr alone, which is nil only if the server's *)
(* context is canceled.                                                    *)
LEMMA MainSafe ==
  ASSUME SafeInv, Start \/ StartFails \/ EgWait \/ Shutdown \/ Close
  PROVE  SafeInv'
<1> USE DEF SafeInv, CancelKnown, SignalKnown, EgCtx, S!ctx, S!isTerminal,
            sigVars, schedVars
<1>1. CASE Start
  BY <1>1 DEF Start
<1>2. CASE StartFails
  BY <1>2 DEF StartFails
<1>3. CASE EgWait
  BY <1>3 DEF EgWait
<1>4. CASE Shutdown
  BY <1>4 DEF Shutdown
<1>5. CASE Close
  BY <1>5 DEF Close
<1> QED
  BY <1>1, <1>2, <1>3, <1>4, <1>5

(* schedule ends without an error only on a cancelation.                   *)
LEMMA ScheduleSafe ==
  ASSUME SafeInv,
         ScheduleErr \/ ScheduleFailed \/ ScheduleDone \/ ScheduleRA
  PROVE  SafeInv'
<1> USE DEF SafeInv, CancelKnown, SignalKnown, EgCtx, S!ctx, S!isTerminal,
            sigVars, mainVars
<1>1. CASE ScheduleErr
  BY <1>1, AdvertiserAssumption DEF ScheduleErr
<1>2. CASE ScheduleFailed
  BY <1>2 DEF ScheduleFailed, EgReturn
<1>3. CASE ScheduleDone
  BY <1>3 DEF ScheduleDone
<1>4. CASE ScheduleRA
  BY <1>4, SafeSame DEF ScheduleRA
<1> QED
  BY <1>1, <1>2, <1>3, <1>4

(* signalTask records what the signal means before it cancels.             *)
LEMMA ServerSafe ==
  ASSUME SafeInv, ServerRuns
  PROVE  SafeInv'
<1> USE DEF SafeInv, CancelKnown, SignalKnown, EgCtx, S!ctx, S!Cancel,
            mainVars, schedVars
<1>1. CASE S!SigReceive
  BY <1>1 DEF ServerRuns, S!SigReceive
<1>2. CASE S!SigCtxDone
  BY <1>2 DEF ServerRuns, S!SigCtxDone
<1>3. CASE S!SigSet
  BY <1>3 DEF ServerRuns, S!SigSet
<1>4. CASE S!SigCancel
  BY <1>4 DEF ServerRuns, S!SigCancel
<1>5. CASE S!OtherTaskFails
  BY <1>5 DEF ServerRuns, S!OtherTaskFails
<1> QED
  BY <1>1, <1>2, <1>3, <1>4, <1>5 DEF ServerRuns, S!SigNext, S!SigStep

(* Every step keeps the cancelation and its cause known.                   *)
LEMMA NextSafe == SafeInv /\ [Next]_vars => SafeInv'
<1> SUFFICES ASSUME SafeInv, [Next]_vars PROVE SafeInv'
  OBVIOUS
<1>1. CASE ListenerRuns \/ LinkWatcherRuns
  BY <1>1, SafeSame, SafeEgReturn DEF ListenerRuns, LinkWatcherRuns
<1>2. CASE \/ SchedgroupStops
           \/ \E d \in Dst : Dispatch(d) \/ WorkerSends(d) \/ WorkerFails(d)
  BY <1>2, SafeSame DEF SchedgroupStops, Dispatch, WorkerSends, WorkerFails
<1>3. CASE \/ MulticastCheck \/ MulticastPut \/ MulticastCanceled
           \/ MulticastTick
  BY <1>3, SafeSame DEF MulticastCheck, MulticastPut, MulticastCanceled,
                        MulticastTick
<1>4. CASE HandleRS \/ HandlePut \/ HandleOther \/ HandleFails
  BY <1>4, SafeSame DEF HandleRS, HandlePut, HandleOther, HandleFails
<1>5. CASE LinkEvent
  BY <1>5, SafeSame DEF LinkEvent
<1>6. CASE UNCHANGED vars
  BY <1>6, SafeSame DEF vars
<1> QED
  BY <1>1, <1>2, <1>3, <1>4, <1>5, <1>6, MainSafe, ScheduleSafe, ServerSafe
     DEF Next, Run

(* The inductive invariant behind the closure's result.                    *)
LEMMA SafeInvariant == Spec => []SafeInv
BY InitSafe, NextSafe, PTL DEF Spec

(* The closure returns nil only on cancelation, so an Advertiser never     *)
(* ends quietly and the panic of Run's "err == nil" case is out of reach.  *)
THEOREM AdvertiserCleanReturn == Spec => []CleanReturnOnlyOnCancel
<1>1. SafeInv => CleanReturnOnlyOnCancel
  BY DEF SafeInv, CancelKnown, CleanReturnOnlyOnCancel
<1> QED
  BY <1>1, SafeInvariant, PTL

(* A signal that stops the Advertiser cleanly leads to a final RA exactly  *)
(* if it is terminal, however the signal's arrival and its handling        *)
(* interleave with the Advertiser's goroutines and other tasks' failures.  *)
THEOREM AdvertiserFinalRA == Spec => []FinalRAIffTerminal
<1>1. SafeInv => FinalRAIffTerminal
  BY DEF SafeInv, SignalKnown, FinalRAIffTerminal
<1> QED
  BY <1>1, SafeInvariant, PTL

-----------------------------------------------------------------------------
(* Requests in the channel: what Append and Tail do to their number.       *)
LEMMA PositionsFinite ==
  ASSUME NEW s \in Seq(Dst), NEW d
  PROVE  IsFiniteSet(Positions(s, d)) /\ Cardinality(Positions(s, d)) \in Nat
<1>1. IsFiniteSet(1..Len(s))
  BY FS_Interval
<1>2. Positions(s, d) \in SUBSET (1..Len(s))
  BY DEF Positions
<1>3. IsFiniteSet(Positions(s, d))
  BY <1>1, <1>2, FS_Subset
<1> QED
  BY <1>3, FS_CardinalityType

(* A send on the channel adds one request for its destination.             *)
LEMMA AppendCount ==
  ASSUME NEW s \in Seq(Dst), NEW e \in Dst, NEW d
  PROVE  Cardinality(Positions(Append(s, e), d)) =
           Cardinality(Positions(s, d)) + (IF e = d THEN 1 ELSE 0)
<1>1. CASE e = d
  <2>1. Positions(Append(s, e), d) = Positions(s, d) \cup {Len(s) + 1}
    BY <1>1 DEF Positions
  <2>2. Len(s) + 1 \notin Positions(s, d)
    BY DEF Positions
  <2> QED
    BY <1>1, <2>1, <2>2, PositionsFinite, FS_AddElement
<1>2. CASE e # d
  <2>1. Positions(Append(s, e), d) = Positions(s, d)
    BY <1>2 DEF Positions
  <2> QED
    BY <1>2, <2>1, PositionsFinite
<1> QED
  BY <1>1, <1>2

(* A receive takes one away for the destination at the head.               *)
LEMMA TailCount ==
  ASSUME NEW s \in Seq(Dst), s # <<>>, NEW d
  PROVE  Cardinality(Positions(s, d)) =
           Cardinality(Positions(Tail(s), d)) + (IF Head(s) = d THEN 1 ELSE 0)
<1> DEFINE P == Positions(s, d) \ {1}
           Q == Positions(Tail(s), d)
           f == [i \in Q |-> i + 1]
<1>1. Tail(s) \in Seq(Dst) /\ Len(Tail(s)) = Len(s) - 1
  OBVIOUS
<1>2. \A i \in 1..Len(Tail(s)) : Tail(s)[i] = s[i + 1]
  OBVIOUS
<1>3. f \in Bijection(Q, P)
  <2>0. Q \subseteq 1..(Len(s) - 1) /\ P \subseteq 2..Len(s)
    BY <1>1 DEF Positions
  <2>1. f \in [Q -> P]
    BY <1>1, <1>2 DEF Positions
  <2>2. \A i, j \in Q : f[i] = f[j] => i = j
    BY <2>0
  <2>3. \A j \in P : \E i \in Q : f[i] = j
    <3>1. TAKE j \in P
    <3>2. j - 1 \in Q /\ (j - 1) + 1 = j
      BY <1>1, <1>2, <2>0 DEF Positions
    <3> QED
      BY <3>2
  <2> QED
    BY <2>1, <2>2, <2>3, Fun_IsBij
<1>4. IsFiniteSet(Q) /\ Cardinality(Q) \in Nat
  BY <1>1, PositionsFinite
<1>5. Cardinality(P) = Cardinality(Q)
  BY <1>3, <1>4, FS_Bijection, Fun_ExistsBij
<1>6. Cardinality(P) = IF 1 \in Positions(s, d)
                       THEN Cardinality(Positions(s, d)) - 1
                       ELSE Cardinality(Positions(s, d))
  BY PositionsFinite, FS_RemoveElement
<1>7. 1 \in Positions(s, d) <=> Head(s) = d
  BY DEF Positions
<1> HIDE DEF P, Q
<1> QED
  BY <1>4, <1>5, <1>6, <1>7, PositionsFinite DEF Q
(* The six counts of requests are natural numbers.                         *)
LEMMA CountType ==
  ASSUME TypeOK, NEW d \in Dst
  PROVE  /\ Cardinality(Positions(ipC, d)) \in Nat
         /\ asked[d] \in Nat /\ pending[d] \in Nat /\ running[d] \in Nat
         /\ sent[d] \in Nat /\ failed[d] \in Nat
BY PositionsFinite DEF TypeOK, ProducersTypeOK, ScheduleTypeOK

(* A step that moves no request.                                           *)
LEMMA ConservedSame ==
  ASSUME RequestsConserved,
         UNCHANGED <<chVars, pending, running, sent, failed>>
  PROVE  RequestsConserved'
BY DEF RequestsConserved, chVars

(* A request enters the channel.                                           *)
LEMMA ConservedPut ==
  ASSUME TypeOK, RequestsConserved, NEW e \in Dst, Put(e), UNCHANGED sgVars
  PROVE  RequestsConserved'
<1> SUFFICES ASSUME NEW d \in Dst
             PROVE  asked'[d] = Cardinality(Positions(ipC', d))
                      + pending'[d] + running'[d] + sent'[d] + failed'[d]
  BY DEF RequestsConserved
<1>1. ipC \in Seq(Dst) /\ ipC' = Append(ipC, e)
  BY DEF TypeOK, ProducersTypeOK, Put
<1>2. Cardinality(Positions(ipC', d)) =
        Cardinality(Positions(ipC, d)) + (IF e = d THEN 1 ELSE 0)
  BY <1>1, AppendCount
<1>3. asked'[d] = asked[d] + (IF e = d THEN 1 ELSE 0)
  BY CountType DEF Put, TypeOK, ProducersTypeOK
<1> QED
  BY <1>2, <1>3, CountType DEF RequestsConserved, sgVars

(* schedule moves one from the channel to the schedgroup.                  *)
LEMMA ConservedSchedule ==
  ASSUME TypeOK, RequestsConserved, ScheduleRA
  PROVE  RequestsConserved'
<1> SUFFICES ASSUME NEW d \in Dst
             PROVE  asked'[d] = Cardinality(Positions(ipC', d))
                      + pending'[d] + running'[d] + sent'[d] + failed'[d]
  BY DEF RequestsConserved
<1>1. ipC \in Seq(Dst) /\ ipC # <<>> /\ ipC' = Tail(ipC)
  BY DEF TypeOK, ProducersTypeOK, ScheduleRA
<1>2. Tail(ipC) \in Seq(Dst)
  BY <1>1
<1>3. Cardinality(Positions(ipC, d)) =
        Cardinality(Positions(ipC', d)) + (IF Head(ipC) = d THEN 1 ELSE 0)
  BY <1>1, TailCount
<1>4. Cardinality(Positions(ipC', d)) \in Nat
  BY <1>1, <1>2, PositionsFinite
<1>5. pending'[d] = pending[d] + (IF Head(ipC) = d THEN 1 ELSE 0)
  BY CountType DEF ScheduleRA, TypeOK, ScheduleTypeOK
<1>6. UNCHANGED <<asked, running, sent, failed>>
  BY DEF ScheduleRA
<1> QED
  BY <1>3, <1>4, <1>5, <1>6, CountType DEF RequestsConserved

(* The schedgroup and its workers move one on.                             *)
LEMMA ConservedWorker ==
  ASSUME TypeOK, RequestsConserved, NEW e \in Dst,
         Dispatch(e) \/ WorkerSends(e) \/ WorkerFails(e)
  PROVE  RequestsConserved'
<1> SUFFICES ASSUME NEW d \in Dst
             PROVE  asked'[d] = Cardinality(Positions(ipC', d))
                      + pending'[d] + running'[d] + sent'[d] + failed'[d]
  BY DEF RequestsConserved
<1> USE CountType DEF RequestsConserved, TypeOK, ScheduleTypeOK, chVars
<1>1. CASE Dispatch(e)
  BY <1>1 DEF Dispatch
<1>2. CASE WorkerSends(e)
  BY <1>2 DEF WorkerSends
<1>3. CASE WorkerFails(e)
  BY <1>3 DEF WorkerFails
<1> QED
  BY <1>1, <1>2, <1>3

(* No step loses or doubles a request.                                     *)
LEMMA NextConserved ==
  TypeOK /\ RequestsConserved /\ [Next]_vars => RequestsConserved'
<1> SUFFICES ASSUME TypeOK, RequestsConserved, [Next]_vars
             PROVE  RequestsConserved'
  OBVIOUS
<1> USE DEF sgVars
<1>1. CASE Start \/ StartFails \/ EgWait \/ Shutdown \/ Close
  BY <1>1, ConservedSame DEF Start, StartFails, EgWait, Shutdown, Close
<1>2. CASE ScheduleErr \/ ScheduleFailed \/ ScheduleDone \/ SchedgroupStops
  BY <1>2, ConservedSame
     DEF ScheduleErr, ScheduleFailed, ScheduleDone, SchedgroupStops
<1>3. CASE MulticastCheck \/ MulticastCanceled \/ MulticastTick
  BY <1>3, ConservedSame DEF MulticastCheck, MulticastCanceled, MulticastTick
<1>4. CASE MulticastPut \/ HandlePut
  <2>1. \E e \in Dst : Put(e) /\ UNCHANGED sgVars
    BY <1>4, AdvertiserAssumption, Zenon
       DEF MulticastPut, HandlePut, Dst, TypeOK, ProducersTypeOK
  <2> QED
    BY <2>1, ConservedPut
<1>5. CASE HandleRS \/ HandleOther \/ HandleFails
  BY <1>5, ConservedSame DEF HandleRS, HandleOther, HandleFails
<1>6. CASE ListenerRuns \/ LinkWatcherRuns \/ LinkEvent \/ ServerRuns
  BY <1>6, ConservedSame
     DEF ListenerRuns, LinkWatcherRuns, LinkEvent, ServerRuns
<1>7. CASE UNCHANGED vars
  BY <1>7, ConservedSame DEF vars
<1> QED
  BY <1>1, <1>2, <1>3, <1>4, <1>5, <1>6, <1>7, ConservedSchedule,
     ConservedWorker DEF Next, Run

(* No request for an RA is lost or answered twice between the listener,    *)
(* schedule, the schedgroup and its workers, for any number of hosts and   *)
(* requests and any capacity of the channel.                               *)
THEOREM AdvertiserConservesRequests == Spec => []RequestsConserved
<1>1. Init => RequestsConserved
  <2>1. \A d : Positions(<<>>, d) = {}
    BY DEF Positions
  <2> QED
    BY <2>1, FS_EmptySet DEF Init, RequestsConserved
<1> QED
  BY <1>1, NextConserved, TypeInvariant, PTL DEF Spec

-----------------------------------------------------------------------------
(* The task: any number of incarnations under Dialer.Dial.                 *)

(* What the signal task has recorded, and what of it went out on the wire, *)
(* outlives the incarnations: a signal is received once.                   *)
ZeroKnown ==
  /\ spc = "set" => sig # "none"
  /\ term => /\ spc \in {"cancel", "done"}
             /\ S!isTerminal(sig) /\ sig # "none"
  /\ lastRA = "zero" => term

(* A closure that has returned has a result.                               *)
ResultKnown == main = "returned" => result # "none"

TaskInv ==
  /\ TypeOK /\ TriesLeft
  /\ SafeInv /\ RequestsConserved
  /\ ZeroKnown /\ ResultKnown

(* The closure and its goroutines: only Shutdown sends a lifetime of zero, *)
(* and it does so only when the process terminates.                        *)
LEMMA RunZero ==
  ASSUME ZeroKnown, Run
  PROVE  ZeroKnown'
<1> USE DEF ZeroKnown, S!isTerminal, sigVars
<1>1. CASE UNCHANGED <<sigVars, wireVars>>
  BY <1>1 DEF wireVars
<1>2. CASE Start
  BY <1>2 DEF Start, SendOk, wireVars
<1>3. CASE Shutdown
  BY <1>3 DEF Shutdown, SendOk, SendFails, wireVars
<1>4. ASSUME NEW d \in Dst, WorkerSends(d)
      PROVE  ZeroKnown'
  BY <1>4 DEF WorkerSends, SendOk, wireVars
<1>5. ASSUME NEW d \in Dst, Dispatch(d) \/ WorkerFails(d)
      PROVE  ZeroKnown'
  BY <1>1, <1>5 DEF Dispatch, WorkerFails, SendFails
<1>6. CASE StartFails \/ EgWait
  BY <1>1, <1>6 DEF StartFails, EgWait
<1>7. CASE \/ ScheduleErr \/ ScheduleFailed \/ ScheduleDone \/ ScheduleRA
           \/ SchedgroupStops
  BY <1>1, <1>7 DEF ScheduleErr, ScheduleFailed, ScheduleDone, ScheduleRA,
                    SchedgroupStops
<1>8. CASE \/ MulticastCheck \/ MulticastPut \/ MulticastCanceled
           \/ MulticastTick
  BY <1>1, <1>8 DEF MulticastCheck, MulticastPut, MulticastCanceled,
                    MulticastTick
<1>9. CASE HandleRS \/ HandlePut \/ HandleOther \/ HandleFails
  BY <1>1, <1>9 DEF HandleRS, HandlePut, HandleOther, HandleFails
<1>10. CASE ListenerRuns \/ LinkWatcherRuns
  BY <1>1, <1>10 DEF ListenerRuns, LinkWatcherRuns
<1> QED
  BY <1>2, <1>3, <1>4, <1>5, <1>6, <1>7, <1>8, <1>9, <1>10 DEF Run

(* They never touch the connection's state nor the server's context, and   *)
(* the closure returns with a result.                                      *)
LEMMA RunFrame ==
  ASSUME TypeOK, ResultKnown, Run
  PROVE  ResultKnown' /\ UNCHANGED <<sigVars, conn>>
<1> USE DEF ResultKnown
<1>1. CASE UNCHANGED <<sigVars, mainVars, wireVars>>
  BY <1>1 DEF mainVars, wireVars
<1>2. CASE Start
  BY <1>2 DEF Start, SendOk, wireVars
<1>3. CASE StartFails
  BY <1>3 DEF StartFails, wireVars
<1>4. CASE EgWait
  BY <1>4 DEF EgWait, wireVars, TypeOK, MainTypeOK, ErrKinds
<1>5. CASE Shutdown
  BY <1>5 DEF Shutdown, SendOk, SendFails, wireVars
<1>6. ASSUME NEW d \in Dst, Dispatch(d) \/ WorkerSends(d) \/ WorkerFails(d)
      PROVE  ResultKnown' /\ UNCHANGED <<sigVars, conn>>
  BY <1>6 DEF Dispatch, WorkerSends, WorkerFails, SendOk, SendFails, mainVars,
              wireVars
<1>7. CASE \/ ScheduleErr \/ ScheduleFailed \/ ScheduleDone \/ ScheduleRA
           \/ SchedgroupStops
  BY <1>1, <1>7 DEF ScheduleErr, ScheduleFailed, ScheduleDone, ScheduleRA,
                    SchedgroupStops
<1>8. CASE \/ MulticastCheck \/ MulticastPut \/ MulticastCanceled
           \/ MulticastTick
  BY <1>1, <1>8 DEF MulticastCheck, MulticastPut, MulticastCanceled,
                    MulticastTick
<1>9. CASE HandleRS \/ HandlePut \/ HandleOther \/ HandleFails
  BY <1>1, <1>9 DEF HandleRS, HandlePut, HandleOther, HandleFails
<1>10. CASE ListenerRuns \/ LinkWatcherRuns
  BY <1>1, <1>10 DEF ListenerRuns, LinkWatcherRuns
<1> QED
  BY <1>2, <1>3, <1>4, <1>5, <1>6, <1>7, <1>8, <1>9, <1>10 DEF Run

(* The server: a signal is received, recorded and acted upon once.         *)
LEMMA ServerZero ==
  ASSUME TypeOK, ZeroKnown, ServerRuns
  PROVE  ZeroKnown'
<1> USE AdvertiserAssumption
        DEF ZeroKnown, TypeOK, S!SigTypeOK, S!isTerminal, wireVars
<1>1. CASE S!SigReceive
  BY <1>1 DEF ServerRuns, S!SigReceive
<1>2. CASE S!SigCtxDone
  BY <1>2 DEF ServerRuns, S!SigCtxDone
<1>3. CASE S!SigSet
  BY <1>3 DEF ServerRuns, S!SigSet
<1>4. CASE S!SigCancel
  BY <1>4 DEF ServerRuns, S!SigCancel
<1>5. CASE S!OtherTaskFails
  BY <1>5 DEF ServerRuns, S!OtherTaskFails
<1> QED
  BY <1>1, <1>2, <1>3, <1>4, <1>5 DEF ServerRuns, S!SigNext, S!SigStep

(* Before the first incarnation.                                           *)
LEMMA TaskInitInv == TaskInit => TaskInv
<1> SUFFICES ASSUME TaskInit PROVE TaskInv
  OBVIOUS
<1> USE DEF TaskInit
<1>1. S!SigTypeOK
  BY Zenon DEF S!SigInit, S!SigTypeOK
<1>2. L!LTypeOK
  BY CtxType, AdvertiserAssumption DEF L!LTypeOK, L!LPCs, L!LErrs
<1>3. W!LinkTypeOK
  <2>1. wclosed \in BOOLEAN
    BY Zenon DEF W!LinkInit
  <2> QED
    BY <2>1, CtxType, AdvertiserAssumption DEF W!LinkInit, W!LinkTypeOK
<1>4. MainTypeOK
  <2>1. ready \in BOOLEAN /\ final \in BOOLEAN
    BY Zenon
  <2> QED
    BY <2>1 DEF MainTypeOK, D!DialInit
<1>5. ProducersTypeOK
  BY AdvertiserAssumption DEF ProducersTypeOK
<1>6. ScheduleTypeOK
  BY DEF ScheduleTypeOK
<1>7. RequestsConserved
  <2>1. \A d : Positions(<<>>, d) = {}
    BY DEF Positions
  <2> QED
    BY <2>1, FS_EmptySet DEF RequestsConserved
<1>8. SafeInv
  BY DEF SafeInv, CancelKnown, SignalKnown, S!SigInit
<1>9. TriesLeft /\ ZeroKnown /\ ResultKnown
  BY DEF TriesLeft, ZeroKnown, ResultKnown, S!SigInit
<1> QED
  BY <1>1, <1>2, <1>3, <1>4, <1>5, <1>6, <1>7, <1>8, <1>9 DEF TaskInv, TypeOK

(* A new incarnation starts afresh; what outlives it does not change.      *)
LEMMA DialConnectsInv ==
  ASSUME TaskInv, DialConnects
  PROVE  TaskInv'
<1> USE DEF TaskInv, TypeOK, DialConnects, Restart
<1>1. S!SigTypeOK'
  BY SigSame
<1>2. L!LTypeOK'
  BY CtxType, AdvertiserAssumption DEF L!LTypeOK, L!LPCs, L!LErrs
<1>3. W!LinkTypeOK'
  BY CtxType DEF W!LinkTypeOK
<1>4. MainTypeOK'
  <2>1. final' \in BOOLEAN
    BY Zenon
  <2>2. conn' = "open"
    BY DEF D!FirstDialOk, D!RetryDialOk, D!DialOk
  <2> QED
    BY <2>1, <2>2 DEF MainTypeOK
<1>5. ProducersTypeOK'
  BY AdvertiserAssumption DEF ProducersTypeOK
<1>6. ScheduleTypeOK'
  BY DEF ScheduleTypeOK
<1>7. RequestsConserved'
  <2>1. \A d : Positions(<<>>, d) = {}
    BY DEF Positions
  <2>2. /\ ipC' = <<>> /\ asked' = [d \in Dst |-> 0]
        /\ pending' = [d \in Dst |-> 0] /\ running' = [d \in Dst |-> 0]
        /\ sent' = [d \in Dst |-> 0] /\ failed' = [d \in Dst |-> 0]
    OBVIOUS
  <2>3. \A d : Cardinality(Positions(ipC', d)) = 0
    BY <2>1, <2>2, FS_EmptySet
  <2> HIDE DEF TaskInv, TypeOK, DialConnects, Restart
  <2> SUFFICES ASSUME NEW d \in Dst
               PROVE  asked'[d] = Cardinality(Positions(ipC', d))
                        + pending'[d] + running'[d] + sent'[d] + failed'[d]
    BY DEF RequestsConserved
  <2> QED
    BY <2>2, <2>3
<1>8. SafeInv'
  BY DEF SafeInv, CancelKnown, SignalKnown, sigVars, S!isTerminal
<1>9. TriesLeft' /\ ZeroKnown' /\ ResultKnown'
  BY AdvertiserAssumption
     DEF TriesLeft, ZeroKnown, ResultKnown, sigVars, S!isTerminal
<1> QED
  BY <1>1, <1>2, <1>3, <1>4, <1>5, <1>6, <1>7, <1>8, <1>9

(* Link events, also between two incarnations, keep everything else.       *)
LEMMA LinkEventsInv ==
  ASSUME TaskInv, LinkEvents
  PROVE  TaskInv'
<1> USE DEF TaskInv, TypeOK, LinkEvents
<1>1. W!LinkTypeOK'
  <2>1. CASE W!LinkChange
    BY <2>1, CtxType, AdvertiserAssumption DEF W!LinkChange, W!LinkTypeOK
  <2>2. CASE W!WatcherHalts
    <3>1. wclosed' \in BOOLEAN
      BY <2>2, Zenon DEF W!WatcherHalts
    <3> QED
      BY <2>2, <3>1, CtxType DEF W!WatcherHalts, W!LinkTypeOK
  <2> QED
    BY <2>1, <2>2
<1>2. TypeOK'
  BY <1>1, SigSame, LsnSame, MainSame, ProducersSame, ScheduleSame
<1>3. SafeInv' /\ RequestsConserved'
  BY SafeSame, ConservedSame DEF sgVars
<1>4. TriesLeft' /\ ZeroKnown' /\ ResultKnown'
  BY DEF TriesLeft, ZeroKnown, ResultKnown, lsnVars, sigVars, mainVars,
         wireVars, S!isTerminal
<1> QED
  BY <1>2, <1>3, <1>4

(* A step of one incarnation, whatever the Dialer does in it.              *)
LEMMA IncarnationInv ==
  ASSUME TaskInv, [Run \/ Close \/ ServerRuns]_vars
  PROVE  TaskInv'
<1>1. [Next]_vars
  BY DEF Next
<1>2. TypeOK' /\ TriesLeft' /\ SafeInv' /\ RequestsConserved'
  BY <1>1, NextType, NextSafe, NextConserved DEF TaskInv
<1>3. ZeroKnown' /\ ResultKnown'
  <2>1. CASE Run
    BY <2>1, RunZero, RunFrame DEF TaskInv
  <2>2. CASE Close
    BY <2>2 DEF Close, TaskInv, ZeroKnown, ResultKnown, sigVars, S!isTerminal
  <2>3. CASE ServerRuns
    BY <2>3, ServerZero DEF TaskInv, ServerRuns, ResultKnown, mainVars
  <2>4. CASE UNCHANGED vars
    BY <2>4 DEF vars, TaskInv, ZeroKnown, ResultKnown, sigVars, mainVars,
                wireVars, S!isTerminal
  <2> QED
    BY <2>1, <2>2, <2>3, <2>4
<1> QED
  BY <1>2, <1>3 DEF TaskInv

(* The task's invariant is inductive.                                      *)
LEMMA TaskNextInv == TaskInv /\ [TaskNext]_taskVars => TaskInv'
<1> SUFFICES ASSUME TaskInv, [TaskNext]_taskVars PROVE TaskInv'
  OBVIOUS
<1>1. CASE DialConnects
  BY <1>1, DialConnectsInv
<1>2. CASE DialWaits \/ ClosureReturns
  BY <1>2, IncarnationInv DEF DialWaits, ClosureReturns
<1>3. CASE DialCloses
  <2>1. conn' = "closed"
    BY <1>3 DEF DialCloses, D!Done, D!DoneFails
  <2>2. Close
    BY <1>3, <2>1 DEF DialCloses, Close
  <2> QED
    BY <2>2, IncarnationInv
<1>4. CASE Run \/ ServerRuns
  BY <1>4, IncarnationInv
<1>5. CASE LinkEvents
  BY <1>5, LinkEventsInv
<1>6. CASE UNCHANGED taskVars
  BY <1>6, IncarnationInv DEF taskVars
<1> QED
  BY <1>1, <1>2, <1>3, <1>4, <1>5, <1>6 DEF TaskNext, Environment

(* The inductive invariant of the task.                                    *)
LEMMA TaskInvariant == TaskSpec => []TaskInv
BY TaskInitInv, TaskNextInv, PTL DEF TaskSpec

(* Over any number of incarnations, shutdown's RA with a lifetime of zero  *)
(* goes out only after a terminal signal: neither a reload nor a link      *)
(* change nor another task's failure withdraws the default route.          *)
THEOREM TaskZeroOnlyIfTerminal == TaskSpec => []ZeroOnlyIfTerminal
<1>1. TaskInv => ZeroOnlyIfTerminal
  BY DEF TaskInv, ZeroKnown, ZeroOnlyIfTerminal
<1> QED
  BY <1>1, TaskInvariant, PTL

(* What holds of one incarnation holds of every later one: a clean return  *)
(* follows a cancelation, the final RA agrees with the signal, and no      *)
(* request is lost.                                                        *)
THEOREM TaskIncarnations ==
  TaskSpec => [](/\ TypeOK
                 /\ CleanReturnOnlyOnCancel
                 /\ FinalRAIffTerminal
                 /\ RequestsConserved)
<1>1. TaskInv => /\ TypeOK
                 /\ CleanReturnOnlyOnCancel
                 /\ FinalRAIffTerminal
                 /\ RequestsConserved
  BY DEF TaskInv, SafeInv, CancelKnown, SignalKnown, CleanReturnOnlyOnCancel,
         FinalRAIffTerminal
<1> QED
  BY <1>1, TaskInvariant, PTL

-----------------------------------------------------------------------------
(* Refinement: the task implements the Dialer's specification.             *)

(* The server's context is canceled once or not at all.                    *)
LEMMA ServerStep ==
  ASSUME ServerRuns, UNCHANGED dVars
  PROVE  D!ContextCanceled \/ UNCHANGED D!vars
<1>1. UNCHANGED <<dVars, conn>>
  BY DEF ServerRuns, wireVars
<1>2. S!ctx \in BOOLEAN /\ S!ctx' \in BOOLEAN
  BY Zenon DEF S!ctx
<1>3. S!ctx => S!ctx'
  BY DEF ServerRuns, S!SigNext, S!SigStep, S!SigReceive, S!SigCtxDone,
         S!SigSet, S!SigCancel, S!OtherTaskFails, S!Cancel, S!ctx
<1>4. CASE S!ctx' = S!ctx
  BY <1>1, <1>4 DEF D!vars, D!dialVars, D!sysVars, dVars
<1>5. CASE ~S!ctx /\ S!ctx'
  BY <1>1, <1>2, <1>5 DEF D!ContextCanceled, D!dialVars, D!sysVars, dVars
<1> QED
  BY <1>2, <1>3, <1>4, <1>5

(* Every step of the task is a step of Dial, a cancelation, or none.       *)
LEMMA TaskStep ==
  ASSUME TaskInv, [TaskNext]_taskVars
  PROVE  [D!Next]_(D!vars)
<1>1. ASSUME UNCHANGED <<sigVars, conn, dVars>> PROVE UNCHANGED D!vars
  BY <1>1 DEF D!vars, D!dialVars, D!sysVars, dVars, sigVars, S!ctx
<1>2. CASE DialConnects
  BY <1>2 DEF DialConnects, D!Next, D!Dial
<1>3. CASE DialWaits
  BY <1>3 DEF DialWaits, D!Next, D!Dial
<1>4. CASE ClosureReturns
  <2>1. UNCHANGED S!ctx /\ UNCHANGED conn
    BY <1>4 DEF ClosureReturns, vars, sigVars, wireVars, S!ctx
  <2>2. result \in ErrKinds \/ (S!ctx /\ result = "nil")
    BY <1>4 DEF ClosureReturns, TaskInv, TypeOK, MainTypeOK, ResultKnown,
                SafeInv, CancelKnown
  <2>3. D!FnReturns
    BY <1>4, <2>1, <2>2 DEF ClosureReturns, D!FnReturns, D!sysVars
  <2> QED
    BY <2>3 DEF D!Next, D!Dial
<1>5. CASE DialCloses
  BY <1>5 DEF DialCloses, D!Next, D!Dial
<1>6. CASE Run /\ UNCHANGED dVars
  BY <1>1, <1>6, RunFrame DEF TaskInv
<1>7. CASE ServerRuns /\ UNCHANGED dVars
  BY <1>7, ServerStep DEF D!Next
<1>8. CASE LinkEvents /\ UNCHANGED dVars
  BY <1>1, <1>8 DEF LinkEvents, wireVars
<1>9. CASE UNCHANGED taskVars
  BY <1>1, <1>9 DEF taskVars, vars, wireVars
<1> QED
  BY <1>2, <1>3, <1>4, <1>5, <1>6, <1>7, <1>8, <1>9 DEF TaskNext, Environment

(* The Advertiser is a function as Dial expects it: the task implements    *)
(* the Dialer's specification, for any hosts, capacities and errors.       *)
THEOREM TaskRefinesDialer == TaskSpec => RefinesDialer
<1>1. TaskInit => D!Init
  <2>1. SUFFICES ASSUME TaskInit PROVE D!Init
    OBVIOUS
  <2>2. ~S!ctx
    BY <2>1 DEF TaskInit, S!SigInit, S!ctx
  <2>3. S!ctx = FALSE
    BY <2>2, Zenon DEF S!ctx
  <2>4. D!DialInit
    BY <2>1 DEF TaskInit
  <2> QED
    BY <2>3, <2>4, Zenon DEF D!Init
<1>2. TaskInv /\ [TaskNext]_taskVars => [D!Next]_(D!vars)
  BY TaskStep
<1> QED
  BY <1>1, <1>2, TaskInvariant, PTL DEF TaskSpec, RefinesDialer, D!Spec

-----------------------------------------------------------------------------
(* The Dialer's theorems, for the Advertiser's connection.                 *)
DP == INSTANCE DialerProofs WITH ctx <- S!ctx, Advertise <- TRUE,
                                 FnErrs <- ErrKinds

(* The constants are as the Dialer's proofs require.                       *)
LEMMA DialerConstants == DP!DialerAssumption
<1>1. TRUE \in BOOLEAN
  OBVIOUS
<1> QED
  BY <1>1, TaskAssumption
     DEF DP!DialerAssumption, DP!ErrKinds, D!ErrKinds, ErrKinds

(* The two instances of the Dialer are one specification.                  *)
LEMMA SameDialer == D!Spec => DP!Spec
<1>1. D!Init => DP!Init
  BY DEF D!Init, DP!Init, D!DialInit, DP!DialInit
<1>2. [D!Next]_(D!vars) => [DP!Next]_(DP!vars)
  BY DEF D!Next, DP!Next, D!Dial, DP!Dial, D!vars, DP!vars, D!dialVars,
         DP!dialVars, D!sysVars, DP!sysVars,
         D!FirstDialOk, DP!FirstDialOk, D!FirstDialFails, DP!FirstDialFails,
         D!RetryCanceled, DP!RetryCanceled, D!RetryDialOk, DP!RetryDialOk,
         D!RetryDialFails, DP!RetryDialFails, D!RetryTimedOut,
         DP!RetryTimedOut, D!FnReturns, DP!FnReturns, D!Done, DP!Done,
         D!DoneFails, DP!DoneFails, D!ContextCanceled, DP!ContextCanceled,
         D!ProcessRestarts, DP!ProcessRestarts, D!DialOk, DP!DialOk,
         D!DialFails, DP!DialFails, D!RestoreOk, DP!RestoreOk,
         D!RestoreFails, DP!RestoreFails, D!Return, DP!Return,
         D!Classify, DP!Classify, D!Recoverable, DP!Recoverable,
         D!ErrKinds, DP!ErrKinds
<1> QED
  BY <1>1, <1>2, PTL DEF D!Spec, DP!Spec

(* The Dialer's promises hold of the whole Advertiser, however its         *)
(* goroutines interleave and however often it reinitializes: outside the   *)
(* closure the autoconfiguration switch has the user's value unless a      *)
(* restore was refused, it is never switched on against the user's         *)
(* setting, the connection is open exactly while the closure or its        *)
(* cleanup has it, and the task returns nil only when canceled.            *)
THEOREM TaskKeepsDialersPromises ==
  TaskSpec => [](/\ D!AutoconfRestored
                 /\ D!NeverSwitchedOn
                 /\ D!ConnOpenOnlyForFn
                 /\ D!NilOnlyOnCancel)
<1>1. DP!Spec => [](DP!AutoconfRestored)
  BY DialerConstants, DP!DialerRestoresAutoconf
<1>2. DP!Spec => [](DP!NeverSwitchedOn)
  BY DialerConstants, DP!DialerNeverSwitchesOn
<1>3. DP!Spec => [](DP!ConnOpenOnlyForFn)
  BY DialerConstants, DP!DialerConnScoped
<1>4. DP!Spec => [](DP!NilOnlyOnCancel)
  BY DialerConstants, DP!DialerNilOnlyOnCancel
<1>5. /\ DP!AutoconfRestored /\ DP!NeverSwitchedOn
      /\ DP!ConnOpenOnlyForFn /\ DP!NilOnlyOnCancel
      => /\ D!AutoconfRestored /\ D!NeverSwitchedOn
         /\ D!ConnOpenOnlyForFn /\ D!NilOnlyOnCancel
  BY DEF DP!AutoconfRestored, DP!NeverSwitchedOn, DP!ConnOpenOnlyForFn,
         DP!NilOnlyOnCancel, D!AutoconfRestored, D!NeverSwitchedOn,
         D!ConnOpenOnlyForFn, D!NilOnlyOnCancel
<1>6. TaskSpec => DP!Spec
  BY TaskRefinesDialer, SameDialer, PTL DEF RefinesDialer
<1> QED
  BY <1>1, <1>2, <1>3, <1>4, <1>5, <1>6, PTL

-----------------------------------------------------------------------------
(* Shutdown: the exception in ShutdownUnlessWedged, and the measure behind *)
(* the rule.                                                               *)

(* The listener is in its callback while it holds a request, and Run's     *)
(* closure has left eg.Wait() only after the producers have returned.      *)
ProducersOK ==
  /\ lip # "none" => lpc = "callback"
  /\ main # "running" => \/ sched = "select"
                         \/ mcast = "done" /\ lpc = "returned"

(* A step that leaves the producers, schedule and Run's closure alone.     *)
LEMMA ProducersStay ==
  ASSUME ProducersOK, UNCHANGED <<main, sched, mcast, lpc, lip>>
  PROVE  ProducersOK'
BY DEF ProducersOK

(* Every step of an incarnation keeps ProducersOK.                         *)
LEMMA NextProducers == ProducersOK /\ [Next]_vars => ProducersOK'
<1> SUFFICES ASSUME ProducersOK, [Next]_vars PROVE ProducersOK'
  OBVIOUS
<1> USE DEF mainVars, schedVars, mcVars, lsnVars, cbVars
<1>1. CASE Start \/ StartFails \/ Close
  BY <1>1 DEF Start, StartFails, Close, ProducersOK
<1>2. CASE EgWait \/ Shutdown
  BY <1>2 DEF EgWait, Shutdown, ProducersOK
<1>3. CASE ScheduleErr \/ ScheduleFailed \/ ScheduleDone \/ ScheduleRA
  BY <1>3 DEF ScheduleErr, ScheduleFailed, ScheduleDone, ScheduleRA,
              ProducersOK
<1>4. CASE \/ SchedgroupStops
           \/ \E d \in Dst : Dispatch(d) \/ WorkerSends(d) \/ WorkerFails(d)
  BY <1>4, ProducersStay DEF SchedgroupStops, Dispatch, WorkerSends,
                             WorkerFails
<1>5. CASE \/ MulticastCheck \/ MulticastPut \/ MulticastCanceled
           \/ MulticastTick
  BY <1>5 DEF MulticastCheck, MulticastPut, MulticastCanceled, MulticastTick,
              ProducersOK
<1>6. CASE HandleRS \/ HandlePut \/ HandleOther \/ HandleFails
  BY <1>6 DEF HandleRS, HandlePut, HandleOther, HandleFails, L!CallbackOk,
              L!CallbackErr, ProducersOK
<1>7. CASE ListenerRuns
  <2>1. main = "running" /\ UNCHANGED <<main, lip>>
    BY <1>7 DEF ListenerRuns
  <2>2. lpc = "callback" => UNCHANGED lpc
    BY <1>7 DEF ListenerRuns, L!Check, L!Backoff, L!Interrupt, L!NetworkStep,
       L!ReadMessage, L!ReadInvalid, L!ReadTimeout, L!ReadFatal,
       L!WaitReturn, L!DeferReturn
  <2> QED
    BY <2>1, <2>2 DEF ProducersOK
<1>8. CASE LinkWatcherRuns \/ LinkEvent \/ ServerRuns
  BY <1>8, ProducersStay DEF LinkWatcherRuns, LinkEvent, ServerRuns
<1>9. CASE UNCHANGED vars
  BY <1>9, ProducersStay DEF vars
<1> QED
  BY <1>1, <1>2, <1>3, <1>4, <1>5, <1>6, <1>7, <1>8, <1>9 DEF Next, Run

(* A wedged producer never gets unstuck: nothing drains ipC any more, and  *)
(* the send on it, unlike every other wait, does not look at the context.  *)
LEMMA WedgedStep ==
  ASSUME TypeOK, Wedged, [Next]_vars
  PROVE  Wedged'
<1>1. sched = "done" /\ Len(ipC) = IpcCap /\ (mcast = "put" \/ lip # "none")
  BY DEF Wedged
<1>2. \A d : ~Put(d)
  <2>1. ~(Len(ipC) < IpcCap)
    BY <1>1, AdvertiserAssumption
  <2> QED
    BY <2>1 DEF Put
<1>3. ~MulticastPut /\ ~HandlePut
  BY <1>2 DEF MulticastPut, HandlePut
<1>4. ~ScheduleErr /\ ~ScheduleFailed /\ ~ScheduleDone /\ ~ScheduleRA
  BY <1>1 DEF ScheduleErr, ScheduleFailed, ScheduleDone, ScheduleRA
<1> USE <1>1 DEF Wedged, chVars, schedVars, mcVars, cbVars
<1>5. CASE Start \/ StartFails \/ EgWait \/ Shutdown \/ Close
  BY <1>5 DEF Start, StartFails, EgWait, Shutdown, Close
<1>6. CASE \/ SchedgroupStops
           \/ \E d \in Dst : Dispatch(d) \/ WorkerSends(d) \/ WorkerFails(d)
  BY <1>6 DEF SchedgroupStops, Dispatch, WorkerSends, WorkerFails
<1>7. CASE MulticastCheck \/ MulticastCanceled \/ MulticastTick
  BY <1>7 DEF MulticastCheck, MulticastCanceled, MulticastTick
<1>8. CASE HandleRS \/ HandleOther \/ HandleFails
  BY <1>8 DEF HandleRS, HandleOther, HandleFails
<1>9. CASE ListenerRuns \/ LinkWatcherRuns \/ LinkEvent \/ ServerRuns
  BY <1>9 DEF ListenerRuns, LinkWatcherRuns, LinkEvent, ServerRuns
<1>10. CASE UNCHANGED vars
  BY <1>10 DEF vars
<1> QED
  BY <1>3, <1>4, <1>5, <1>6, <1>7, <1>8, <1>9, <1>10 DEF Next, Run

(* A wedged incarnation is inside eg.Wait(), canceled.                     *)
LEMMA WedgedWhere ==
  ASSUME ProducersOK, SafeInv, Wedged
  PROVE  main = "running" /\ EgCtx
<1>1. main = "running"
  BY DEF ProducersOK, Wedged
<1> QED
  BY <1>1 DEF SafeInv, CancelKnown, Wedged

(* The exception that ShutdownUnlessWedged makes is a hang: a producer is  *)
(* wedged only in a canceled incarnation and then for ever, so that        *)
(* eg.Wait() never returns and the connection is never closed.             *)
WedgedForever ==
  /\ [](Wedged => main = "running" /\ EgCtx)
  /\ [][Wedged => Wedged']_vars

(* The statement above, for every behaviour.                               *)
THEOREM AdvertiserWedgedForever == Spec => WedgedForever
<1>1. Init => ProducersOK
  BY DEF Init, ProducersOK
<1>2. ProducersOK /\ SafeInv => (Wedged => main = "running" /\ EgCtx)
  BY WedgedWhere
<1>3. TypeOK /\ [Next]_vars => [Wedged => Wedged']_vars
  BY WedgedStep
<1> QED
  BY <1>1, <1>2, <1>3, NextProducers, SafeInvariant, TypeInvariant, PTL
     DEF Spec, WedgedForever

(* Dial has called the closure as long as it has not returned.             *)
ClosureInFn == main \in {"init", "running", "shutdown"} => dpc = "fn"

(* The same under Dial: a wedged incarnation is the last one.  Dial stays  *)
(* in its closure, so that the task never ends and Dial's cleanup, which   *)
(* closes the connection and restores autoconfiguration, never runs.       *)
TaskWedgedForever ==
  /\ [](Wedged => main = "running" /\ EgCtx /\ dpc = "fn")
  /\ [][Wedged => Wedged']_taskVars

(* The task keeps both.                                                    *)
LEMMA TaskProducers ==
  ASSUME TaskInv, ProducersOK, ClosureInFn, [TaskNext]_taskVars
  PROVE  /\ (ProducersOK /\ ClosureInFn)'
         /\ Wedged => Wedged'
<1>1. CASE DialConnects
  <2>1. dpc # "fn" /\ dpc' = "fn"
    BY <1>1 DEF DialConnects, D!FirstDialOk, D!RetryDialOk
  <2>2. (ProducersOK /\ ClosureInFn)'
    BY <1>1, <2>1 DEF DialConnects, Restart, ProducersOK, ClosureInFn
  <2>3. ~Wedged
    BY <2>1, WedgedWhere DEF TaskInv, ClosureInFn
  <2> QED
    BY <2>2, <2>3
<1>2. CASE DialWaits \/ ClosureReturns
  <2>1. UNCHANGED vars
    BY <1>2 DEF DialWaits, ClosureReturns
  <2>2. ProducersOK' /\ (Wedged => Wedged')
    BY <2>1, NextProducers, WedgedStep DEF TaskInv
  <2>3. main \notin {"init", "running", "shutdown"}
    BY <1>2 DEF DialWaits, D!FirstDialFails, D!RetryCanceled,
       D!RetryDialFails, D!RetryTimedOut, ClosureReturns, ClosureInFn
  <2>4. UNCHANGED main
    BY <2>1 DEF vars, mainVars
  <2> QED
    BY <2>2, <2>3, <2>4 DEF ClosureInFn
<1>3. CASE DialCloses
  <2>1. conn' = "closed"
    BY <1>3 DEF DialCloses, D!Done, D!DoneFails
  <2>2. Close
    BY <1>3, <2>1 DEF DialCloses, Close
  <2>3. ProducersOK' /\ (Wedged => Wedged')
    BY <2>2, NextProducers, WedgedStep DEF TaskInv, Next
  <2> QED
    BY <2>2, <2>3 DEF Close, ClosureInFn
<1>4. CASE (Run \/ ServerRuns) /\ UNCHANGED dVars
  <2>1. ProducersOK' /\ (Wedged => Wedged')
    BY <1>4, NextProducers, WedgedStep DEF TaskInv, Next
  <2>2. main' = main \/ main \in {"init", "running", "shutdown"}
    BY <1>4 DEF Run, ServerRuns, mainVars, Start, StartFails, EgWait,
       Shutdown, ScheduleErr, ScheduleFailed, ScheduleDone, ScheduleRA,
       SchedgroupStops, Dispatch, WorkerSends, WorkerFails, MulticastCheck,
       MulticastPut, MulticastCanceled, MulticastTick, HandleRS, HandlePut,
       HandleOther, HandleFails, ListenerRuns, LinkWatcherRuns
  <2> QED
    BY <1>4, <2>1, <2>2 DEF ClosureInFn, dVars
<1>5. CASE LinkEvents /\ UNCHANGED dVars
  BY <1>5, ProducersStay DEF LinkEvents, mainVars, chVars, schedVars, mcVars,
     lsnVars, cbVars, dVars, ClosureInFn, Wedged
<1>6. CASE UNCHANGED taskVars
  <2>1. UNCHANGED vars /\ UNCHANGED dVars
    BY <1>6 DEF taskVars
  <2>2. ProducersOK' /\ (Wedged => Wedged')
    BY <2>1, NextProducers, WedgedStep DEF TaskInv
  <2> QED
    BY <2>1, <2>2 DEF ClosureInFn, vars, mainVars, dVars
<1> QED
  BY <1>1, <1>2, <1>3, <1>4, <1>5, <1>6 DEF TaskNext, Environment

(* The statement above, for every behaviour.                               *)
THEOREM TaskNeverUnwedged == TaskSpec => TaskWedgedForever
<1>1. TaskInit => ProducersOK /\ ClosureInFn
  BY DEF TaskInit, ProducersOK, ClosureInFn
<1>2. TaskInv /\ ProducersOK /\ ClosureInFn /\ [TaskNext]_taskVars
        => (ProducersOK /\ ClosureInFn)' /\ [Wedged => Wedged']_taskVars
  BY TaskProducers
<1>3. TaskInv /\ ProducersOK /\ ClosureInFn
        => (Wedged => main = "running" /\ EgCtx /\ dpc = "fn")
  BY WedgedWhere DEF TaskInv, ClosureInFn
<1> QED
  BY <1>1, <1>2, <1>3, TaskInvariant, PTL DEF TaskSpec, TaskWedgedForever

-----------------------------------------------------------------------------
(* How far each goroutine of a canceled incarnation is from its end.  A    *)
(* canceled multicast or listener makes at most one more request before it *)
(* looks at the context: the listener handles at most the message it is    *)
(* reading.  A request counts for two steps, its producer's and schedule's *)
(* when it takes it from the channel.                                      *)
MulticastLeft ==
  IF mcast = "put" THEN 4
  ELSE IF mcast = "wait" THEN 2
  ELSE IF mcast = "check" THEN 1 ELSE 0

ListenLeft ==
  IF lpc = "read" THEN 6
  ELSE IF lpc = "callback" THEN (IF lip = "none" THEN 5 ELSE 4)
  ELSE IF lpc = "backoff" THEN 3
  ELSE IF lpc = "check" THEN 2
  ELSE IF lpc \in {"wait", "defer"} THEN 1 ELSE 0

ScheduleLeft ==
  IF sched = "select" THEN 2 ELSE IF sched = "failed" THEN 1 ELSE 0

ClosureLeft ==
  IF main = "init" THEN 4
  ELSE IF main = "running" THEN 3
  ELSE IF main = "shutdown" THEN 2
  ELSE IF main = "returned" THEN 1 ELSE 0

WakeLeft ==
  (IF wpc = "select" THEN 1 ELSE 0) + (IF intr = "waiting" THEN 1 ELSE 0)
    + (IF sg = "running" THEN 1 ELSE 0)

(* What is left to do, the requests in the channel included.               *)
CancelLeft ==
  Len(ipC) + (MulticastLeft + ListenLeft)
    + (ScheduleLeft + ClosureLeft + WakeLeft)

(* The state of the closure, of the goroutines it joins, of the listener's *)
(* interrupter and of the schedgroup.                                      *)
joined == <<main, sched, ipC, mcast, lpc, lip, wpc, intr, sg>>

(* A canceled incarnation stays canceled, and every step of its closure,   *)
(* of the goroutines it waits for and of the channel between them lowers   *)
(* a measure bounded by the channel's capacity: producers and schedule     *)
(* cannot keep each other going, whatever arrives from the network, the    *)
(* link, the workers or a signal.                                          *)
CanceledEnds ==
  /\ [](CancelLeft \in 0..(IpcCap + 19))
  /\ [][EgCtx => EgCtx']_vars
  /\ [][EgCtx => CancelLeft' < CancelLeft]_joined

(* The parts of the measure are small numbers.                             *)
LeftOK ==
  /\ Len(ipC) \in 0..IpcCap
  /\ MulticastLeft \in 0..4 /\ ListenLeft \in 0..6
  /\ ScheduleLeft \in 0..2 /\ ClosureLeft \in 0..4 /\ WakeLeft \in 0..3

(* So the types say.                                                       *)
LEMMA LeftType == TypeOK => LeftOK
<1> SUFFICES ASSUME TypeOK PROVE LeftOK
  OBVIOUS
<1>1. ipC \in Seq(Dst) /\ Len(ipC) <= IpcCap /\ IpcCap \in Nat
  BY AdvertiserAssumption DEF TypeOK, ProducersTypeOK
<1>2. Len(ipC) \in Nat
  BY <1>1
<1> QED
  BY <1>1, <1>2 DEF LeftOK, MulticastLeft, ListenLeft, ScheduleLeft,
     ClosureLeft, WakeLeft

(* Nothing takes a cancelation back.                                       *)
LEMMA CanceledStays ==
  ASSUME EgCtx, [Next]_vars
  PROVE  EgCtx'
<1> USE DEF EgCtx, S!ctx, sigVars
<1>1. CASE Start \/ StartFails \/ EgWait \/ Shutdown \/ Close
  BY <1>1 DEF Start, StartFails, EgWait, Shutdown, Close
<1>2. CASE ScheduleErr \/ ScheduleFailed \/ ScheduleDone \/ ScheduleRA
  BY <1>2 DEF ScheduleErr, ScheduleFailed, ScheduleDone, ScheduleRA, EgReturn
<1>3. CASE \/ SchedgroupStops
           \/ \E d \in Dst : Dispatch(d) \/ WorkerSends(d) \/ WorkerFails(d)
  BY <1>3 DEF SchedgroupStops, Dispatch, WorkerSends, WorkerFails
<1>4. CASE \/ MulticastCheck \/ MulticastPut \/ MulticastCanceled
           \/ MulticastTick
  BY <1>4 DEF MulticastCheck, MulticastPut, MulticastCanceled, MulticastTick
<1>5. CASE HandleRS \/ HandlePut \/ HandleOther \/ HandleFails
  BY <1>5 DEF HandleRS, HandlePut, HandleOther, HandleFails
<1>6. CASE ListenerRuns \/ LinkWatcherRuns
  BY <1>6 DEF ListenerRuns, LinkWatcherRuns, EgReturn
<1>7. CASE LinkEvent \/ UNCHANGED vars
  BY <1>7 DEF LinkEvent, vars
<1>8. CASE ServerRuns
  BY <1>8 DEF ServerRuns, S!SigNext, S!SigReceive, S!SigStep, S!SigCtxDone,
     S!SigSet, S!SigCancel, S!OtherTaskFails, S!Cancel
<1> QED
  BY <1>1, <1>2, <1>3, <1>4, <1>5, <1>6, <1>7, <1>8 DEF Next, Run

(* A request takes one place of the channel.                               *)
LEMMA PutLength ==
  ASSUME TypeOK, NEW d \in Dst, Put(d)
  PROVE  Len(ipC') = Len(ipC) + 1
<1>1. ipC \in Seq(Dst) /\ ipC' = Append(ipC, d)
  BY DEF TypeOK, ProducersTypeOK, Put
<1> QED
  BY <1>1

(* The listener of a canceled incarnation comes nearer to its end with     *)
(* every step of its own; the interrupter's step leaves it where it is.    *)
LEMMA ListenNearer ==
  ASSUME EgCtx, ListenerRuns
  PROVE  \/ ListenLeft' < ListenLeft /\ UNCHANGED <<intr, lip>>
         \/ UNCHANGED <<lpc, lip>> /\ intr = "waiting" /\ intr' # "waiting"
<1> USE DEF ListenerRuns, cbVars
<1>1. CASE L!Check \/ L!Backoff
  BY <1>1 DEF L!Check, L!Backoff, L!ReceiveFailed, L!ReceiveCanceled, L!Retry,
     ListenLeft
<1>2. CASE L!ReadMessage \/ L!ReadInvalid
  BY <1>2 DEF L!ReadMessage, L!ReadInvalid, L!Retry, ListenLeft
<1>3. CASE L!ReadTimeout \/ \E e \in ReadErrs : L!ReadFatal(e)
  BY <1>3 DEF L!ReadTimeout, L!ReadFatal, L!ReceiveFailed, L!ReceiveCanceled,
     ListenLeft
<1>4. CASE L!WaitReturn \/ L!DeferReturn
  BY <1>4 DEF L!WaitReturn, L!DeferReturn, ListenLeft
<1>5. CASE L!Interrupt
  BY <1>5 DEF L!Interrupt
<1> QED
  BY <1>1, <1>2, <1>3, <1>4, <1>5 DEF L!NetworkStep

(* Each step of a canceled incarnation that is not a worker's or the       *)
(* environment's lowers the measure.                                       *)
LEMMA CancelStep ==
  ASSUME TypeOK, LeftOK, LeftOK', EgCtx, Next, joined' # joined
  PROVE  CancelLeft' < CancelLeft
<1>1. PICK n \in Int, m \in Int, l \in Int, s \in Int, c \in Int, w \in Int :
        /\ n = Len(ipC) /\ m = MulticastLeft /\ l = ListenLeft
        /\ s = ScheduleLeft /\ c = ClosureLeft /\ w = WakeLeft
  BY AdvertiserAssumption DEF LeftOK
<1>2. PICK nn \in Int, mm \in Int, ll \in Int, ss \in Int, cc \in Int, ww \in Int :
        /\ nn = Len(ipC') /\ mm = MulticastLeft' /\ ll = ListenLeft'
        /\ ss = ScheduleLeft' /\ cc = ClosureLeft' /\ ww = WakeLeft'
  BY AdvertiserAssumption DEF LeftOK
<1>3. /\ CancelLeft = n + (m + l) + (s + c + w)
      /\ CancelLeft' = nn + (mm + ll) + (ss + cc + ww)
  BY <1>1, <1>2 DEF CancelLeft
<1> USE <1>1, <1>2
<1>4. /\ UNCHANGED ipC => nn = n
      /\ UNCHANGED mcast => mm = m
      /\ UNCHANGED <<lpc, lip>> => ll = l
      /\ UNCHANGED sched => ss = s
      /\ UNCHANGED main => cc = c
      /\ UNCHANGED <<wpc, intr, sg>> => ww = w
  BY DEF MulticastLeft, ListenLeft, ScheduleLeft, ClosureLeft, WakeLeft
<1> USE DEF mainVars, schedVars, mcVars, lsnVars, cbVars, linkVars, sgVars,
            chVars
<1>5. CASE Start \/ StartFails \/ EgWait \/ Shutdown \/ Close
  <2>1. cc < c
    BY <1>5 DEF Start, StartFails, EgWait, Shutdown, Close, ClosureLeft
  <2>2. nn = n /\ mm = m /\ ll = l /\ ss = s /\ ww = w
    BY <1>4, <1>5 DEF Start, StartFails, EgWait, Shutdown, Close
  <2> QED
    BY ONLY <1>1, <1>2, <1>3, <2>1, <2>2
<1>6. CASE ScheduleErr \/ ScheduleFailed \/ ScheduleDone
  <2>1. ss < s
    BY <1>6 DEF ScheduleErr, ScheduleFailed, ScheduleDone, ScheduleLeft
  <2>2. nn = n /\ mm = m /\ ll = l /\ cc = c /\ ww = w
    BY <1>4, <1>6 DEF ScheduleErr, ScheduleFailed, ScheduleDone
  <2> QED
    BY ONLY <1>1, <1>2, <1>3, <2>1, <2>2
<1>7. CASE ScheduleRA
  <2>1. nn < n
    <3>1. ipC \in Seq(Dst) /\ ipC # <<>> /\ ipC' = Tail(ipC)
      BY <1>7 DEF ScheduleRA, TypeOK, ProducersTypeOK
    <3>2. Len(Tail(ipC)) = Len(ipC) - 1
      BY <3>1
    <3> QED
      BY <3>1, <3>2
  <2>2. mm = m /\ ll = l /\ ss = s /\ cc = c /\ ww = w
    BY <1>4, <1>7 DEF ScheduleRA
  <2> QED
    BY ONLY <1>1, <1>2, <1>3, <2>1, <2>2
<1>8. CASE SchedgroupStops
  <2>1. ww < w
    BY <1>8 DEF SchedgroupStops, WakeLeft
  <2>2. nn = n /\ mm = m /\ ll = l /\ ss = s /\ cc = c
    BY <1>4, <1>8 DEF SchedgroupStops
  <2> QED
    BY ONLY <1>1, <1>2, <1>3, <2>1, <2>2
<1>9. CASE MulticastPut
  <2>1. nn = n + 1
    BY <1>9, PutLength DEF MulticastPut, Dst
  <2>2. mm = m - 2
    BY <1>9 DEF MulticastPut, MulticastLeft
  <2>3. ll = l /\ ss = s /\ cc = c /\ ww = w
    BY <1>4, <1>9 DEF MulticastPut
  <2> QED
    BY ONLY <1>1, <1>2, <1>3, <2>1, <2>2, <2>3
<1>10. CASE MulticastCheck \/ MulticastCanceled \/ MulticastTick
  <2>1. mm < m
    BY <1>10 DEF MulticastCheck, MulticastCanceled, MulticastTick,
       MulticastLeft
  <2>2. nn = n /\ ll = l /\ ss = s /\ cc = c /\ ww = w
    BY <1>4, <1>10 DEF MulticastCheck, MulticastCanceled, MulticastTick
  <2> QED
    BY ONLY <1>1, <1>2, <1>3, <2>1, <2>2
<1>11. CASE HandlePut
  <2>1. nn = n + 1
    BY <1>11, PutLength DEF HandlePut, TypeOK, ProducersTypeOK
  <2>2. ll = l - 2
    BY <1>11 DEF HandlePut, L!CallbackOk, ListenLeft
  <2>3. mm = m /\ ss = s /\ cc = c /\ ww = w
    BY <1>4, <1>11 DEF HandlePut, L!CallbackOk
  <2> QED
    BY ONLY <1>1, <1>2, <1>3, <2>1, <2>2, <2>3
<1>12. CASE HandleRS \/ HandleOther \/ HandleFails
  <2>1. ll < l
    <3>1. CASE HandleRS
      <4>1. lip' # lip
        BY <3>1 DEF HandleRS, joined
      <4> QED
        BY <3>1, <4>1 DEF HandleRS, ListenLeft
    <3>2. CASE HandleOther \/ HandleFails
      BY <3>2 DEF HandleOther, HandleFails, L!CallbackOk, L!CallbackErr,
         ListenLeft
    <3> QED
      BY <1>12, <3>1, <3>2
  <2>2. nn = n /\ mm = m /\ ss = s /\ cc = c /\ ww = w
    BY <1>4, <1>12 DEF HandleRS, HandleOther, HandleFails, L!CallbackOk,
       L!CallbackErr
  <2> QED
    BY ONLY <1>1, <1>2, <1>3, <2>1, <2>2
<1>13. CASE ListenerRuns
  <2>1. nn = n /\ mm = m /\ ss = s /\ cc = c
    BY <1>4, <1>13 DEF ListenerRuns
  <2>2. CASE ll < l /\ UNCHANGED <<intr, lip>>
    <3>1. ww = w
      BY <1>4, <1>13, <2>2 DEF ListenerRuns
    <3> QED
      BY ONLY <1>1, <1>2, <1>3, <2>1, <2>2, <3>1
  <2>3. CASE UNCHANGED <<lpc, lip>> /\ intr = "waiting" /\ intr' # "waiting"
    <3>1. ww < w
      BY <1>13, <2>3 DEF ListenerRuns, WakeLeft
    <3>2. ll = l
      BY <1>4, <2>3
    <3> QED
      BY ONLY <1>1, <1>2, <1>3, <2>1, <3>1, <3>2
  <2> QED
    BY <1>13, <2>2, <2>3, ListenNearer
<1>14. CASE LinkWatcherRuns
  <2>1. ww < w
    BY <1>14 DEF LinkWatcherRuns, W!WatchCanceled, W!WatchClosed,
       W!WatchChanged, WakeLeft
  <2>2. nn = n /\ mm = m /\ ll = l /\ ss = s /\ cc = c
    BY <1>4, <1>14 DEF LinkWatcherRuns
  <2> QED
    BY ONLY <1>1, <1>2, <1>3, <2>1, <2>2
<1>15. ~LinkEvent /\ ~ServerRuns
       /\ ~\E d \in Dst : Dispatch(d) \/ WorkerSends(d) \/ WorkerFails(d)
  BY DEF joined, LinkEvent, W!LinkChange, W!WatcherHalts, ServerRuns, Dispatch,
     WorkerSends, WorkerFails
<1> QED
  BY <1>5, <1>6, <1>7, <1>8, <1>9, <1>10, <1>11, <1>12, <1>13, <1>14, <1>15
     DEF Next, Run

(* The statement above, for every behaviour: the safety half of            *)
(* ShutdownUnlessWedged, for any capacity and any number of requests.      *)
THEOREM AdvertiserCanceledEnds == Spec => CanceledEnds
<1>1. LeftOK => CancelLeft \in 0..(IpcCap + 19)
  <2> SUFFICES ASSUME LeftOK PROVE CancelLeft \in 0..(IpcCap + 19)
    OBVIOUS
  <2>1. IpcCap \in Int
    BY AdvertiserAssumption
  <2>2. /\ Len(ipC) \in Int /\ 0 <= Len(ipC) /\ Len(ipC) <= IpcCap
        /\ MulticastLeft \in Int /\ 0 <= MulticastLeft /\ MulticastLeft <= 4
        /\ ListenLeft \in Int /\ 0 <= ListenLeft /\ ListenLeft <= 6
    BY <2>1 DEF LeftOK
  <2>3. /\ ScheduleLeft \in Int /\ 0 <= ScheduleLeft /\ ScheduleLeft <= 2
        /\ ClosureLeft \in Int /\ 0 <= ClosureLeft /\ ClosureLeft <= 4
        /\ WakeLeft \in Int /\ 0 <= WakeLeft /\ WakeLeft <= 3
    BY DEF LeftOK
  <2>4. CancelLeft = Len(ipC) + (MulticastLeft + ListenLeft)
                       + (ScheduleLeft + ClosureLeft + WakeLeft)
    BY DEF CancelLeft
  <2> QED
    BY ONLY <2>1, <2>2, <2>3, <2>4
<1>2. [Next]_vars => [EgCtx => EgCtx']_vars
  BY CanceledStays
<1>3. TypeOK /\ LeftOK /\ LeftOK' /\ [Next]_vars
        => [EgCtx => CancelLeft' < CancelLeft]_joined
  BY CancelStep DEF vars, joined, mainVars, schedVars, chVars, mcVars, lsnVars,
     cbVars, linkVars, sgVars
<1> QED
  BY <1>1, <1>2, <1>3, LeftType, TypeInvariant, PTL DEF Spec, CanceledEnds
==============================================================================
