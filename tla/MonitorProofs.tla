---------------------------- MODULE MonitorProofs ----------------------------
(***************************************************************************)
(* Proofs about the Monitor, for every bound on its listener's retries and *)
(* on the Dialer's, any capacity of watchC and any errors: its closure is  *)
(* a function as Dialer.Dial expects it.                                   *)
(***************************************************************************)
EXTENDS Monitor, TLAPS

(* The Dialer's theorems, for the Monitor's connection.                    *)
DP == INSTANCE DialerProofs WITH Advertise <- FALSE

-----------------------------------------------------------------------------
(* A read is in progress only while receiveRetry has a retry left.         *)
TriesLeft == lpc \in {"read", "backoff"} => tries < Retries

(* The Monitor's callback never fails, so the listener's error is one of   *)
(* reading.                                                                *)
ListenTypeOK ==
  /\ lpc \in L!LPCs /\ tries \in 0..Retries
  /\ lerr \in ReadErrs \cup {"exhausted", "nil"}
  /\ intr \in {"waiting", "set", "failed"}

(* While the closure runs, the listener has returned, or is about to,      *)
(* only for an error of its own or because the errgroup was canceled.      *)
ListenKnown ==
  dpc = "fn" => /\ lpc \in {"wait", "returned"} => EgCtx
                /\ lpc = "defer" => lerr # "nil"

Inv ==
  /\ ListenTypeOK /\ TriesLeft /\ ListenKnown
  /\ egErr \in FnErrs \cup {"nil"}
  /\ W!LinkTypeOK /\ ready \in BOOLEAN

(* The listener's own steps.                                               *)
LEMMA ListenerStep ==
  ASSUME Inv, dpc = "fn", UNCHANGED <<ctx, dpc, egErr>>,
         L!Check \/ L!Backoff \/ L!Interrupt \/ L!NetworkStep
  PROVE  (ListenTypeOK /\ TriesLeft /\ ListenKnown)'
<1> USE MonitorAssumption
        DEF Inv, ListenTypeOK, TriesLeft, ListenKnown, L!LPCs, EgCtx
<1>1. CASE L!Check
  BY <1>1 DEF L!Check, L!ReceiveFailed, L!ReceiveCanceled
<1>2. CASE L!Backoff
  BY <1>2 DEF L!Backoff, L!ReceiveCanceled, L!Retry
<1>3. CASE L!Interrupt
  BY <1>3 DEF L!Interrupt
<1>4. CASE L!ReadMessage
  BY <1>4 DEF L!ReadMessage
<1>5. CASE L!ReadInvalid
  BY <1>5 DEF L!ReadInvalid, L!Retry
<1>6. CASE L!ReadTimeout
  BY <1>6 DEF L!ReadTimeout, L!ReceiveCanceled
<1>7. ASSUME NEW e \in ReadErrs, L!ReadFatal(e)
      PROVE  (ListenTypeOK /\ TriesLeft /\ ListenKnown)'
  BY <1>7 DEF L!ReadFatal, L!ReceiveFailed, L!ReceiveCanceled
<1> QED
  BY <1>1, <1>2, <1>3, <1>4, <1>5, <1>6, <1>7 DEF L!NetworkStep

(* The listener returns: without an error only when canceled.              *)
LEMMA ListenerReturns ==
  ASSUME Inv, dpc = "fn", UNCHANGED <<ctx, dpc>>,
         L!WaitReturn \/ L!DeferReturn, EgReturn(lerr')
  PROVE  (ListenTypeOK /\ TriesLeft /\ ListenKnown)'
         /\ egErr' \in FnErrs \cup {"nil"}
BY MonitorAssumption
   DEF Inv, ListenTypeOK, TriesLeft, ListenKnown, L!LPCs, EgCtx, EgReturn,
       FnErrs, L!WaitReturn, L!DeferReturn

(* The watcher's types, whatever it does.                                  *)
LEMMA LinkStep ==
  ASSUME W!LinkTypeOK,
         \/ W!WatchCanceled \/ W!WatchClosed \/ W!WatchChanged
         \/ W!LinkChange \/ W!WatcherHalts \/ UNCHANGED linkVars
  PROVE  W!LinkTypeOK'
<1>1. EgCtx' \in BOOLEAN
  BY Zenon DEF EgCtx
<1>2. wclosed' \in BOOLEAN
  <2>1. CASE W!WatcherHalts
    BY <2>1, Zenon DEF W!WatcherHalts
  <2>2. CASE wclosed' = wclosed
    BY <2>2 DEF W!LinkTypeOK
  <2> QED
    BY <2>1, <2>2 DEF W!WatchCanceled, W!WatchClosed, W!WatchChanged,
       W!LinkChange, linkVars
<1> QED
  BY <1>1, <1>2, MonitorAssumption
     DEF W!LinkTypeOK, W!WatchCanceled, W!WatchClosed, W!WatchChanged,
         W!LinkChange, W!WatcherHalts, linkVars

(* Nothing runs before Dial has a connection.                              *)
LEMMA InitInv == Init => Inv
<1> SUFFICES ASSUME Init PROVE Inv
  OBVIOUS
<1>1. wclosed \in BOOLEAN /\ ready \in BOOLEAN /\ EgCtx \in BOOLEAN
  BY Zenon DEF Init, EgCtx
<1> QED
  BY <1>1, MonitorAssumption
     DEF Init, D!Init, D!DialInit, Inv, ListenTypeOK, TriesLeft, ListenKnown,
         L!LPCs, W!LinkTypeOK

(* A step that starts nothing and does not touch the closure's goroutines  *)
(* keeps Inv: a cancelation is never taken back.                           *)
LEMMA Untouched ==
  ASSUME Inv, UNCHANGED <<lsnVars, linkVars, egErr, ready>>,
         dpc' = "fn" => dpc = "fn", ctx => ctx'
  PROVE  Inv'
<1>1. W!LinkTypeOK'
  BY LinkStep DEF Inv
<1> QED
  BY <1>1 DEF Inv, ListenTypeOK, TriesLeft, ListenKnown, EgCtx, lsnVars

(* Inv is inductive.                                                       *)
LEMMA NextInv == Inv /\ [Next]_vars => Inv'
<1> SUFFICES ASSUME Inv, [Next]_vars PROVE Inv'
  OBVIOUS
<1>1. CASE DialConnects
  <2>1. ready' \in BOOLEAN /\ EgCtx' \in BOOLEAN
    BY <1>1, Zenon DEF DialConnects, EgCtx
  <2> QED
    BY <1>1, <2>1, MonitorAssumption
       DEF DialConnects, Inv, ListenTypeOK, TriesLeft, ListenKnown, L!LPCs,
           W!LinkTypeOK
<1>2. CASE DialWaits
  <2>1. dpc' # "fn" /\ UNCHANGED ctx
    BY <1>2 DEF DialWaits, D!FirstDialFails, D!RetryCanceled,
                D!RetryDialFails, D!RetryTimedOut, D!Classify, D!Return
  <2> QED
    BY <1>2, <2>1, Untouched DEF DialWaits
<1>3. CASE ClosureReturns
  BY <1>3, Untouched DEF ClosureReturns
<1>4. CASE DialCloses
  <2>1. dpc' # "fn" /\ UNCHANGED ctx
    BY <1>4 DEF DialCloses, D!Done, D!DoneFails, D!Classify, D!Return
  <2> QED
    BY <1>4, <2>1, Untouched DEF DialCloses
<1>5. CASE Handle
  <2>1. W!LinkTypeOK'
    BY <1>5, LinkStep DEF Handle, Inv
  <2> QED
    BY <1>5, <2>1 DEF Handle, L!CallbackOk, Inv, ListenTypeOK, TriesLeft,
       ListenKnown, EgCtx, L!LPCs, dVars
<1>6. CASE ListenerRuns
  <2>1. W!LinkTypeOK'
    BY <1>6, LinkStep DEF ListenerRuns, Inv
  <2>2. /\ (ListenTypeOK /\ TriesLeft /\ ListenKnown)'
        /\ egErr' \in FnErrs \cup {"nil"}
    BY <1>6, ListenerStep, ListenerReturns DEF ListenerRuns, dVars, Inv
  <2> QED
    BY <1>6, <2>1, <2>2 DEF ListenerRuns, Inv
<1>7. CASE LinkWatcherRuns
  <2>1. W!LinkTypeOK'
    BY <1>7, LinkStep DEF LinkWatcherRuns, Inv
  <2>2. EgCtx => EgCtx'
    BY <1>7 DEF LinkWatcherRuns, EgReturn, EgCtx
  <2>3. egErr' \in FnErrs \cup {"nil"}
    BY <1>7 DEF LinkWatcherRuns, EgReturn, FnErrs, Inv
  <2> QED
    BY <1>7, <2>1, <2>2, <2>3 DEF LinkWatcherRuns, Inv, ListenTypeOK,
       TriesLeft, ListenKnown, lsnVars, dVars
<1>8. CASE LinkEvents
  <2>1. W!LinkTypeOK'
    BY <1>8, LinkStep DEF LinkEvents, Inv
  <2> QED
    BY <1>8, <2>1 DEF LinkEvents, Inv, ListenTypeOK, TriesLeft, ListenKnown,
       EgCtx, lsnVars, dVars
<1>9. CASE ContextCanceled
  BY <1>9, Untouched DEF ContextCanceled, D!ContextCanceled, D!dialVars
<1>10. CASE UNCHANGED vars
  BY <1>10, Untouched DEF vars, dVars
<1> QED
  BY <1>1, <1>2, <1>3, <1>4, <1>5, <1>6, <1>7, <1>8, <1>9, <1>10 DEF Next

(* Inv holds throughout.                                                   *)
LEMMA Invariant == Spec => []Inv
BY InitInv, NextInv, PTL DEF Spec

-----------------------------------------------------------------------------
(* Refinement: every step is one of Dial's, a cancelation, or none.        *)
LEMMA RefinementStep ==
  ASSUME Inv, [Next]_vars
  PROVE  [D!Next]_(D!vars)
<1>1. ASSUME UNCHANGED <<ctx, dVars>> PROVE UNCHANGED D!vars
  BY <1>1 DEF D!vars, D!dialVars, D!sysVars, dVars
<1>2. CASE DialConnects
  BY <1>2 DEF DialConnects, D!Next, D!Dial
<1>3. CASE DialWaits
  BY <1>3 DEF DialWaits, D!Next, D!Dial
<1>4. CASE ClosureReturns
  <2>1. egErr \in FnErrs \/ (ctx /\ egErr = "nil")
    BY <1>4 DEF ClosureReturns, Inv, ListenKnown, EgCtx
  <2>2. D!FnReturns
    BY <1>4, <2>1 DEF ClosureReturns, D!FnReturns, D!sysVars
  <2> QED
    BY <2>2 DEF D!Next, D!Dial
<1>5. CASE DialCloses
  BY <1>5 DEF DialCloses, D!Next, D!Dial
<1>6. CASE Handle \/ ListenerRuns \/ LinkWatcherRuns \/ LinkEvents
  BY <1>1, <1>6 DEF Handle, ListenerRuns, LinkWatcherRuns, LinkEvents
<1>7. CASE ContextCanceled
  BY <1>7 DEF ContextCanceled, D!Next
<1>8. CASE UNCHANGED vars
  BY <1>1, <1>8 DEF vars
<1> QED
  BY <1>2, <1>3, <1>4, <1>5, <1>6, <1>7, <1>8 DEF Next

(* The Monitor is a function as Dial expects it: the safety part of        *)
(* ImplementsDialer.  Its closure returns nil only when the context is     *)
(* canceled, whatever its listener and its link state watcher return.      *)
THEOREM MonitorRefinesDialer == Spec => D!Spec
<1>1. Init => D!Init
  BY DEF Init
<1>2. Inv /\ [Next]_vars => [D!Next]_(D!vars)
  BY RefinementStep
<1> QED
  BY <1>1, <1>2, Invariant, PTL DEF Spec, D!Spec

(* The two instances of the Dialer are one specification.                  *)
LEMMA SameDialer == D!Spec => DP!Spec
<1>1. D!Init => DP!Init
  BY DEF D!Init, DP!Init, D!DialInit, DP!DialInit
<1>2. [D!Next]_(D!vars) => [DP!Next]_(DP!vars)
  BY DEF D!Next, DP!Next, D!Dial, DP!Dial, D!vars, DP!vars, D!dialVars,
         DP!dialVars, D!sysVars, DP!sysVars,
         D!FirstDialOk, DP!FirstDialOk, D!FirstDialFails, DP!FirstDialFails,
         D!RetryCanceled, DP!RetryCanceled, D!RetryDialOk, DP!RetryDialOk,
         D!RetryDialFails, DP!RetryDialFails, D!RetryTimedOut,
         DP!RetryTimedOut, D!FnReturns, DP!FnReturns, D!Done, DP!Done,
         D!DoneFails, DP!DoneFails, D!ContextCanceled, DP!ContextCanceled,
         D!ProcessRestarts, DP!ProcessRestarts, D!DialOk, DP!DialOk,
         D!DialFails, DP!DialFails, D!RestoreOk, DP!RestoreOk,
         D!RestoreFails, DP!RestoreFails, D!Return, DP!Return,
         D!Classify, DP!Classify, D!Recoverable, DP!Recoverable,
         D!ErrKinds, DP!ErrKinds
<1> QED
  BY <1>1, <1>2, PTL DEF D!Spec, DP!Spec

(* The constants are as the Dialer's proofs require.                       *)
LEMMA DialerConstants == DP!DialerAssumption
<1>1. FALSE \in BOOLEAN
  OBVIOUS
<1>2. FnErrs \subseteq DP!ErrKinds /\ DialErrs \subseteq DP!ErrKinds
  BY MonitorAssumption, MonitorDialAssumption
     DEF FnErrs, DP!ErrKinds, D!ErrKinds
<1> QED
  BY <1>1, <1>2, MonitorAssumption DEF DP!DialerAssumption

(* Every variable of the Monitor keeps its type, the Dialer's included.    *)
THEOREM MonitorTypeCorrect == Spec => []TypeOK
<1>1. DP!Spec => [](DP!TypeOK)
  BY DialerConstants, DP!DialerTypeCorrect
<1>2. DP!TypeOK => D!TypeOK
  BY DEF DP!TypeOK, D!TypeOK, DP!ErrKinds, D!ErrKinds
<1>3. D!TypeOK /\ Inv => TypeOK
  <2> SUFFICES ASSUME D!TypeOK, Inv PROVE TypeOK
    OBVIOUS
  <2>1. EgCtx \in BOOLEAN
    BY Zenon DEF EgCtx
  <2> QED
    BY <2>1 DEF Inv, TypeOK, L!LTypeOK, L!LErrs, ListenTypeOK
<1> QED
  BY <1>1, <1>2, <1>3, Invariant, MonitorRefinesDialer, SameDialer, PTL

(* The Dialer's promises hold of the whole Monitor: its connection is open *)
(* exactly while its closure or the cleanup has it, and it returns nil     *)
(* only when canceled.                                                     *)
THEOREM MonitorKeepsDialersPromises ==
  Spec => [](D!ConnOpenOnlyForFn /\ D!NilOnlyOnCancel)
<1>1. DP!Spec => [](DP!ConnOpenOnlyForFn)
  BY DialerConstants, DP!DialerConnScoped
<1>2. DP!Spec => [](DP!NilOnlyOnCancel)
  BY DialerConstants, DP!DialerNilOnlyOnCancel
<1>3. DP!ConnOpenOnlyForFn /\ DP!NilOnlyOnCancel
      => D!ConnOpenOnlyForFn /\ D!NilOnlyOnCancel
  BY DEF DP!ConnOpenOnlyForFn, DP!NilOnlyOnCancel, D!ConnOpenOnlyForFn,
         D!NilOnlyOnCancel
<1> QED
  BY <1>1, <1>2, <1>3, MonitorRefinesDialer, SameDialer, PTL

(* The Monitor is passive: unlike the Advertiser it never touches the      *)
(* interface's autoconfiguration, so that there is nothing to restore and  *)
(* no restore that could fail.                                             *)
THEOREM MonitorLeavesSwitch == Spec => [](autoconf = base /\ lost = FALSE)
<1> DEFINE LeftAlone == autoconf = base /\ lost = FALSE
<1>1. Init => LeftAlone
  BY DEF Init, D!Init, D!DialInit
<1>2. [Next]_vars => UNCHANGED <<autoconf, base, lost>>
  <2> SUFFICES ASSUME [Next]_vars PROVE UNCHANGED <<autoconf, base, lost>>
    OBVIOUS
  <2>1. CASE DialConnects
    BY <2>1 DEF DialConnects, D!FirstDialOk, D!RetryDialOk, D!DialOk
  <2>2. CASE DialWaits
    BY <2>2 DEF DialWaits, D!FirstDialFails, D!RetryCanceled,
       D!RetryDialFails, D!RetryTimedOut, D!DialFails, D!sysVars
  <2>3. CASE DialCloses
    BY <2>3 DEF DialCloses, D!Done, D!DoneFails, D!RestoreOk, D!RestoreFails
  <2>4. CASE \/ ClosureReturns \/ Handle \/ ListenerRuns \/ LinkWatcherRuns
             \/ LinkEvents
    BY <2>4 DEF ClosureReturns, Handle, ListenerRuns, LinkWatcherRuns,
       LinkEvents, dVars
  <2>5. CASE ContextCanceled
    BY <2>5 DEF ContextCanceled, D!ContextCanceled, D!dialVars, D!sysVars
  <2>6. CASE UNCHANGED vars
    BY <2>6 DEF vars, dVars
  <2> QED
    BY <2>1, <2>2, <2>3, <2>4, <2>5, <2>6 DEF Next
<1>3. LeftAlone /\ UNCHANGED <<autoconf, base, lost>> => LeftAlone'
  OBVIOUS
<1> QED
  BY <1>1, <1>2, <1>3, PTL DEF Spec

-----------------------------------------------------------------------------
(* The listener lives in the closure, and only a cancelation of the        *)
(* closure's context has woken its interrupter.                            *)
InterruptOK ==
  /\ dpc # "fn" => lpc = "returned"
  /\ dpc = "fn" /\ intr # "waiting" => EgCtx

(* What the listener's steps do to the interrupter.                        *)
LEMMA InterruptStep ==
  ASSUME [Next]_vars, dpc = "fn", dpc' = "fn"
  PROVE  (EgCtx => EgCtx') /\ (intr' # intr => EgCtx)
<1>1. CASE ListenerRuns
  BY <1>1 DEF ListenerRuns, EgReturn, EgCtx, L!Check, L!Backoff, L!Interrupt,
     L!NetworkStep, L!ReadMessage, L!ReadInvalid, L!ReadTimeout, L!ReadFatal,
     L!WaitReturn, L!DeferReturn
<1>2. CASE Handle \/ LinkWatcherRuns \/ LinkEvents
  BY <1>2 DEF Handle, L!CallbackOk, LinkWatcherRuns, LinkEvents, lsnVars,
     EgReturn, EgCtx
<1>3. CASE ContextCanceled \/ UNCHANGED vars
  BY <1>3 DEF ContextCanceled, D!ContextCanceled, lsnVars, vars, EgCtx
<1>4. ~DialConnects /\ ~DialWaits /\ ~ClosureReturns /\ ~DialCloses
  BY DEF DialConnects, DialWaits, ClosureReturns, DialCloses, D!FirstDialOk,
     D!RetryDialOk, D!FirstDialFails, D!RetryCanceled, D!RetryDialFails,
     D!RetryTimedOut, D!Done, D!DoneFails
<1> QED
  BY <1>1, <1>2, <1>3, <1>4 DEF Next

(* Outside its closure the listener does nothing.                          *)
LEMMA ListenerScoped ==
  ASSUME [Next]_vars, dpc' # "fn", dpc # "fn" => lpc = "returned"
  PROVE  lpc' = "returned"
<1>1. CASE DialWaits \/ DialCloses
  <2>1. dpc # "fn"
    BY <1>1 DEF DialWaits, DialCloses, D!FirstDialFails, D!RetryCanceled,
       D!RetryDialFails, D!RetryTimedOut, D!Done, D!DoneFails
  <2> QED
    BY <1>1, <2>1 DEF DialWaits, DialCloses, lsnVars
<1>2. CASE ClosureReturns
  BY <1>2 DEF ClosureReturns, lsnVars
<1>3. CASE LinkEvents \/ ContextCanceled \/ UNCHANGED vars
  BY <1>3 DEF LinkEvents, ContextCanceled, D!ContextCanceled, D!dialVars, vars,
     lsnVars, dVars
<1>4. ~DialConnects /\ ~Handle /\ ~ListenerRuns /\ ~LinkWatcherRuns
  BY DEF DialConnects, D!FirstDialOk, D!RetryDialOk, Handle, ListenerRuns,
     LinkWatcherRuns, dVars
<1> QED
  BY <1>1, <1>2, <1>3, <1>4 DEF Next

(* InterruptOK holds throughout.                                           *)
LEMMA InterruptInvariant == Spec => []InterruptOK
<1>1. Init => InterruptOK
  BY DEF Init, D!Init, D!DialInit, InterruptOK
<1>2. InterruptOK /\ [Next]_vars => InterruptOK'
  <2> SUFFICES ASSUME InterruptOK, [Next]_vars PROVE InterruptOK'
    OBVIOUS
  <2>1. CASE dpc' # "fn"
    BY <2>1, ListenerScoped DEF InterruptOK
  <2>2. CASE dpc = "fn" /\ dpc' = "fn"
    BY <2>2, InterruptStep DEF InterruptOK
  <2>3. CASE dpc # "fn" /\ dpc' = "fn"
    <3>1. DialConnects
      BY <2>3 DEF Next, vars, dVars, DialWaits, D!FirstDialFails,
         D!RetryCanceled, D!RetryDialFails, D!RetryTimedOut, D!Classify,
         D!Return, ClosureReturns, DialCloses, D!Done, D!DoneFails, Handle,
         ListenerRuns, LinkWatcherRuns, LinkEvents, ContextCanceled,
         D!ContextCanceled, D!dialVars
    <3> QED
      BY <2>3, <3>1 DEF DialConnects, InterruptOK
  <2> QED
    BY <2>1, <2>2, <2>3
<1> QED
  BY <1>1, <1>2, PTL DEF Spec

(* A listener that has failed, for good or out of retries, stays in its    *)
(* deferred eg.Wait() until somebody else cancels the closure: no step of  *)
(* the Monitor's own listener, of the network or of Dial gets it out.      *)
DeafUntilCanceled ==
  [][lpc = "defer" /\ ~EgCtx => lpc' = "defer" /\ dpc' = "fn"]_vars

(* The statement above, for every behaviour: what ListenErrorReturns runs  *)
(* into is no matter of scheduling.                                        *)
THEOREM MonitorDeafUntilCanceled == Spec => DeafUntilCanceled
<1> DEFINE Deaf == lpc = "defer" /\ ~EgCtx => lpc' = "defer" /\ dpc' = "fn"
<1>1. InterruptOK /\ [Next]_vars => [Deaf]_vars
  <2> SUFFICES ASSUME InterruptOK, Next, lpc = "defer", ~EgCtx
               PROVE  lpc' = "defer" /\ dpc' = "fn"
    OBVIOUS
  <2>1. dpc = "fn" /\ intr = "waiting"
    BY DEF InterruptOK
  <2>2. CASE ListenerRuns
    BY <2>1, <2>2 DEF ListenerRuns, dVars, L!Check, L!Backoff, L!Interrupt,
       L!NetworkStep, L!ReadMessage, L!ReadInvalid, L!ReadTimeout,
       L!ReadFatal, L!WaitReturn, L!DeferReturn
  <2>3. CASE LinkWatcherRuns \/ LinkEvents \/ ContextCanceled
    BY <2>1, <2>3 DEF LinkWatcherRuns, LinkEvents, ContextCanceled,
       D!ContextCanceled, D!dialVars, lsnVars, dVars
  <2>4. ~Handle /\ ~ClosureReturns
    BY DEF Handle, L!CallbackOk, ClosureReturns
  <2>5. ~DialConnects /\ ~DialWaits /\ ~DialCloses
    BY <2>1 DEF DialConnects, DialWaits, DialCloses, D!FirstDialOk,
       D!RetryDialOk, D!FirstDialFails, D!RetryCanceled, D!RetryDialFails,
       D!RetryTimedOut, D!Done, D!DoneFails
  <2> QED
    BY <2>2, <2>3, <2>4, <2>5 DEF Next
<1> QED
  BY <1>1, InterruptInvariant, PTL DEF Spec, DeafUntilCanceled

(* How far the listener of a canceled closure is from its return.          *)
ListenLeft ==
  IF lpc = "read" THEN 4
  ELSE IF lpc \in {"callback", "backoff"} THEN 3
  ELSE IF lpc = "check" THEN 2
  ELSE IF lpc \in {"wait", "defer"} THEN 1 ELSE 0

(* Once the closure is canceled it stays so, and its listener returns      *)
(* within four steps, whatever it was in the middle of and whatever        *)
(* arrives: it handles at most the message it is reading and starts no     *)
(* further read, however many retries it had left.                         *)
CanceledReturns ==
  [][dpc = "fn" /\ EgCtx =>
       /\ dpc' = "fn" => EgCtx'
       /\ lpc' # lpc => ListenLeft' < ListenLeft]_vars

(* The statement above, for every behaviour.                               *)
THEOREM MonitorCanceledReturns == Spec => CanceledReturns
<1> DEFINE Nearer == dpc = "fn" /\ EgCtx =>
                       /\ dpc' = "fn" => EgCtx'
                       /\ lpc' # lpc => ListenLeft' < ListenLeft
<1>1. [Next]_vars => [Nearer]_vars
  <2> SUFFICES ASSUME Next, dpc = "fn", EgCtx
               PROVE  /\ dpc' = "fn" => EgCtx'
                      /\ lpc' # lpc => ListenLeft' < ListenLeft
    OBVIOUS
  <2>1. dpc' = "fn" => EgCtx'
    BY InterruptStep
  <2>2. CASE Handle
    BY <2>1, <2>2 DEF Handle, L!CallbackOk, ListenLeft
  <2>3. CASE L!Check \/ L!Backoff
    BY <2>1, <2>3 DEF L!Check, L!Backoff, L!ReceiveFailed, L!ReceiveCanceled,
       L!Retry, ListenLeft
  <2>4. CASE L!ReadMessage \/ L!ReadInvalid
    BY <2>1, <2>4 DEF L!ReadMessage, L!ReadInvalid, L!Retry, ListenLeft
  <2>5. CASE L!ReadTimeout \/ \E e \in ReadErrs : L!ReadFatal(e)
    BY <2>1, <2>5 DEF L!ReadTimeout, L!ReadFatal, L!ReceiveFailed,
       L!ReceiveCanceled, ListenLeft
  <2>6. CASE L!WaitReturn \/ L!DeferReturn
    BY <2>1, <2>6 DEF L!WaitReturn, L!DeferReturn, ListenLeft
  <2>7. CASE ListenerRuns
    BY <2>1, <2>3, <2>4, <2>5, <2>6, <2>7 DEF ListenerRuns, L!NetworkStep,
       L!Interrupt
  <2>8. ~DialConnects
    BY DEF DialConnects, D!FirstDialOk, D!RetryDialOk
  <2> QED
    BY <2>1, <2>2, <2>7, <2>8 DEF Next, lsnVars, DialWaits, ClosureReturns,
       DialCloses, LinkWatcherRuns, LinkEvents, ContextCanceled
<1> QED
  BY <1>1, PTL DEF Spec, CanceledReturns
==============================================================================
