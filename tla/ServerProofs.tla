---------------------------- MODULE ServerProofs ----------------------------
(***************************************************************************)
(* Proofs about Server.Serve, for any set of interfaces and any bound on   *)
(* the HTTP server's attempts.                                             *)
(***************************************************************************)
EXTENDS Server, FiniteSetTheorems, TLAPS

(* httpTask: an attempt is only made before the cancelation, and fn, once  *)
(* its listener was open, only comes back after it.                        *)
HttpInv ==
  /\ hpc = "loop" => hcloses = 0 \/ S!ctx
  /\ hpc = "attempt" => hcloses = 0
  /\ hcloses <= 1
  /\ hpc \in {"attempt", "serving", "wait"} => hattempt < Attempts
  /\ hpc # "returned" => ret["http"] = "none"
  /\ "http" \in ready => hcloses = 1

(* Readiness is collected task by task.                                    *)
ReadyInv ==
  /\ started \subseteq ready
  /\ "READY" \in notified => started = Tasks

(* Whoever canceled the context left a trace: signalTask is done, or some  *)
(* task returned an error, and results are never taken back.               *)
CauseInv ==
  /\ cause = "task" => \E t \in Tasks : ret[t] = "err"
  /\ ret["signal"] # "none" => S!ctx
  /\ spc = "done" => S!ctx
  /\ served # "none" => \A t \in Tasks : ret[t] \in {"nil", "err"}
  /\ served = "nil" => \A t \in Tasks : ret[t] = "nil"

Inv == TypeOK /\ HttpInv /\ ReadyInv /\ CauseInv

(* The invariant holds when Serve has started its tasks.                   *)
LEMMA InitInv == Init => Inv
<1> SUFFICES ASSUME Init PROVE Inv
  OBVIOUS
<1> USE DEF Init, S!SigInit
<1>1. TypeOK
  <2>1. term \in BOOLEAN
    BY Zenon
  <2> QED
    BY <2>1, ServerAssumption DEF TypeOK, S!SigTypeOK, Tasks, Outcomes
<1>2. HttpInv
  BY ServerAssumption DEF HttpInv, Tasks
<1>3. ReadyInv
  BY DEF ReadyInv
<1>4. CauseInv
  BY DEF CauseInv, Tasks
<1> QED
  BY <1>1, <1>2, <1>3, <1>4 DEF Inv

(* A task returns to the errgroup.                                         *)
LEMMA TaskReturnsInv ==
  ASSUME Inv, NEW t \in Tasks, ret[t] = "none",
         NEW r \in {"nil", "err"}, TaskReturns(t, r),
         UNCHANGED <<term, sig, spc, served>>,
         t = "signal" => S!ctx
  PROVE  /\ ret' \in [Tasks -> Outcomes]
         /\ S!SigTypeOK'
         /\ S!ctx => S!ctx'
         /\ CauseInv'
<1> USE DEF Inv, TypeOK, TaskReturns, S!Cancel, S!ctx
<1>1. ret' \in [Tasks -> Outcomes]
  BY DEF Outcomes
<1>2. S!SigTypeOK'
  BY DEF S!SigTypeOK
<1>3. CauseInv'
  BY DEF CauseInv, Tasks
<1> QED
  BY <1>1, <1>2, <1>3

(* The tasks of the interfaces and the watcher.                            *)
LEMMA TaskInv ==
  ASSUME Inv,
         \/ \E t \in Ifaces : IfaceReady(t) \/ IfaceReturns(t) \/ IfaceWedges(t)
         \/ WatcherReturns
  PROVE  Inv'
<1> USE ServerAssumption DEF Tasks
<1>1. ASSUME NEW t \in Ifaces, IfaceReady(t) PROVE Inv'
  BY <1>1 DEF Inv, TypeOK, HttpInv, ReadyInv, CauseInv, IfaceReady, S!ctx,
              S!SigTypeOK, sigVars, httpVars
<1>2. ASSUME NEW t \in Tasks, t \notin {"http", "signal"}, ret[t] = "none",
             NEW r \in {"nil", "err"}, TaskReturns(t, r),
             UNCHANGED <<term, sig, spc, ready, httpVars, notified, started,
                         served>>
      PROVE  Inv'
  <2>1. /\ ret' \in [Tasks -> Outcomes]
        /\ S!SigTypeOK' /\ (S!ctx => S!ctx') /\ CauseInv'
    BY <1>2, TaskReturnsInv
  <2>2. ret'["http"] = ret["http"]
    BY <1>2 DEF TaskReturns, Inv, TypeOK
  <2>3. TypeOK'
    BY <1>2, <2>1 DEF Inv, TypeOK, httpVars
  <2>4. HttpInv' /\ ReadyInv'
    BY <1>2, <2>1, <2>2 DEF Inv, HttpInv, ReadyInv, httpVars
  <2> QED
    BY <2>1, <2>3, <2>4 DEF Inv
<1>3. ASSUME NEW t \in Ifaces, IfaceReturns(t) PROVE Inv'
  BY <1>2, <1>3 DEF IfaceReturns
<1>4. CASE WatcherReturns
  BY <1>2, <1>4 DEF WatcherReturns
<1>5. ASSUME NEW t \in Ifaces, IfaceWedges(t) PROVE Inv'
  <2>1. /\ ret' \in [Tasks -> Outcomes] /\ ret[t] = "none"
        /\ \A x \in Tasks : x # t => ret'[x] = ret[x]
        /\ UNCHANGED <<sigVars, ready, httpVars, notified, started, served>>
    BY <1>5 DEF Inv, TypeOK, IfaceWedges, Outcomes
  <2>2. TypeOK'
    BY <2>1 DEF Inv, TypeOK, S!SigTypeOK, sigVars, httpVars
  <2>3. HttpInv' /\ ReadyInv'
    BY <2>1 DEF Inv, HttpInv, ReadyInv, S!ctx, sigVars, httpVars
  <2>4. CauseInv'
    BY <2>1 DEF Inv, CauseInv, S!ctx, sigVars
  <2> QED
    BY <2>2, <2>3, <2>4 DEF Inv
<1> QED
  BY <1>1, <1>3, <1>4, <1>5

(* The HTTP server's task returns: from a state of its own, once.          *)
LEMMA HttpReturnsInv ==
  ASSUME Inv, hpc # "returned", NEW r \in {"nil", "err"}, HttpReturns(r),
         UNCHANGED <<term, sig, spc, notified, started, served>>
  PROVE  Inv'
<1>1. ret["http"] = "none" /\ "http" \in Tasks
  BY DEF Inv, HttpInv, Tasks
<1>2. /\ ret' \in [Tasks -> Outcomes]
      /\ S!SigTypeOK' /\ CauseInv'
  BY <1>1, TaskReturnsInv DEF HttpReturns
<1>3. TypeOK'
  BY <1>2 DEF Inv, TypeOK, HttpReturns
<1>4. HttpInv' /\ ReadyInv'
  BY DEF Inv, HttpInv, ReadyInv, HttpReturns
<1> QED
  BY <1>2, <1>3, <1>4 DEF Inv

(* The HTTP task keeps it, through every attempt of serve's loop.          *)
LEMMA HttpTaskInv ==
  ASSUME Inv, HttpRuns
  PROVE  Inv'
<1> USE ServerAssumption DEF Inv
<1>1. CASE ServeCanceled
  BY <1>1, HttpReturnsInv DEF ServeCanceled
<1>2. CASE ServeAttempts
  BY <1>2 DEF ServeAttempts, TypeOK, HttpInv, ReadyInv, CauseInv, S!ctx,
              S!SigTypeOK, sigVars
<1>3. CASE ServeTimedOut
  BY <1>3, HttpReturnsInv DEF ServeTimedOut
<1>4. CASE ListenFails
  BY <1>4 DEF ListenFails, TypeOK, HttpInv, ReadyInv, CauseInv, S!ctx,
              S!SigTypeOK, sigVars
<1>5. CASE ListenOk
  BY <1>5 DEF ListenOk, TypeOK, HttpInv, ReadyInv, CauseInv, S!ctx,
              S!SigTypeOK, sigVars, Tasks
<1>6. CASE ServeStops
  BY <1>6 DEF ServeStops, TypeOK, HttpInv, ReadyInv, CauseInv, S!ctx,
              S!SigTypeOK, sigVars
<1>7. CASE ServeReturns
  <2>1. CASE HttpReturns("nil") \/ HttpReturns("err")
    BY <1>7, <2>1, HttpReturnsInv DEF ServeReturns
  <2>2. CASE /\ herr = "op" /\ hpc' = "loop" /\ hattempt' = hattempt + 1
             /\ herr' = "none"
             /\ UNCHANGED <<cause, ret, ready, hcloses>>
    BY <1>7, <2>2 DEF ServeReturns, TypeOK, HttpInv, ReadyInv, CauseInv,
                      S!ctx, S!SigTypeOK
  <2> QED
    BY <1>7, <2>1, <2>2 DEF ServeReturns
<1> QED
  BY <1>1, <1>2, <1>3, <1>4, <1>5, <1>6, <1>7 DEF HttpRuns

(* signalTask: it returns nil, and the context is canceled by then.        *)
LEMMA SignalInv ==
  ASSUME Inv, SignalRuns
  PROVE  Inv'
<1> USE ServerAssumption DEF Inv
<1>1. /\ S!SigTypeOK' /\ (S!ctx => S!ctx') /\ (spc' = "done" => S!ctx')
      /\ cause' = "task" => cause = "task"
  <2>1. term' \in BOOLEAN
    BY Zenon DEF SignalRuns, S!SigReceive, S!SigStep, S!SigCtxDone, S!SigSet,
       S!SigCancel, S!SigTypeOK, S!isTerminal, TypeOK
  <2> QED
    BY <2>1 DEF SignalRuns, S!SigReceive, S!SigStep, S!SigCtxDone, S!SigSet,
       S!SigCancel, S!Cancel, S!SigTypeOK, S!ctx, TypeOK, CauseInv
<1>2. /\ ret' \in [Tasks -> Outcomes]
      /\ \A t \in Tasks : t # "signal" => ret'[t] = ret[t]
      /\ ret["signal"] = "none" /\ (ret'["signal"] # "none" => spc' = "done")
      /\ ret'["signal"] # "err"
  BY DEF SignalRuns, TypeOK, Tasks, Outcomes
<1>3. TypeOK'
  BY <1>1, <1>2 DEF SignalRuns, TypeOK, httpVars
<1>4. HttpInv'
  BY <1>1, <1>2 DEF SignalRuns, HttpInv, httpVars, Tasks
<1>5. ReadyInv'
  BY DEF SignalRuns, ReadyInv
<1>6. CauseInv'
  <2>1. cause' = "task" => \E t \in Tasks : ret'[t] = "err"
    BY <1>1, <1>2 DEF CauseInv
  <2>2. served' = "none"
    BY <1>2 DEF SignalRuns, CauseInv, Tasks
  <2> QED
    BY <1>1, <1>2, <2>1, <2>2 DEF CauseInv
<1> QED
  BY <1>3, <1>4, <1>5, <1>6

(* Readiness, and the end of Serve.                                        *)
LEMMA ServeInv ==
  ASSUME Inv, (\E t \in Tasks : TaskStarted(t)) \/ NotifyReady \/ ServeEnds
  PROVE  Inv'
<1> USE DEF Inv, TypeOK, HttpInv, ReadyInv, CauseInv, S!ctx, S!SigTypeOK,
            sigVars, httpVars
<1>1. ASSUME NEW t \in Tasks, TaskStarted(t) PROVE Inv'
  BY <1>1 DEF TaskStarted
<1>2. CASE NotifyReady
  BY <1>2 DEF NotifyReady
<1>3. CASE ServeEnds
  <2>1. /\ \A t \in Tasks : ret[t] \in {"nil", "err"}
        /\ served' = "nil" => \A t \in Tasks : ret[t] = "nil"
        /\ served' \in {"none", "nil", "err"}
    BY <1>3 DEF ServeEnds, Outcomes
  <2> QED
    BY <1>3, <2>1 DEF ServeEnds
<1> QED
  BY <1>1, <1>2, <1>3

(* Every step keeps it.                                                    *)
LEMMA NextInv == Inv /\ [Next]_vars => Inv'
<1> SUFFICES ASSUME Inv, [Next]_vars PROVE Inv'
  OBVIOUS
<1>1. CASE UNCHANGED vars
  BY <1>1 DEF vars, sigVars, httpVars, Inv, TypeOK, HttpInv, ReadyInv,
              CauseInv, S!ctx, S!SigTypeOK
<1> QED
  BY <1>1, TaskInv, HttpTaskInv, SignalInv, ServeInv DEF Next

(* The inductive invariant of the server.                                  *)
LEMMA SpecInv == Spec => []Inv
BY InitInv, NextInv, PTL DEF Spec

(* Serve's variables keep their types: serve's counter never exceeds its   *)
(* bound.                                                                  *)
THEOREM ServerTypeCorrect == Spec => []TypeOK
<1>1. Inv => TypeOK
  BY DEF Inv
<1> QED
  BY SpecInv, <1>1, PTL

(* The HTTP server's readyC is closed at most once, so its retries never   *)
(* panic, whatever net.Listen and s.Serve return and when.                 *)
THEOREM ServerReadyClosedOnce == Spec => []ReadyClosedOnce
<1>1. Inv => ReadyClosedOnce
  BY DEF Inv, HttpInv, ReadyClosedOnce
<1> QED
  BY SpecInv, <1>1, PTL

(* A Serve that returns nil was stopped by a signal and no task failed.    *)
THEOREM ServerNilOnlyOnSignal == Spec => []NilOnlyOnSignal
<1>1. Inv => NilOnlyOnSignal
  <2> SUFFICES ASSUME Inv, served = "nil"
               PROVE  cause = "signal" /\ \A t \in Tasks : ret[t] = "nil"
    BY DEF NilOnlyOnSignal
  <2>1. \A t \in Tasks : ret[t] = "nil"
    BY DEF Inv, CauseInv
  <2>2. cause # "task" /\ cause # "nil"
    BY <2>1 DEF Inv, CauseInv, Tasks, S!ctx
  <2> QED
    BY <2>1, <2>2 DEF Inv, TypeOK, S!SigTypeOK
<1> QED
  BY SpecInv, <1>1, PTL

(* READY is sent only when the HTTP server listens and every interface has *)
(* been initialized, for any set of interfaces.                            *)
THEOREM ServerReadyMeansAllStarted == Spec => []ReadyMeansAllStarted
<1>1. Inv => ReadyMeansAllStarted
  BY DEF Inv, HttpInv, ReadyInv, ReadyMeansAllStarted, Tasks
<1> QED
  BY SpecInv, <1>1, PTL

-----------------------------------------------------------------------------
(* How Serve ends.  What is left to do once the context is canceled: the   *)
(* tasks that have not returned, the Ready channels that are still open    *)
(* and the goroutines that wait for them, where the HTTP server and        *)
(* signalTask are on their way out, and the last two steps.                *)
Unreturned == {t \in Tasks : ret[t] = "none"}

HttpLeft == IF hpc = "attempt" THEN 4 ELSE IF hpc = "serving" THEN 3
            ELSE IF hpc = "wait" THEN 2 ELSE IF hpc = "loop" THEN 1 ELSE 0

SignalLeft == IF spc = "select" THEN 3 ELSE IF spc = "set" THEN 2
              ELSE IF spc = "cancel" THEN 1 ELSE 0

NotifyLeft == IF "READY" \in notified THEN 0 ELSE 1
ServeLeft == IF served = "none" THEN 1 ELSE 0

StepsLeft ==
  Cardinality(Unreturned) + Cardinality(Tasks \ ready)
  + Cardinality(Tasks \ started) + HttpLeft + SignalLeft + NotifyLeft + ServeLeft

(* The end of Serve is bounded: once the context is canceled, every step   *)
(* of every goroutine (the retries of serve included, whatever net.Listen  *)
(* and s.Serve return) leaves fewer steps to be made, out of at most three *)
(* for each task (it is ready, its readiness goroutine is done, and it     *)
(* returns or is wedged) and nine more.                                    *)
ShutdownBounded ==
  /\ [](StepsLeft \in 0..(3 * Cardinality(Tasks) + 9))
  /\ [][S!ctx => StepsLeft' < StepsLeft]_vars

(* The tasks are finitely many if the interfaces are.                      *)
LEMMA TasksFinite ==
  ASSUME IsFiniteSet(Ifaces)
  PROVE  IsFiniteSet(Tasks)
<1>1. IsFiniteSet(Ifaces \cup {"watcher"})
  BY FS_AddElement
<1>2. IsFiniteSet((Ifaces \cup {"watcher"}) \cup {"http"})
  BY <1>1, FS_AddElement
<1>3. IsFiniteSet(((Ifaces \cup {"watcher"}) \cup {"http"}) \cup {"signal"})
  BY <1>2, FS_AddElement
<1>4. Tasks = ((Ifaces \cup {"watcher"}) \cup {"http"}) \cup {"signal"}
  BY DEF Tasks
<1> QED
  BY <1>3, <1>4

(* A part of a finite set has at most its size, and that only if it is all *)
(* of it.                                                                  *)
LEMMA PartSize ==
  ASSUME NEW A, NEW B, IsFiniteSet(A), B \subseteq A
  PROVE  /\ IsFiniteSet(B) /\ Cardinality(A) \in Nat /\ Cardinality(B) \in Nat
         /\ Cardinality(B) <= Cardinality(A)
         /\ B # A => Cardinality(B) < Cardinality(A)
<1>1. /\ IsFiniteSet(B) /\ Cardinality(B) <= Cardinality(A)
      /\ Cardinality(A) = Cardinality(B) => A = B
  BY FS_Subset
<1>2. Cardinality(A) \in Nat /\ Cardinality(B) \in Nat
  BY <1>1, FS_CardinalityType
<1> QED
  BY <1>1, <1>2

(* Nothing in what is left grows, and something shrinks.                   *)
LEMMA Descends ==
  ASSUME IsFiniteSet(Ifaces), Inv,
         Unreturned' \subseteq Unreturned, ready \subseteq ready', ready' \subseteq Tasks,
         started \subseteq started', started' \subseteq Tasks,
         HttpLeft' <= HttpLeft, SignalLeft' <= SignalLeft,
         NotifyLeft' <= NotifyLeft, ServeLeft' <= ServeLeft,
         \/ ready' # ready \/ started' # started \/ Unreturned' # Unreturned
         \/ HttpLeft' < HttpLeft \/ SignalLeft' < SignalLeft
         \/ NotifyLeft' < NotifyLeft \/ ServeLeft' < ServeLeft
  PROVE  StepsLeft' < StepsLeft
<1> DEFINE u == Cardinality(Unreturned)
           r == Cardinality(Tasks \ ready)
           s == Cardinality(Tasks \ started)
<1>1. IsFiniteSet(Tasks) /\ Unreturned \subseteq Tasks
  BY TasksFinite DEF Unreturned
<1>2. /\ u \in Nat /\ u' \in Nat /\ u' <= u
      /\ Unreturned' # Unreturned => u' < u
  BY <1>1, PartSize
<1>3. /\ r \in Nat /\ r' \in Nat /\ r' <= r
      /\ ready' # ready => r' < r
  <2>1. IsFiniteSet(Tasks \ ready) /\ (Tasks \ ready)' \subseteq Tasks \ ready
    BY <1>1, PartSize
  <2>2. ready' # ready => (Tasks \ ready)' # Tasks \ ready
    BY DEF Inv, TypeOK
  <2> QED
    BY <2>1, <2>2, PartSize
<1>4. /\ s \in Nat /\ s' \in Nat /\ s' <= s
      /\ started' # started => s' < s
  <2>1. IsFiniteSet(Tasks \ started) /\ (Tasks \ started)' \subseteq Tasks \ started
    BY <1>1, PartSize
  <2>2. started' # started => (Tasks \ started)' # Tasks \ started
    BY DEF Inv, TypeOK
  <2> QED
    BY <2>1, <2>2, PartSize
<1>5. /\ HttpLeft \in Nat /\ HttpLeft' \in Nat /\ SignalLeft \in Nat /\ SignalLeft' \in Nat
      /\ NotifyLeft \in Nat /\ NotifyLeft' \in Nat /\ ServeLeft \in Nat /\ ServeLeft' \in Nat
  BY DEF HttpLeft, SignalLeft, NotifyLeft, ServeLeft
<1>6. /\ StepsLeft = u + r + s + HttpLeft + SignalLeft + NotifyLeft + ServeLeft
      /\ StepsLeft' = u' + r' + s' + HttpLeft' + SignalLeft' + NotifyLeft' + ServeLeft'
  BY DEF StepsLeft
<1>7. u' < u \/ r' < r \/ s' < s \/ HttpLeft' < HttpLeft \/ SignalLeft' < SignalLeft
      \/ NotifyLeft' < NotifyLeft \/ ServeLeft' < ServeLeft
  BY <1>2, <1>3, <1>4
<1> QED
  BY ONLY <1>2, <1>3, <1>4, <1>5, <1>6, <1>7,
     HttpLeft' <= HttpLeft, SignalLeft' <= SignalLeft,
     NotifyLeft' <= NotifyLeft, ServeLeft' <= ServeLeft

(* A task that returns is one less to wait for.                            *)
LEMMA OneReturned ==
  ASSUME Inv, NEW t \in Tasks, NEW x \in {"nil", "err"}, TaskReturns(t, x)
  PROVE  Unreturned' \subseteq Unreturned /\ (ret[t] = "none" => Unreturned' # Unreturned)
BY DEF Inv, TypeOK, TaskReturns, Unreturned, Tasks

(* Every step after the cancelation leaves less to do.                     *)
LEMMA ShutdownStep ==
  ASSUME IsFiniteSet(Ifaces), Inv, Inv', Next, S!ctx
  PROVE  StepsLeft' < StepsLeft
<1>0. ready' \subseteq Tasks /\ started' \subseteq Tasks
  BY DEF Inv, TypeOK
<1> USE DEF HttpLeft, SignalLeft, NotifyLeft, ServeLeft
<1>1. ASSUME NEW t \in Ifaces, IfaceReady(t) PROVE StepsLeft' < StepsLeft
  BY <1>0, <1>1, Descends DEF IfaceReady, Unreturned, sigVars, httpVars
<1>2. ASSUME NEW t \in Ifaces, IfaceReturns(t) PROVE StepsLeft' < StepsLeft
  <2>1. t \in Tasks /\ Unreturned' \subseteq Unreturned /\ Unreturned' # Unreturned
    BY <1>2, OneReturned DEF IfaceReturns, Tasks
  <2> QED
    BY <1>0, <1>2, <2>1, Descends DEF IfaceReturns, httpVars
<1>3. CASE WatcherReturns
  <2>1. Unreturned' \subseteq Unreturned /\ Unreturned' # Unreturned
    BY <1>3, OneReturned DEF WatcherReturns, Tasks
  <2> QED
    BY <1>0, <1>3, <2>1, Descends DEF WatcherReturns, httpVars
<1>4. ASSUME NEW x \in {"nil", "err"}, HttpReturns(x), hpc # "returned",
             UNCHANGED <<term, sig, spc, notified, started, served>>
      PROVE  StepsLeft' < StepsLeft
  <2>1. Unreturned' \subseteq Unreturned
    BY <1>4, OneReturned DEF HttpReturns, Tasks
  <2>2. HttpLeft' < HttpLeft
    BY <1>4 DEF HttpReturns, Inv, TypeOK
  <2> QED
    BY <1>0, <1>4, <2>1, <2>2, Descends DEF HttpReturns
<1>5. CASE HttpRuns
  <2>1. CASE ServeCanceled
    BY <1>4, <2>1 DEF ServeCanceled
  <2>2. CASE ServeAttempts
    BY <2>2 DEF ServeAttempts
  <2>3. CASE ServeTimedOut
    BY <1>4, <2>3 DEF ServeTimedOut
  <2>4. CASE ListenFails
    BY <1>0, <2>4, Descends DEF ListenFails, Unreturned, sigVars
  <2>5. CASE ListenOk
    BY <1>0, <2>5, Descends DEF ListenOk, Unreturned, sigVars
  <2>6. CASE ServeStops
    BY <1>0, <2>6, Descends DEF ServeStops, Unreturned, sigVars
  <2>7. CASE ServeReturns
    <3>1. CASE HttpReturns("nil") \/ HttpReturns("err")
      BY <1>4, <2>7, <3>1 DEF ServeReturns
    <3>2. CASE /\ herr = "op" /\ hpc' = "loop"
               /\ UNCHANGED <<cause, ret, ready, hcloses>>
      BY <1>0, <2>7, <3>2, Descends DEF ServeReturns, Unreturned
    <3> QED
      BY <2>7, <3>1, <3>2 DEF ServeReturns
  <2> QED
    BY <1>5, <2>1, <2>2, <2>3, <2>4, <2>5, <2>6, <2>7 DEF HttpRuns
<1>6. CASE SignalRuns
  <2>1. Unreturned' \subseteq Unreturned
    BY <1>6 DEF SignalRuns, Unreturned, Inv, TypeOK
  <2>2. SignalLeft' < SignalLeft
    BY <1>6 DEF SignalRuns, S!SigReceive, S!SigStep, S!SigCtxDone, S!SigSet, S!SigCancel
  <2>3. NotifyLeft' <= NotifyLeft
    BY <1>6 DEF SignalRuns
  <2> QED
    BY <1>0, <1>6, <2>1, <2>2, <2>3, Descends DEF SignalRuns, httpVars
<1>7. ASSUME NEW t \in Tasks, TaskStarted(t) PROVE StepsLeft' < StepsLeft
  BY <1>0, <1>7, Descends DEF TaskStarted, Unreturned, sigVars, httpVars
<1>8. CASE NotifyReady
  BY <1>0, <1>8, Descends DEF NotifyReady, Unreturned, sigVars, httpVars
<1>9. CASE ServeEnds
  BY <1>0, <1>9, Descends DEF ServeEnds, Unreturned, sigVars, httpVars
<1>10. ASSUME NEW t \in Ifaces, IfaceWedges(t) PROVE StepsLeft' < StepsLeft
  <2>1. Unreturned' \subseteq Unreturned /\ Unreturned' # Unreturned
    BY <1>10 DEF IfaceWedges, Inv, TypeOK, Unreturned, Tasks
  <2> QED
    BY <1>0, <1>10, <2>1, Descends DEF IfaceWedges, sigVars, httpVars
<1> QED
  BY <1>10, <1>1, <1>2, <1>3, <1>5, <1>6, <1>7, <1>8, <1>9 DEF Next

(* After the cancelation only boundedly many steps are left, for any       *)
(* number of interfaces and any bound on the HTTP server's attempts:       *)
(* nothing goes round in a loop, and no fairness is needed for that.       *)
(* Whether the last of them is the end of Serve depends on the Advertisers *)
(* (CancelEndsServe).                                                      *)
THEOREM ServerShutdownBounded ==
  ASSUME IsFiniteSet(Ifaces)
  PROVE  Spec => ShutdownBounded
<1>1. Inv => StepsLeft \in 0..(3 * Cardinality(Tasks) + 9)
  <2> SUFFICES ASSUME Inv PROVE StepsLeft \in 0..(3 * Cardinality(Tasks) + 9)
    OBVIOUS
  <2> DEFINE n == Cardinality(Tasks)
             u == Cardinality(Unreturned)
             r == Cardinality(Tasks \ ready)
             s == Cardinality(Tasks \ started)
  <2>1. n \in Nat /\ u \in 0..n /\ r \in 0..n /\ s \in 0..n
    <3>1. /\ IsFiniteSet(Tasks) /\ Unreturned \subseteq Tasks
          /\ Tasks \ ready \subseteq Tasks /\ Tasks \ started \subseteq Tasks
      BY TasksFinite DEF Unreturned
    <3> QED
      BY <3>1, PartSize
  <2>2. HttpLeft \in 0..4 /\ SignalLeft \in 0..3 /\ NotifyLeft \in 0..1 /\ ServeLeft \in 0..1
    BY DEF HttpLeft, SignalLeft, NotifyLeft, ServeLeft
  <2>3. StepsLeft = u + r + s + HttpLeft + SignalLeft + NotifyLeft + ServeLeft
    BY DEF StepsLeft
  <2> HIDE DEF n, u, r, s
  <2>4. StepsLeft \in 0..(3 * n + 9)
    BY <2>1, <2>2, <2>3
  <2> QED
    BY <2>4 DEF n
<1>2. Inv /\ Inv' /\ [Next]_vars => [S!ctx => StepsLeft' < StepsLeft]_vars
  BY ShutdownStep
<1> QED
  BY SpecInv, <1>1, <1>2, PTL DEF Spec, ShutdownBounded
=============================================================================
