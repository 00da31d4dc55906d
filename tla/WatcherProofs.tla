---------------------------- MODULE WatcherProofs ----------------------------
(***************************************************************************)
(* Proofs about netstate.Watcher, for any subscriptions, interfaces and    *)
(* changes, any capacity of the channels and netlink reads of any size.    *)
(***************************************************************************)
EXTENDS Watcher, SequenceTheorems, TLAPS

(* The channels are a function of the subscriptions, and Watch notifies    *)
(* only while there is something left to notify of.                        *)
ChannelsOK ==
  /\ ch \in [Subs -> Seq(Changes)]
  /\ pc = "notify" => batch # <<>>

(* The channels are open until Watch's deferred function closes them all,  *)
(* which is the last thing it does.                                        *)
ClosedLast == IF pc = "returned" THEN closed = subscribed ELSE closed = {}

(* Watch has a result only on its way out, and the interrupter, once it    *)
(* has set the deadline, leaves it set.                                    *)
ResultLast ==
  /\ pc \in {"idle", "receive", "failed", "notify"} => werr = "none"
  /\ QuietOnlyIfInterrupted

Inv == TypeOK /\ ChannelsOK /\ NoChangeUnseen /\ ClosedLast /\ ResultLast

-----------------------------------------------------------------------------
(* Inv holds before the first subscription.                                *)
LEMMA InitInv == Init => Inv
<1> SUFFICES ASSUME Init PROVE Inv
  OBVIOUS
<1>1. wctx \in BOOLEAN
  BY Zenon DEF Init
<1>2. TypeOK
  BY <1>1, WatcherAssumption DEF Init, TypeOK
<1> QED
  BY <1>2 DEF Init, Inv, ChannelsOK, NoChangeUnseen, ClosedLast, ResultLast,
              QuietOnlyIfInterrupted

(* A step that leaves the channels and what is in them alone.              *)
LEMMA ChannelsSame ==
  ASSUME Inv, UNCHANGED <<ch, unread>>
  PROVE  NoChangeUnseen'
BY DEF Inv, NoChangeUnseen

(* The head and the rest of what is still to be notified.                  *)
LEMMA BatchType ==
  ASSUME Inv, pc = "notify"
  PROVE  /\ Head(batch)[1] \in Ifaces /\ Head(batch)[2] \in Changes
         /\ Tail(batch) \in Seq(Ifaces \X Changes)
<1>1. batch \in Seq(Ifaces \X Changes) /\ batch # <<>>
  BY DEF Inv, TypeOK, ChannelsOK
<1>2. Head(batch) \in Ifaces \X Changes /\ Tail(batch) \in Seq(Ifaces \X Changes)
  BY <1>1
<1> QED
  BY <1>2

(* What a send does to a channel.                                          *)
LEMMA AppendType ==
  ASSUME NEW S, NEW q \in Seq(S), NEW e \in S
  PROVE  /\ Append(q, e) \in Seq(S)
         /\ Len(Append(q, e)) = Len(q) + 1
         /\ Append(q, e) # <<>>
BY AppendProperties

(* notify stays within the channels' capacity and leaves something to      *)
(* receive with everyone who is interested.                                *)
LEMMA NotifyStep ==
  ASSUME Inv, Notify, NEW s \in Subs
  PROVE  /\ ch'[s] \in Seq(Changes) /\ Len(ch'[s]) <= ChanCap
         /\ s \in unread' => ch'[s] # <<>>
<1> DEFINE i == Head(batch)[1]
           c == Head(batch)[2]
<1>1. ch[s] \in Seq(Changes) /\ Len(ch[s]) <= ChanCap /\ Len(ch[s]) \in Nat
  BY DEF Inv, TypeOK
<1>2. ch'[s] = IF s \in Interested(i, c) /\ Len(ch[s]) < ChanCap
               THEN Append(ch[s], c) ELSE ch[s]
  BY DEF Notify
<1>3. unread' = unread \cup Interested(i, c)
  BY DEF Notify
<1>4. s \in unread => ch[s] # <<>>
  BY DEF Inv, NoChangeUnseen
<1> HIDE DEF i, c
<1>5. CASE s \in Interested(i, c) /\ Len(ch[s]) < ChanCap
  <2>1. c \in Changes
    BY BatchType DEF c, Notify
  <2>2. /\ Append(ch[s], c) \in Seq(Changes)
        /\ Len(Append(ch[s], c)) = Len(ch[s]) + 1
        /\ Append(ch[s], c) # <<>>
    BY <1>1, <2>1, AppendType
  <2>3. ch'[s] = Append(ch[s], c)
    BY <1>2, <1>5
  <2>4. Len(ch'[s]) <= ChanCap
    BY <1>1, <1>5, <2>2, <2>3, WatcherAssumption
  <2> QED
    BY <2>2, <2>3, <2>4
<1>6. CASE s \in Interested(i, c) /\ ~(Len(ch[s]) < ChanCap)
  <2>1. ch[s] # <<>>
    BY <1>1, <1>6, WatcherAssumption
  <2> QED
    BY <1>1, <1>2, <1>6, <2>1
<1>7. CASE s \notin Interested(i, c)
  BY <1>1, <1>2, <1>3, <1>4, <1>7
<1> QED
  BY <1>5, <1>6, <1>7

(* notify keeps Inv.                                                       *)
LEMMA NotifyInv ==
  ASSUME Inv, Notify
  PROVE  Inv'
<1>1. UNCHANGED <<wctx, subscribed, closed, werr, intr>>
  BY DEF Notify
<1>2. batch' = Tail(batch) /\ batch' \in Seq(Ifaces \X Changes)
  BY BatchType DEF Notify
<1>3. /\ pc' \in {"receive", "notify"}
      /\ pc' = "notify" => batch' # <<>>
  BY DEF Notify
<1>4. unread' \subseteq Subs
  BY DEF Notify, Interested, Inv, TypeOK
<1>5. TypeOK'
  BY <1>1, <1>2, <1>3, <1>4, NotifyStep DEF Inv, TypeOK
<1>6. ch' \in [Subs -> Seq(Changes)]
  <2>1. \A s \in Subs : ch'[s] \in Seq(Changes)
    BY NotifyStep
  <2>2. ch' = [s \in Subs |-> ch'[s]]
    BY DEF Notify
  <2> QED
    BY <2>1, <2>2
<1>7. NoChangeUnseen'
  BY <1>4, NotifyStep DEF NoChangeUnseen
<1>8. ClosedLast' /\ ResultLast'
  BY <1>1, <1>3 DEF Inv, ClosedLast, Notify, ResultLast, QuietOnlyIfInterrupted
<1> QED
  BY <1>3, <1>5, <1>6, <1>7, <1>8 DEF Inv, ChannelsOK

(* A subscriber's receive keeps Inv.                                       *)
LEMMA ReadInv ==
  ASSUME Inv, NEW s \in Subs, Read(s)
  PROVE  Inv'
<1>1. /\ ch \in [Subs -> Seq(Changes)]
      /\ ch[s] \in Seq(Changes) /\ ch[s] # <<>> /\ Len(ch[s]) <= ChanCap
  BY DEF Inv, TypeOK, ChannelsOK, Read
<1>2. /\ Tail(ch[s]) \in Seq(Changes)
      /\ Len(Tail(ch[s])) <= ChanCap
  <2>1. Tail(ch[s]) \in Seq(Changes)
    BY <1>1
  <2>2. Len(Tail(ch[s])) = Len(ch[s]) - 1 /\ Len(ch[s]) \in Nat
    BY <1>1
  <2> QED
    BY <1>1, <2>1, <2>2, WatcherAssumption
<1>3. /\ ch' = [ch EXCEPT ![s] = Tail(@)]
      /\ unread' = unread \ {s}
      /\ UNCHANGED <<wctx, subscribed, closed, pc, batch, werr, intr>>
  BY DEF Read
<1>4. /\ ch'[s] = Tail(ch[s])
      /\ \A t \in Subs : t # s => ch'[t] = ch[t]
      /\ ch' \in [Subs -> Seq(Changes)]
  BY <1>1, <1>2, <1>3
<1>5. TypeOK'
  BY <1>2, <1>3, <1>4 DEF Inv, TypeOK
<1>6. NoChangeUnseen'
  BY <1>3, <1>4 DEF Inv, TypeOK, NoChangeUnseen
<1> QED
  BY <1>3, <1>4, <1>5, <1>6 DEF Inv, ChannelsOK, ClosedLast, ResultLast,
                                QuietOnlyIfInterrupted

(* Every step keeps Inv.                                                   *)
LEMMA NextInv == Inv /\ [Next]_vars => Inv'
<1> SUFFICES ASSUME Inv, [Next]_vars PROVE Inv'
  OBVIOUS
<1> USE ChannelsSame DEF Inv, TypeOK, ChannelsOK, ClosedLast, ResultLast,
                        QuietOnlyIfInterrupted
<1>1. CASE WatchDials \/ WatchUnavailable
  BY <1>1 DEF WatchDials, WatchUnavailable
<1>2. CASE Interrupt
  BY <1>2 DEF Interrupt
<1>3. CASE Receive
  <2>1. PICK n \in 1..MaxBatch : batch' \in [1..n -> Ifaces \X Changes]
    BY <1>3 DEF Receive
  <2>2. batch' \in Seq(Ifaces \X Changes) /\ batch' # <<>>
    BY <2>1, WatcherAssumption
  <2> QED
    BY <1>3, <2>2 DEF Receive
<1>4. CASE ReceiveFails \/ WatchEnds
  BY <1>4 DEF ReceiveFails, WatchEnds
<1>5. CASE CloseAll
  BY <1>5 DEF CloseAll
<1>6. CASE Canceled
  <2>1. wctx' \in BOOLEAN
    BY <1>6, Zenon DEF Canceled
  <2> QED
    BY <1>6, <2>1 DEF Canceled
<1>7. ASSUME NEW s \in Subs, Subscribe(s) PROVE Inv'
  BY <1>7 DEF Subscribe
<1>8. CASE UNCHANGED vars
  BY <1>8 DEF vars
<1> QED
  BY <1>1, <1>2, <1>3, <1>4, <1>5, <1>6, <1>7, <1>8, NotifyInv, ReadInv
     DEF Next

(* The Watcher's inductive invariant.                                      *)
LEMMA Invariant == Spec => []Inv
BY InitInv, NextInv, PTL DEF Spec

-----------------------------------------------------------------------------
(* The Watcher's variables keep their types: a subscription's channel      *)
(* never holds more than its capacity.                                     *)
THEOREM WatcherTypeCorrect == Spec => []TypeOK
<1>1. Inv => TypeOK
  BY DEF Inv
<1> QED
  BY <1>1, Invariant, PTL

(* A change is dropped only on a full channel: however slow a subscriber   *)
(* is, it never misses that there was a change.                            *)
THEOREM WatcherNoChangeUnseen == Spec => []NoChangeUnseen
<1>1. Inv => NoChangeUnseen
  BY DEF Inv
<1> QED
  BY <1>1, Invariant, PTL

(* Only Notify lets a channel grow.                                        *)
LEMMA OnlyNotifySends ==
  ASSUME Inv, [Next]_vars, NEW s \in Subs, Len(ch'[s]) > Len(ch[s])
  PROVE  Notify
<1>1. ASSUME NEW t \in Subs, Read(t) PROVE FALSE
  <2>1. /\ ch[t] \in Seq(Changes) /\ ch[s] \in Seq(Changes)
        /\ ch[t] # <<>>
        /\ ch'[s] = IF s = t THEN Tail(ch[t]) ELSE ch[s]
    BY <1>1 DEF Read, Inv, ChannelsOK
  <2>2. Len(Tail(ch[t])) = Len(ch[t]) - 1 /\ Len(ch[t]) \in Nat
        /\ Len(ch[s]) \in Nat
    BY <2>1
  <2> QED
    BY <2>1, <2>2
<1>2. ASSUME UNCHANGED ch PROVE FALSE
  <2>1. Len(ch[s]) \in Nat
    BY DEF Inv, ChannelsOK
  <2> QED
    BY <1>2, <2>1
<1>3. CASE Next
  BY <1>1, <1>2, <1>3 DEF Next, WatchDials, WatchUnavailable, Interrupt,
     Receive, ReceiveFails, WatchEnds, CloseAll, Canceled, Subscribe
<1>4. CASE UNCHANGED vars
  BY <1>2, <1>4 DEF vars
<1> QED
  BY <1>3, <1>4

(* Watch ends without an error only if it was canceled and its read was    *)
(* interrupted, in whatever order its read fails, the context is canceled  *)
(* and the interrupter runs.                                               *)
THEOREM WatcherQuietOnlyIfInterrupted == Spec => []QuietOnlyIfInterrupted
<1>1. Inv => QuietOnlyIfInterrupted
  BY DEF Inv, ResultLast
<1> QED
  BY <1>1, Invariant, PTL

(* Watch never sends on a channel it has closed, which would panic, and    *)
(* never closes one twice: the channels are closed together, by the        *)
(* deferred function, after the last notification.                         *)
NeverSendsOnClosed ==
  [][/\ \A s \in Subs : Len(ch'[s]) > Len(ch[s]) => s \notin closed
     /\ closed # {} => closed' = closed]_vars

(* The statement above, for every behaviour.                               *)
THEOREM WatcherNeverSendsOnClosed == Spec => NeverSendsOnClosed
<1> DEFINE Open == /\ \A s \in Subs : Len(ch'[s]) > Len(ch[s]) => s \notin closed
                   /\ closed # {} => closed' = closed
<1>1. Inv /\ [Next]_vars => [Open]_vars
  <2> SUFFICES ASSUME Inv, Next PROVE Open
    OBVIOUS
  <2>1. ASSUME NEW s \in Subs, Len(ch'[s]) > Len(ch[s])
        PROVE  s \notin closed
    BY <2>1, OnlyNotifySends DEF Notify, Inv, ClosedLast
  <2>2. closed # {} => pc = "returned"
    BY DEF Inv, ClosedLast
  <2>3. pc = "returned" => closed' = closed
    BY DEF Next, WatchDials, WatchUnavailable, Interrupt, Receive,
           ReceiveFails, WatchEnds, Notify, CloseAll, Canceled, Subscribe, Read
  <2> QED
    BY <2>1, <2>2, <2>3
<1> QED
  BY <1>1, Invariant, PTL DEF Spec, NeverSendsOnClosed

-----------------------------------------------------------------------------
(* A batch is never longer than one netlink read, and the interrupter      *)
(* lives only between the dial and the return of osWatch.                  *)
BatchOK ==
  /\ Len(batch) <= MaxBatch
  /\ pc = "idle" => intr = "waiting"

(* How many steps Watch's goroutine has left to take once its read has     *)
(* been interrupted: the rest of the batch, the read that fails, the end   *)
(* of osWatch and the deferred function.                                   *)
WatchLeft ==
  IF pc = "notify" THEN Len(batch) + 3
  ELSE IF pc = "receive" THEN 3
  ELSE IF pc = "failed" THEN 2
  ELSE IF pc = "closing" THEN 1 ELSE 0

(* Once interrupted, Watch goes nowhere but to its end: whatever traffic   *)
(* there is on netlink and however its subscribers behave, it takes at     *)
(* most MaxBatch + 3 more steps, the last of which closes the channels.    *)
InterruptedEnds ==
  /\ [](WatchLeft \in 0..(MaxBatch + 3))
  /\ [][intr # "waiting" => WatchLeft' < WatchLeft]_<<pc, batch>>

(* BatchOK holds of every reachable state.                                 *)
LEMMA BatchInvariant == Spec => []BatchOK
<1>1. Init => BatchOK
  BY WatcherAssumption DEF Init, BatchOK
<1>2. Inv /\ BatchOK /\ [Next]_vars => BatchOK'
  <2> SUFFICES ASSUME Inv, BatchOK, [Next]_vars PROVE BatchOK'
    OBVIOUS
  <2>1. CASE Receive
    <3>1. PICK n \in 1..MaxBatch : batch' \in [1..n -> Ifaces \X Changes]
      BY <2>1 DEF Receive
    <3>2. batch' \in Seq(Ifaces \X Changes) /\ Len(batch') = n
      BY <3>1, WatcherAssumption
    <3> QED
      BY <2>1, <3>1, <3>2, WatcherAssumption DEF Receive, BatchOK
  <2>2. CASE Notify
    <3>1. batch \in Seq(Ifaces \X Changes) /\ batch # <<>> /\ batch' = Tail(batch)
      BY <2>2 DEF Notify, Inv, TypeOK, ChannelsOK
    <3>2. Len(batch') = Len(batch) - 1 /\ Len(batch) \in Nat
      BY <3>1
    <3> QED
      BY <2>2, <3>2, WatcherAssumption DEF Notify, BatchOK
  <2>3. CASE ~Receive /\ ~Notify
    <3>1. batch' = batch
      BY <2>3 DEF Next, vars, WatchDials, WatchUnavailable, Interrupt,
         ReceiveFails, WatchEnds, CloseAll, Canceled, Subscribe, Read
    <3>2. pc' = "idle" => pc = "idle" /\ intr' = intr
      BY <2>3 DEF Next, vars, WatchDials, WatchUnavailable, Interrupt,
         ReceiveFails, WatchEnds, CloseAll, Canceled, Subscribe, Read
    <3> QED
      BY <3>1, <3>2 DEF BatchOK
  <2> QED
    BY <2>1, <2>2, <2>3
<1> QED
  BY <1>1, <1>2, Invariant, PTL DEF Spec

(* A step of Watch after the interruption brings it nearer to its end.     *)
LEMMA InterruptedStep ==
  ASSUME Inv, BatchOK, Next, intr # "waiting", <<pc, batch>>' # <<pc, batch>>
  PROVE  WatchLeft' < WatchLeft
<1>1. pc # "idle" /\ ~Receive
  BY DEF BatchOK, Receive
<1>2. CASE Notify
  <2>1. batch \in Seq(Ifaces \X Changes) /\ batch # <<>> /\ batch' = Tail(batch)
    BY <1>2 DEF Notify, Inv, TypeOK, ChannelsOK
  <2>2. Len(batch') = Len(batch) - 1 /\ Len(batch) \in Nat \ {0}
    BY <2>1
  <2>3. pc = "notify" /\ pc' \in {"receive", "notify"}
    BY <1>2 DEF Notify
  <2> QED
    BY <2>2, <2>3 DEF WatchLeft
<1>3. CASE ReceiveFails \/ WatchEnds \/ CloseAll
  BY <1>3 DEF ReceiveFails, WatchEnds, CloseAll, WatchLeft
<1> QED
  BY <1>1, <1>2, <1>3 DEF Next, WatchDials, WatchUnavailable, Interrupt,
     Canceled, Subscribe, Read

(* The statement above, for every behaviour: the safety half of            *)
(* CancelClosesChannels.                                                   *)
THEOREM WatcherInterruptedEnds == Spec => InterruptedEnds
<1>1. Inv /\ BatchOK => WatchLeft \in 0..(MaxBatch + 3)
  <2> SUFFICES ASSUME Inv, BatchOK PROVE WatchLeft \in 0..(MaxBatch + 3)
    OBVIOUS
  <2>1. Len(batch) \in Nat /\ Len(batch) <= MaxBatch
    BY DEF Inv, TypeOK, BatchOK
  <2> QED
    BY <2>1, WatcherAssumption DEF WatchLeft
<1>2. Inv /\ BatchOK /\ [Next]_vars
        => [intr # "waiting" => WatchLeft' < WatchLeft]_<<pc, batch>>
  BY InterruptedStep DEF vars
<1> QED
  BY <1>1, <1>2, Invariant, BatchInvariant, PTL DEF Spec, InterruptedEnds
==============================================================================
