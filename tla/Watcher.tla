------------------------------- MODULE Watcher -------------------------------
(***************************************************************************)
(* netstate.Watcher (internal/netstate/watcher.go, watcher_linux.go):      *)
(* subscribers register a bounded channel for some changes of one          *)
(* interface; Watch receives route netlink messages, notifies subscribers  *)
(* without ever blocking on a slow one, and closes all channels at its end.*)
(***************************************************************************)
EXTENDS Naturals, Sequences

CONSTANTS
  Subs,      \* subscriptions
  Iface,     \* the interface each one is about
  Flags,     \* the bits of a Change
  Mask,      \* the bitmask of changes each one is interested in
  Changes,   \* the changes the operating system reports, bitmasks as well
  Ifaces,    \* interfaces of the system
  ChanCap,   \* capacity of a subscription's channel, 8 in the code
  MaxBatch   \* bound: link messages in one netlink read

ASSUME WatcherAssumption ==
  /\ Iface \in [Subs -> Ifaces]
  /\ Mask \in [Subs -> SUBSET Flags]
  /\ Changes \subseteq SUBSET Flags
  /\ ChanCap \in Nat \ {0}
  /\ MaxBatch \in Nat \ {0}

VARIABLES
  wctx,       \* the context of Watch is canceled
  subscribed, \* subscriptions in w.m
  ch,         \* the channel of each subscription
  closed,     \* subscriptions whose channel is closed
  pc,         \* Watch: "idle", "receive", "failed", "notify", "closing",
              \* "returned"
  batch,      \* link changes still to be notified: <<iface, change>>
  werr,       \* what Watch returned: "none" yet, "nil" or "err"
  intr,       \* osWatch's interrupter: waiting, deadline set, or failed
  unread      \* subscriptions with a change since they last received one

vars == <<wctx, subscribed, ch, closed, pc, batch, werr, intr, unread>>

TypeOK ==
  /\ wctx \in BOOLEAN
  /\ subscribed \subseteq Subs /\ closed \subseteq Subs /\ unread \subseteq Subs
  /\ \A s \in Subs : ch[s] \in Seq(Changes) /\ Len(ch[s]) <= ChanCap
  /\ pc \in {"idle", "receive", "failed", "notify", "closing", "returned"}
  /\ batch \in Seq(Ifaces \X Changes)
  /\ werr \in {"none", "nil", "err"}
  /\ intr \in {"waiting", "set", "failed"}

Init ==
  /\ wctx = FALSE
  /\ subscribed = {} /\ closed = {} /\ unread = {}
  /\ ch = [s \in Subs |-> <<>>]
  /\ pc = "idle" /\ batch = <<>> /\ werr = "none" /\ intr = "waiting"

-----------------------------------------------------------------------------
(* Subscribe: a new channel under the lock.  The server subscribes before  *)
(* it starts Watch, as BuildTasks precedes Serve.                          *)
Subscribe(s) ==
  /\ pc = "idle"
  /\ s \notin subscribed
  /\ subscribed' = subscribed \cup {s}
  /\ UNCHANGED <<wctx, ch, closed, pc, batch, werr, unread, intr>>

(* Watch dials route netlink.                                              *)
WatchDials ==
  /\ pc = "idle"
  /\ pc' = "receive"
  /\ UNCHANGED <<wctx, subscribed, ch, closed, batch, werr, unread, intr>>

(* It cannot, or this operating system has no such thing.                  *)
WatchUnavailable ==
  /\ pc = "idle"
  /\ pc' = "closing"
  /\ werr' = "err"
  /\ UNCHANGED <<wctx, subscribed, ch, closed, batch, unread, intr>>

(* The interrupter: once canceled, pending and later reads time out.       *)
Interrupt ==
  /\ pc \notin {"idle", "returned"}
  /\ wctx /\ intr = "waiting"
  /\ intr' \in {"set", "failed"}
  /\ UNCHANGED <<wctx, subscribed, ch, closed, pc, batch, werr, unread>>

(* c.Receive and process: messages with no attributes or an unknown state  *)
(* are left out; the rest are changes, in order.                           *)
Receive ==
  /\ pc = "receive"
  /\ intr = "waiting"
  /\ \E n \in 1..MaxBatch : batch' \in [1..n -> Ifaces \X Changes]
  /\ pc' = "notify"
  /\ UNCHANGED <<wctx, subscribed, ch, closed, werr, intr, unread>>

(* Receive fails, of itself or because it was interrupted.                 *)
ReceiveFails ==
  /\ pc = "receive"
  /\ pc' = "failed"
  /\ UNCHANGED <<wctx, subscribed, ch, closed, batch, werr, intr, unread>>

(* An end that takes any failed read for the interruption.                 *)
WatchEndsQuietly ==
  /\ pc = "failed"
  /\ werr' = IF intr = "failed" THEN "err" ELSE "nil"
  /\ pc' = "closing"
  /\ UNCHANGED <<wctx, subscribed, ch, closed, batch, intr, unread>>

(* Only then is the context looked at: if it is canceled by now osWatch    *)
(* returns eg.Wait(), the interrupter's result, whatever the read failed   *)
(* of; otherwise it returns the error at once.                             *)
WatchEnds ==
  /\ pc = "failed"
  /\ \/ ~wctx /\ werr' = "err"
     \/ wctx /\ intr = "set" /\ werr' = "nil"
     \/ wctx /\ intr = "failed" /\ werr' = "err"
  /\ pc' = "closing"
  /\ UNCHANGED <<wctx, subscribed, ch, closed, batch, intr, unread>>

(* The subscriptions interested in a change of an interface: k&change of   *)
(* the two bitmasks is not zero.                                           *)
Interested(i, c) == {s \in subscribed : Iface[s] = i /\ Mask[s] \cap c # {}}

(* A notification that gives up at the first full channel.                 *)
NotifyGivesUp ==
  /\ pc = "notify"
  /\ LET who == Interested(Head(batch)[1], Head(batch)[2])
     IN  /\ ch' = [s \in Subs |->
                     IF s \in who /\ \A t \in who : Len(ch[t]) < ChanCap
                     THEN Append(ch[s], Head(batch)[2]) ELSE ch[s]]
         /\ unread' = unread \cup who
  /\ batch' = Tail(batch)
  /\ pc' = IF Tail(batch) = <<>> THEN "receive" ELSE "notify"
  /\ UNCHANGED <<wctx, subscribed, closed, werr, intr>>

(* notify, one change of the batch: a non-blocking send to everyone who is *)
(* interested; a full channel drops the change.                            *)
Notify ==
  /\ pc = "notify"
  /\ LET i == Head(batch)[1]
         c == Head(batch)[2]
     IN  /\ ch' = [s \in Subs |->
                     IF s \in Interested(i, c) /\ Len(ch[s]) < ChanCap
                     THEN Append(ch[s], c) ELSE ch[s]]
         /\ unread' = unread \cup Interested(i, c)
  /\ batch' = Tail(batch)
  /\ pc' = IF Tail(batch) = <<>> THEN "receive" ELSE "notify"
  /\ UNCHANGED <<wctx, subscribed, closed, werr, intr>>

(* A deferred function that leaves channels with unread changes open.      *)
CloseDrained ==
  /\ pc = "closing"
  /\ closed' = {s \in subscribed : ch[s] = <<>>}
  /\ pc' = "returned"
  /\ UNCHANGED <<wctx, subscribed, ch, batch, werr, unread, intr>>

(* Watch's deferred function closes every registered channel.              *)
CloseAll ==
  /\ pc = "closing"
  /\ closed' = subscribed
  /\ pc' = "returned"
  /\ UNCHANGED <<wctx, subscribed, ch, batch, werr, unread, intr>>

(* A subscriber receives a change.                                         *)
Read(s) ==
  /\ ch[s] # <<>>
  /\ ch' = [ch EXCEPT ![s] = Tail(@)]
  /\ unread' = unread \ {s}
  /\ UNCHANGED <<wctx, subscribed, closed, pc, batch, werr, intr>>

(* The server cancels the context.                                         *)
Canceled ==
  /\ ~wctx
  /\ wctx' = TRUE
  /\ UNCHANGED <<subscribed, ch, closed, pc, batch, werr, unread, intr>>

Next ==
  \/ WatchDials \/ WatchUnavailable \/ Interrupt \/ Receive \/ ReceiveFails
  \/ WatchEnds \/ Notify \/ CloseAll \/ Canceled
  \/ \E s \in Subs : Subscribe(s) \/ Read(s)

Spec == Init /\ [][Next]_vars

(* Watch's goroutine runs and, once canceled, its read is interrupted.     *)
Fairness ==
  /\ WF_vars(WatchDials \/ WatchUnavailable)
  /\ WF_vars(Interrupt) /\ WF_vars(intr # "waiting" /\ ReceiveFails)
  /\ WF_vars(WatchEnds)
  /\ WF_vars(Notify) /\ WF_vars(CloseAll)

FairSpec == Spec /\ Fairness

-----------------------------------------------------------------------------
(* A subscriber that has not received anything since a change it cares     *)
(* about still has something to receive: changes are dropped only on a     *)
(* full channel, so a slow subscriber may miss a change but never misses   *)
(* that there was one.                                                     *)
NoChangeUnseen == \A s \in unread : ch[s] # <<>>

(* Watch ends without an error only when it was canceled and its read was  *)
(* interrupted, also when a read that failed of itself and a cancelation   *)
(* race.  watcherTask hands nil on, and Serve carries on with the other    *)
(* tasks: were a broken read reported as nil, they would run on and never  *)
(* hear of a link change again.                                            *)
QuietOnlyIfInterrupted == werr = "nil" => wctx /\ intr = "set"

(* "The channel will be closed when the context passed to Watch is         *)
(* canceled": every subscriber is eventually told.                         *)
CancelClosesChannels ==
  wctx ~> (pc = "returned" /\ closed = subscribed)
=============================================================================
