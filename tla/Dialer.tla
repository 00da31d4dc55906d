------------------------------- MODULE Dialer -------------------------------
(***************************************************************************)
(* Dialer.Dial (internal/system/dialer.go): open an NDP connection on an   *)
(* interface, run a function with it, clean up, and start again for as     *)
(* long as the function returns errors that are worth a retry.             *)
(*                                                                         *)
(* The function, fn, is the Advertiser's or the Monitor's.  All that Dial  *)
(* relies on is kept here: fn returns nil only once the context is         *)
(* canceled, and a canceled context makes it return.  AdvertiserTask shows *)
(* that the Advertiser is such a function, Monitor that the Monitor is.    *)
(*                                                                         *)
(* The process may end at any point and be started again by its            *)
(* supervisor; what Dial changes in the kernel survives it.                *)
(***************************************************************************)
EXTENDS Naturals

CONSTANTS
  Attempts,   \* bound of init's retry loop, 50 in the code
  Advertise,  \* mode == Advertise: autoconfiguration is switched off
  DialErrs,   \* kinds of errors of dial before a socket is open
  FnErrs      \* kinds of errors fn returns

(* Errors, as init tells them apart: a syscall failed, for want of         *)
(* permission or not; lookupInterface or checkInterface found the link not *)
(* ready; fn saw a link change or a listener out of retries; any other.    *)
ErrKinds == {"syscall", "perm", "notReady", "linkChange", "exhausted", "other"}

ASSUME DialerAssumption ==
  /\ Attempts \in Nat \ {0}
  /\ Advertise \in BOOLEAN
  /\ DialErrs \subseteq ErrKinds
  /\ FnErrs \subseteq ErrKinds

VARIABLES
  ctx,       \* the context is canceled
  dpc,       \* where Dial is
  derr,      \* fn's result while Dial cleans up, "nil" for none
  attempt,   \* init's loop counter i
  dialErr,   \* the error of the last DialFunc call, "nil" for none
  dret,      \* what Dial returned: "none" yet, "nil", or "err"
  conn,      \* the connection of the current DialContext
  leaked,    \* dial gave up after opening a socket and did not close it
  autoconf,  \* the interface's IPv6 autoconfiguration switch
  prev,      \* setAutoconf's copy of it
  base,      \* the user's setting of it
  lost       \* a restore could not write the switch back, or never ran

sysVars == <<autoconf, prev, base, lost, leaked>>
dialVars == <<dpc, derr, attempt, dialErr, dret, conn, sysVars>>
vars == <<ctx, dialVars>>

TypeOK ==
  /\ ctx \in BOOLEAN
  /\ dpc \in {"init", "retry", "fn", "done", "returned"}
  /\ derr \in ErrKinds \cup {"nil"}
  /\ attempt \in 0..Attempts
  /\ dialErr \in ErrKinds \cup {"nil"}
  /\ dret \in {"none", "nil", "err"}
  /\ conn \in {"open", "closed"}
  /\ leaked \in BOOLEAN
  /\ autoconf \in BOOLEAN /\ prev \in BOOLEAN /\ base \in BOOLEAN
  /\ lost \in BOOLEAN

DialInit ==
  /\ dpc = "init" /\ derr = "nil" /\ attempt = 0
  /\ dialErr = "nil" /\ dret = "none"
  /\ conn = "closed" /\ leaked = FALSE
  /\ autoconf \in BOOLEAN
  /\ prev = autoconf /\ base = autoconf
  /\ lost = FALSE

Init == ctx = FALSE /\ DialInit

-----------------------------------------------------------------------------
(* dial succeeds: the socket is open and, in Advertise mode, the switch is *)
(* remembered and turned off.  Without permission dial goes on regardless. *)
DialOk ==
  /\ conn' = "open"
  /\ dialErr' = "nil"
  /\ \/ Advertise /\ prev' = autoconf /\ autoconf' \in {FALSE, autoconf}
     \/ ~Advertise /\ UNCHANGED <<prev, autoconf>>
  /\ UNCHANGED <<base, lost, leaked>>

(* dial fails: the interface is not there, down or without an address, or  *)
(* the socket cannot be opened ...                                         *)
DialFails(e) ==
  \/ /\ e \in DialErrs
     /\ dialErr' = e
     /\ UNCHANGED <<conn, sysVars>>
  \* ... or configuring the open socket or the switch fails, for a reason
  \* that is formatted away; the socket stays open, out of reach.
  \/ /\ e = "other"
     /\ dialErr' = e
     /\ leaked' = TRUE
     /\ UNCHANGED <<conn, autoconf, prev, base, lost>>

(* A cleanup without restore.                                              *)
RestoreSkipped == UNCHANGED <<autoconf, lost>>

(* A restore that always turns the switch on.                              *)
RestoreOn ==
  \/ ~Advertise /\ UNCHANGED <<autoconf, lost>>
  \/ Advertise /\ autoconf' = TRUE /\ UNCHANGED lost

(* restore writes the remembered value back.  A missing permission or a    *)
(* missing interface is logged; any other error is returned.               *)
RestoreOk ==
  \/ ~Advertise /\ UNCHANGED <<autoconf, lost>>
  \/ Advertise /\ autoconf' = prev /\ UNCHANGED lost
  \/ Advertise /\ lost' = TRUE /\ UNCHANGED autoconf

RestoreFails ==
  /\ Advertise
  /\ lost' = TRUE
  /\ UNCHANGED autoconf

Return(r) == dpc' = "returned" /\ dret' = r /\ attempt' = 0

Recoverable(e) == e \in {"syscall", "notReady", "linkChange"}

(* init's switch: retry the errors that may go away, return the others.    *)
Classify(e) ==
  \/ Recoverable(e) /\ dpc' = "retry" /\ attempt' = 0 /\ UNCHANGED dret
  \/ ~Recoverable(e) /\ Return("err")

-----------------------------------------------------------------------------
(* init with a nil error: the first DialFunc of all.                       *)
FirstDialOk ==
  /\ dpc = "init"
  /\ DialOk
  /\ dpc' = "fn"
  /\ UNCHANGED <<ctx, derr, attempt, dret>>

FirstDialFails ==
  /\ dpc = "init"
  /\ \E e \in ErrKinds : DialFails(e) /\ Classify(e)
  /\ UNCHANGED <<ctx, derr>>

(* A retry loop that looks at the context only after its first attempt.    *)
RetryCanceledLate ==
  /\ dpc = "retry" /\ attempt < Attempts /\ attempt > 0
  /\ ctx
  /\ Return("nil")
  /\ UNCHANGED <<ctx, derr, dialErr, conn, sysVars>>

(* The retry loop's select picks the cancelation: Dial returns nil.        *)
RetryCanceled ==
  /\ dpc = "retry" /\ attempt < Attempts
  /\ ctx
  /\ Return("nil")
  /\ UNCHANGED <<ctx, derr, dialErr, conn, sysVars>>

(* The select picks the timer: DialFunc is called again.                   *)
RetryDialOk ==
  /\ dpc = "retry" /\ attempt < Attempts
  /\ DialOk
  /\ dpc' = "fn"
  /\ attempt' = 0
  /\ UNCHANGED <<ctx, derr, dret>>

(* A retry loop that makes one attempt too many.                           *)
RetryDialFailsLate ==
  /\ dpc = "retry" /\ attempt <= Attempts
  /\ \E e \in ErrKinds : DialFails(e)
  /\ attempt' = attempt + 1
  /\ UNCHANGED <<ctx, dpc, derr, dret>>

(* A retry loop that counts only the errors that init would not retry.     *)
RetryDialFailsPatient ==
  /\ dpc = "retry" /\ attempt < Attempts
  /\ \E e \in ErrKinds :
       /\ DialFails(e)
       /\ attempt' = IF Recoverable(e) THEN attempt ELSE attempt + 1
  /\ UNCHANGED <<ctx, dpc, derr, dret>>

(* Whatever the error is, the loop goes on.                                *)
RetryDialFails ==
  /\ dpc = "retry" /\ attempt < Attempts
  /\ \E e \in ErrKinds : DialFails(e)
  /\ attempt' = attempt + 1
  /\ UNCHANGED <<ctx, dpc, derr, dret>>

(* Running out of attempts taken for a clean end.                          *)
RetryTimedOutNil ==
  /\ dpc = "retry" /\ attempt = Attempts
  /\ Return("nil")
  /\ UNCHANGED <<ctx, derr, dialErr, conn, sysVars>>

(* All attempts failed.                                                    *)
RetryTimedOut ==
  /\ dpc = "retry" /\ attempt = Attempts
  /\ Return("err")
  /\ UNCHANGED <<ctx, derr, dialErr, conn, sysVars>>

(* fn returns.                                                             *)
FnReturns ==
  /\ dpc = "fn"
  /\ \/ ctx /\ derr' = "nil"
     \/ derr' \in FnErrs
  /\ dpc' = "done"
  /\ UNCHANGED <<ctx, attempt, dialErr, dret, conn, sysVars>>

(* A Dial that closes the connection only when it is about to return.      *)
DoneKeepsConn ==
  /\ dpc = "done"
  /\ conn' = IF Recoverable(derr) THEN conn ELSE "closed"
  /\ RestoreOk
  /\ \/ derr = "nil" /\ Return("nil")
     \/ derr # "nil" /\ Classify(derr)
  /\ derr' = "nil"
  /\ UNCHANGED <<ctx, dialErr, prev, base, leaked>>

(* done: leave the group and close, best effort, and restore; then stop,   *)
(* or go round the loop with fn's error.                                   *)
Done ==
  /\ dpc = "done"
  /\ conn' = "closed"
  /\ RestoreOk
  /\ \/ derr = "nil" /\ Return("nil")
     \/ derr # "nil" /\ Classify(derr)
  /\ derr' = "nil"
  /\ UNCHANGED <<ctx, dialErr, prev, base, leaked>>

(* done reports that the switch could not be restored.                     *)
DoneFails ==
  /\ dpc = "done"
  /\ conn' = "closed"
  /\ RestoreFails
  /\ Return("err")
  /\ derr' = "nil"
  /\ UNCHANGED <<ctx, dialErr, prev, base, leaked>>

(* The server cancels the context.                                         *)
ContextCanceled ==
  /\ ~ctx
  /\ ctx' = TRUE
  /\ UNCHANGED dialVars

(* The process ends, wherever Dial is, and is started again.  The kernel   *)
(* closes its sockets; the value that restore would have written is gone.  *)
ProcessRestarts ==
  /\ ctx' = FALSE
  /\ dpc' = "init" /\ derr' = "nil" /\ attempt' = 0
  /\ dialErr' = "nil" /\ dret' = "none"
  /\ conn' = "closed" /\ leaked' = FALSE
  /\ prev' = autoconf
  /\ lost' = (lost \/ (dpc \in {"fn", "done"} /\ autoconf # prev))
  /\ UNCHANGED <<autoconf, base>>

Dial == \/ FirstDialOk \/ FirstDialFails
        \/ RetryCanceled \/ RetryDialOk \/ RetryDialFails \/ RetryTimedOut
        \/ FnReturns \/ Done \/ DoneFails

Next == Dial \/ ContextCanceled \/ ProcessRestarts

Spec == Init /\ [][Next]_vars

(* Dial's goroutine runs, timers fire and fn returns once canceled.  A     *)
(* select picks at random among its ready cases, so a case that is ready   *)
(* again and again is picked: strong fairness for RetryCanceled.           *)
Fairness ==
  /\ WF_vars(Dial /\ dpc # "fn")
  /\ WF_vars(ctx /\ FnReturns)
  /\ SF_vars(RetryCanceled)

FairSpec == Spec /\ Fairness

-----------------------------------------------------------------------------
(* Outside fn and its cleanup the autoconfiguration switch has the value   *)
(* the user gave it, however often Dial went round and wherever the        *)
(* process was ended, and inside them the value to restore is that one: a  *)
(* second incarnation never takes the first one's FALSE for the user's     *)
(* setting.  The excuse is a restore that the system refused, or one that  *)
(* was due when the process ended.                                         *)
AutoconfRestored ==
  lost \/ IF dpc \in {"fn", "done"} THEN Advertise => prev = base
                                    ELSE autoconf = base

(* Autoconfiguration that the user has switched off is never switched on,  *)
(* whatever the system refuses and wherever the process ends: setAutoconf  *)
(* and restore err on the side of a host that configures too little.       *)
NeverSwitchedOn == autoconf => base

(* The connection that Dial hands to fn is open exactly while fn or done   *)
(* has it, on every way out of either.  (The sockets of a dial that failed *)
(* half-way are no such connection: see leaked.)                           *)
ConnOpenOnlyForFn == conn = "open" <=> dpc \in {"fn", "done"}

(* Dial returns nil only when its context is canceled: a task never ends   *)
(* without an error while the server runs.                                 *)
NilOnlyOnCancel == dret = "nil" => ctx

(* Once the context is canceled Dial returns, also out of its retries and  *)
(* when fn keeps returning errors: "Don't block user shutdown."  (Only a   *)
(* new process has a context that is not canceled again.)                  *)
CancelReturns == ctx ~> (dpc = "returned" \/ ~ctx)

(* The retry loop ends, with a connection or with an error, whatever its   *)
(* attempts fail with: none of their errors is classified, so one that     *)
(* will never go away is bounded by nothing but the loop's counter.        *)
RetryEnds == (dpc = "retry") ~> (dpc # "retry")
=============================================================================
