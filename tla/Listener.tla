------------------------------ MODULE Listener ------------------------------
(***************************************************************************)
(* The NDP listener shared by the Advertiser and the Monitor               *)
(* (internal/corerad/listener.go).  Listen loops over receiveRetry and     *)
(* hands every good message to a callback; a second goroutine, the         *)
(* interrupter, waits for the cancelation of the context and then forces a *)
(* pending read to time out.  Listen joins that goroutine on every way out.*)
(*                                                                         *)
(* lctx is the context passed to Listen: whoever instantiates this module  *)
(* says what cancels it.  The actions below leave it out, so that it may   *)
(* be substituted by an expression.                                        *)
(***************************************************************************)
EXTENDS Naturals

CONSTANTS
  Retries,    \* receiveRetry's bound on consecutive unusable reads
  ReadErrs    \* the kinds of fatal errors a read or the interrupter can meet

VARIABLES
  lctx,   \* the context is canceled
  lpc,    \* where the goroutine in Listen is
  tries,  \* receiveRetry's loop counter i
  lerr,   \* the error Listen is about to return, "nil" for none
  intr    \* the interrupter: waiting, deadline set, or failed to set it

(* "other" is an error of the callback.                                    *)
LErrs == ReadErrs \cup {"exhausted", "other", "nil"}

LPCs == { "check",     \* top of receiveRetry's loop
          "read",      \* in conn.ReadFrom
          "backoff",   \* in the select that waits i * 50ms
          "callback",  \* in onMessage
          "wait",      \* context canceled: return eg.Wait()
          "defer",     \* returning lerr: in the deferred eg.Wait()
          "returned" }

LTypeOK ==
  /\ lctx \in BOOLEAN
  /\ lpc \in LPCs
  /\ tries \in 0..Retries
  /\ lerr \in LErrs
  /\ intr \in {"waiting", "set", "failed"}

LInit ==
  /\ lpc = "check"
  /\ tries = 0
  /\ lerr = "nil"
  /\ intr = "waiting"

-----------------------------------------------------------------------------
(* receiveRetry returns the context's error: Listen returns eg.Wait().     *)
ReceiveCanceled == lpc' = "wait" /\ tries' = 0 /\ UNCHANGED lerr

(* receiveRetry returns error e, and Listen looks at the context again.    *)
ReceiveFailed(e) ==
  \/ lctx  /\ ReceiveCanceled
  \/ ~lctx /\ lpc' = "defer" /\ tries' = 0 /\ lerr' = e

(* The next round of receiveRetry's loop.                                  *)
Retry == lpc' = "check" /\ tries' = tries + 1 /\ UNCHANGED lerr

(* Top of the retry loop: out of retries, canceled, or read again.         *)
Check ==
  /\ lpc = "check"
  /\ \/ tries = Retries /\ ReceiveFailed("exhausted")
     \/ tries < Retries /\ lctx  /\ ReceiveCanceled
     \/ tries < Retries /\ ~lctx /\ lpc' = "read" /\ UNCHANGED <<tries, lerr>>
  /\ UNCHANGED intr

(* A message with a valid hop limit goes to the callback.  No read returns *)
(* a message once the deadline has been forced into the past.              *)
ReadMessage ==
  /\ lpc = "read"
  /\ intr = "waiting"
  /\ lpc' = "callback"
  /\ tries' = 0
  /\ UNCHANGED <<lerr, intr>>

(* A message with an invalid hop limit is dropped and uses up one retry.   *)
ReadInvalid ==
  /\ lpc = "read"
  /\ intr = "waiting"
  /\ Retry
  /\ UNCHANGED intr

(* The read times out: on its own, or because the deadline was forced.     *)
ReadTimeout ==
  /\ lpc = "read"
  /\ \/ lctx  /\ ReceiveCanceled
     \/ ~lctx /\ lpc' = "backoff" /\ UNCHANGED <<tries, lerr>>
  /\ UNCHANGED intr

(* The read fails for good.                                                *)
ReadFatal(e) ==
  /\ lpc = "read"
  /\ ReceiveFailed(e)
  /\ UNCHANGED intr

(* The backoff ends because the context is canceled or its time is up.     *)
Backoff ==
  /\ lpc = "backoff"
  /\ (lctx /\ ReceiveCanceled) \/ Retry
  /\ UNCHANGED intr

(* onMessage returns nil: the next receiveRetry starts with fresh retries. *)
CallbackOk ==
  /\ lpc = "callback"
  /\ lpc' = "check"
  /\ UNCHANGED <<tries, lerr, intr>>

(* onMessage returns an error, which Listen returns as it is.              *)
CallbackErr(e) ==
  /\ lpc = "callback"
  /\ lpc' = "defer"
  /\ lerr' = e
  /\ UNCHANGED <<tries, intr>>

(* The interrupter wakes up on cancelation and forces reads to time out;   *)
(* when it cannot, the connection is unusable and reads fail anyway.       *)
(* Listen's own cancel() runs after the deferred eg.Wait(), so nothing but *)
(* the caller's context ever wakes the interrupter.                        *)
Interrupt ==
  /\ intr = "waiting"
  /\ lctx
  /\ intr' = "set" \/ (ReadErrs # {} /\ intr' = "failed")
  /\ UNCHANGED <<lpc, tries, lerr>>

(* return eg.Wait(): the interrupter's error becomes Listen's.             *)
WaitReturn ==
  /\ lpc = "wait"
  /\ intr # "waiting"
  /\ lpc' = "returned"
  /\ \/ intr = "set" /\ UNCHANGED lerr
     \/ intr = "failed" /\ lerr' \in ReadErrs
  /\ UNCHANGED <<tries, intr>>

(* The deferred eg.Wait() of an error return: its own result is ignored.   *)
DeferReturn ==
  /\ lpc = "defer"
  /\ intr # "waiting"
  /\ lpc' = "returned"
  /\ UNCHANGED <<tries, lerr, intr>>

(* The step of a read that the interrupter has made return.                *)
ReadInterrupted == intr # "waiting" /\ ReadTimeout

(* The steps Listen takes by itself, whatever arrives on the network (the  *)
(* interrupter is a goroutine of its own).                                 *)
ListenStep == \/ Check \/ Backoff \/ WaitReturn \/ DeferReturn
              \/ ReadInterrupted

(* The steps that depend on what the network and the callback do.          *)
NetworkStep == \/ ReadMessage \/ ReadInvalid \/ ReadTimeout
               \/ \E e \in ReadErrs : ReadFatal(e)
=============================================================================
