----------------------------- MODULE SignalTask -----------------------------
(***************************************************************************)
(* The task that turns a signal into the cancelation of the server's       *)
(* context (signalTask and terminator, internal/corerad/server.go; the     *)
(* signals of internal/corerad/signals_unix.go), and the other way that    *)
(* context is canceled: another task of the server returns an error.       *)
(***************************************************************************)
CONSTANT Signals   \* the signals the process is notified of

VARIABLES
  cause, \* what canceled the server's context, "nil" before
  term,  \* terminator.term
  sig,   \* the signal received, "none" before
  spc    \* where signalTask.Run is

sigVars == <<cause, term, sig, spc>>

(* The server's context is canceled.                                       *)
ctx == cause # "nil"

(* Every signal but SIGHUP means that the process will not come back.      *)
isTerminal(s) == s # "SIGHUP"

SigTypeOK ==
  /\ cause \in {"nil", "signal", "task"}
  /\ term \in BOOLEAN
  /\ sig \in Signals \cup {"none"}
  /\ spc \in {"select", "set", "cancel", "done"}

SigInit ==
  /\ cause = "nil"
  /\ term = FALSE
  /\ sig = "none"
  /\ spc = "select"

(* cancel(): only the first call has an effect.                            *)
Cancel(by) == cause' = IF ctx THEN cause ELSE by

(* The select picks the signal, also when the context is already canceled. *)
SigReceive ==
  /\ spc = "select"
  /\ \E s \in Signals : sig' = s
  /\ spc' = "set"
  /\ UNCHANGED <<cause, term>>

(* The select picks the cancelation: another goroutine returned an error.  *)
SigCtxDone ==
  /\ spc = "select"
  /\ ctx
  /\ spc' = "done"
  /\ UNCHANGED <<cause, term, sig>>

(* A handler that cancels and never records the signal.                    *)
SigSetAfterCancel ==
  /\ spc = "set"
  /\ Cancel("signal")
  /\ spc' = "cancel"
  /\ UNCHANGED <<term, sig>>

(* terminator.set records what the signal means ...                        *)
SigSet ==
  /\ spc = "set"
  /\ term' = isTerminal(sig)
  /\ spc' = "cancel"
  /\ UNCHANGED <<cause, sig>>

(* ... before the context is canceled.                                     *)
SigCancel ==
  /\ spc = "cancel"
  /\ Cancel("signal")
  /\ spc' = "done"
  /\ UNCHANGED <<term, sig>>

(* Another task of the server fails: its errgroup cancels the context.     *)
OtherTaskFails ==
  /\ ~ctx
  /\ Cancel("task")
  /\ UNCHANGED <<term, sig, spc>>

SigStep == SigCtxDone \/ SigSet \/ SigCancel

SigNext == SigReceive \/ SigStep \/ OtherTaskFails
=============================================================================
