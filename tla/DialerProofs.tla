---------------------------- MODULE DialerProofs ----------------------------
(***************************************************************************)
(* Proofs about Dialer.Dial, for every bound on the retry loop, in both    *)
(* modes, and whatever errors dialing and fn produce.                      *)
(***************************************************************************)
EXTENDS Dialer, TLAPS

(* Why the invariants hold together: while fn has the connection, what     *)
(* restore will write is the user's setting (Advertise), or the switch was *)
(* never touched (Monitor); and a nil result of fn waits for its cleanup   *)
(* only when the context is canceled.                                      *)
SwitchSafe ==
  lost \/ IF dpc \in {"fn", "done"} /\ Advertise THEN prev = base
                                                   ELSE autoconf = base

(* The value to restore, too, is on only if the user's is.                 *)
PrevSafe == (autoconf => base) /\ (prev => base)

NilPending == dpc = "done" /\ derr = "nil" => ctx

Inv ==
  /\ TypeOK
  /\ SwitchSafe
  /\ PrevSafe
  /\ ConnOpenOnlyForFn
  /\ NilOnlyOnCancel
  /\ NilPending

(* Inv holds of a Dial that has not begun.                                 *)
LEMMA InitInv == Init => Inv
<1> SUFFICES ASSUME Init PROVE Inv
  OBVIOUS
<1> USE DEF Init, DialInit
<1>1. ctx \in BOOLEAN /\ leaked \in BOOLEAN /\ lost \in BOOLEAN
  BY Zenon
<1>2. TypeOK
  BY <1>1, DialerAssumption DEF TypeOK
<1> QED
  BY <1>2 DEF Inv, SwitchSafe, PrevSafe, ConnOpenOnlyForFn, NilOnlyOnCancel, NilPending

(* A dial turns the switch off at most, and remembers what it was.         *)
LEMMA DialOkPrevSafe ==
  ASSUME Inv, DialOk
  PROVE  PrevSafe' /\ autoconf' \in BOOLEAN /\ prev' \in BOOLEAN
<1> autoconf \in BOOLEAN /\ prev \in BOOLEAN /\ base' = base /\ PrevSafe
  BY DEF Inv, TypeOK, DialOk
<1>1. CASE Advertise /\ prev' = autoconf /\ autoconf' = FALSE
  BY <1>1, Zenon DEF PrevSafe
<1>2. CASE Advertise /\ prev' = autoconf /\ autoconf' = autoconf
  BY <1>2, Zenon DEF PrevSafe
<1>3. CASE UNCHANGED <<prev, autoconf>>
  BY <1>3, Zenon DEF PrevSafe
<1> QED
  BY <1>1, <1>2, <1>3 DEF DialOk

(* The steps that dial keep Inv.                                           *)
LEMMA DialingInv ==
  ASSUME Inv,
         \/ FirstDialOk \/ FirstDialFails \/ RetryDialOk \/ RetryDialFails
  PROVE  Inv'
<1> USE DialerAssumption
        DEF Inv, TypeOK, SwitchSafe, PrevSafe, ConnOpenOnlyForFn, NilOnlyOnCancel,
            NilPending, sysVars
<1>1. CASE FirstDialOk
  <2>1. PrevSafe' /\ autoconf' \in BOOLEAN /\ prev' \in BOOLEAN
    BY DialOkPrevSafe, <1>1 DEF FirstDialOk
  <2>2. SwitchSafe'
    BY <1>1 DEF FirstDialOk, DialOk
  <2> QED
    BY <1>1, <2>1, <2>2 DEF FirstDialOk, DialOk
<1>2. CASE FirstDialFails
  <2>1. PICK e \in ErrKinds : DialFails(e) /\ Classify(e)
    BY <1>2 DEF FirstDialFails
  <2>2. leaked' \in BOOLEAN
    BY <2>1, Zenon DEF DialFails
  <2> QED
    BY <1>2, <2>1, <2>2 DEF FirstDialFails, DialFails, Classify, Return
<1>3. CASE RetryDialOk
  <2>1. PrevSafe' /\ autoconf' \in BOOLEAN /\ prev' \in BOOLEAN
    BY DialOkPrevSafe, <1>3 DEF RetryDialOk
  <2>2. attempt' \in 0..Attempts
    BY <1>3 DEF RetryDialOk
  <2>3. TypeOK'
    BY <1>3, <2>1, <2>2 DEF RetryDialOk, DialOk
  <2>4. SwitchSafe'
    BY <1>3 DEF RetryDialOk, DialOk
  <2> QED
    BY <1>3, <2>3, <2>4 DEF RetryDialOk, DialOk
<1>4. CASE RetryDialFails
  <2>1. PICK e \in ErrKinds : DialFails(e)
    BY <1>4 DEF RetryDialFails
  <2>2. leaked' \in BOOLEAN
    BY <2>1, Zenon DEF DialFails
  <2> QED
    BY <1>4, <2>1, <2>2 DEF RetryDialFails, DialFails
<1> QED
  BY <1>1, <1>2, <1>3, <1>4

(* The steps that end the retry loop, fn and its cleanup keep Inv.         *)
LEMMA EndingInv ==
  ASSUME Inv,
         \/ RetryCanceled \/ RetryTimedOut \/ FnReturns \/ Done \/ DoneFails
  PROVE  Inv'
<1> USE DialerAssumption
        DEF Inv, TypeOK, SwitchSafe, PrevSafe, ConnOpenOnlyForFn, NilOnlyOnCancel,
            NilPending, sysVars
<1>1. CASE RetryCanceled
  BY <1>1 DEF RetryCanceled, Return
<1>2. CASE RetryTimedOut
  BY <1>2 DEF RetryTimedOut, Return
<1>3. CASE FnReturns
  <2>1. derr' \in ErrKinds \cup {"nil"}
    BY <1>3 DEF FnReturns
  <2>2. NilPending'
    BY <1>3 DEF FnReturns, ErrKinds
  <2> QED
    BY <1>3, <2>1, <2>2 DEF FnReturns
<1>4. CASE Done
  <2>1. lost' \in BOOLEAN
    BY <1>4, Zenon DEF Done, RestoreOk
  <2> QED
    BY <1>4, <2>1 DEF Done, RestoreOk, Classify, Return
<1>5. CASE DoneFails
  <2>1. lost' \in BOOLEAN
    BY <1>5, Zenon DEF DoneFails, RestoreFails
  <2> QED
    BY <1>5, <2>1 DEF DoneFails, RestoreFails, Return
<1> QED
  BY <1>1, <1>2, <1>3, <1>4, <1>5

(* Inv is inductive.                                                       *)
LEMMA NextInv == Inv /\ [Next]_vars => Inv'
<1> SUFFICES ASSUME Inv, [Next]_vars PROVE Inv'
  OBVIOUS
<1>1. CASE ContextCanceled
  <2>1. ctx' \in BOOLEAN
    BY <1>1, Zenon DEF ContextCanceled
  <2> QED
    BY <1>1, <2>1 DEF ContextCanceled, dialVars, sysVars, Inv, TypeOK,
       SwitchSafe, PrevSafe, ConnOpenOnlyForFn, NilOnlyOnCancel, NilPending
<1>3. CASE ProcessRestarts
  <2>1. ctx' \in BOOLEAN /\ leaked' \in BOOLEAN /\ lost' \in BOOLEAN
    BY <1>3, Zenon DEF ProcessRestarts
  <2>2. TypeOK'
    BY <1>3, <2>1, DialerAssumption DEF ProcessRestarts, Inv, TypeOK
  <2>3. SwitchSafe'
    BY <1>3 DEF ProcessRestarts, Inv, SwitchSafe
  <2> QED
    BY <1>3, <2>2, <2>3 DEF ProcessRestarts, Inv, PrevSafe, ConnOpenOnlyForFn,
       NilOnlyOnCancel, NilPending
<1>2. CASE UNCHANGED vars
  BY <1>2 DEF vars, dialVars, sysVars, Inv, TypeOK, SwitchSafe,
              PrevSafe, ConnOpenOnlyForFn, NilOnlyOnCancel, NilPending
<1> QED
  BY DialingInv, EndingInv, <1>1, <1>2, <1>3 DEF Next, Dial

(* Inv holds in every state of every behaviour of Dial.                    *)
LEMMA SpecInv == Spec => []Inv
BY InitInv, NextInv, PTL DEF Spec

(* Dial's variables keep their types: init's counter never leaves its      *)
(* bound, however often the loop is entered again.                         *)
THEOREM DialerTypeCorrect == Spec => []TypeOK
<1>1. Inv => TypeOK
  BY DEF Inv
<1> QED
  BY SpecInv, <1>1, PTL

(* However often Dial reinitializes and the process restarts, outside fn   *)
(* the interface's autoconfiguration switch has the user's value, unless   *)
(* the system refused to write it back or the process ended within fn.     *)
THEOREM DialerRestoresAutoconf == Spec => []AutoconfRestored
<1>1. Inv => AutoconfRestored
  BY DEF Inv, SwitchSafe, AutoconfRestored
<1> QED
  BY SpecInv, <1>1, PTL

(* Dial never turns on the autoconfiguration of a user who has turned it   *)
(* off, not by a restore, a refused write or a crash in between.           *)
THEOREM DialerNeverSwitchesOn == Spec => []NeverSwitchedOn
<1>1. Inv => NeverSwitchedOn
  BY DEF Inv, PrevSafe, NeverSwitchedOn
<1> QED
  BY SpecInv, <1>1, PTL

(* No connection stays open behind Dial's back, and fn always has one.     *)
THEOREM DialerConnScoped == Spec => []ConnOpenOnlyForFn
<1>1. Inv => ConnOpenOnlyForFn
  BY DEF Inv
<1> QED
  BY SpecInv, <1>1, PTL

(* A task whose Dial returns nil was canceled.                             *)
THEOREM DialerNilOnlyOnCancel == Spec => []NilOnlyOnCancel
<1>1. Inv => NilOnlyOnCancel
  BY DEF Inv
<1> QED
  BY SpecInv, <1>1, PTL

(* The retry loop is bounded by its counter alone: each step of Dial in it *)
(* leaves the loop or uses up one of the Attempts, whatever the attempt    *)
(* failed with and whether or not the context is canceled.                 *)
RetryBounded ==
  /\ [](attempt \in 0..Attempts)
  /\ [][dpc = "retry" => dpc' # "retry" \/ attempt' > attempt]_dialVars

(* The statement above, for every behaviour: the safety half of RetryEnds. *)
THEOREM DialerRetryBounded == Spec => RetryBounded
<1>1. Inv => attempt \in 0..Attempts
  BY DEF Inv, TypeOK
<1>2. Inv /\ [Next]_vars =>
        [dpc = "retry" => dpc' # "retry" \/ attempt' > attempt]_dialVars
  <2> SUFFICES ASSUME Inv, [Next]_vars, dpc = "retry", dpc' = "retry",
                      ~UNCHANGED dialVars
               PROVE  attempt' > attempt
    OBVIOUS
  <2>1. RetryDialFails
    <3>1. ~UNCHANGED vars /\ ~ContextCanceled
      BY DEF vars, ContextCanceled
    <3>2. ~ProcessRestarts /\ ~RetryDialOk /\ ~RetryCanceled /\ ~RetryTimedOut
      BY DEF ProcessRestarts, RetryDialOk, RetryCanceled, RetryTimedOut, Return
    <3>3. ~FirstDialOk /\ ~FirstDialFails /\ ~FnReturns /\ ~Done /\ ~DoneFails
      BY DEF FirstDialOk, FirstDialFails, FnReturns, Done, DoneFails
    <3> QED
      BY <3>1, <3>2, <3>3 DEF Next, Dial
  <2>2. attempt' = attempt + 1
    BY <2>1 DEF RetryDialFails
  <2>3. attempt \in Nat
    BY <1>1, DialerAssumption
  <2> QED
    BY <2>2, <2>3
<1> QED
  BY SpecInv, <1>1, <1>2, PTL DEF Spec, RetryBounded
=============================================================================
