------------------------------ MODULE RATiming ------------------------------
(***************************************************************************)
(* When multicast RAs go out (schedule, multicast and multicastDelay of    *)
(* internal/corerad/advertise.go).  Module Advertiser leaves time out;     *)
(* here time is all there is, in whole seconds and with timers that fire   *)
(* when they are due.  Every quantity is relative to now, so the state     *)
(* space is finite and time is unbounded.                                  *)
(***************************************************************************)
EXTENDS Naturals, FiniteSetsExt

CONSTANTS
  minDelayBetweenRAs,     \* 3 in the code
  maxInitialAdv,          \* 3 in the code
  maxInitialAdvInterval,  \* 16 in the code
  MinInterval,            \* cfg.MinInterval, whole seconds
  MaxInterval,            \* cfg.MaxInterval, whole seconds
  MaxDue                  \* bound: solicited RAs scheduled at one instant

ASSUME TimingAssumption ==
  /\ minDelayBetweenRAs \in Nat \ {0}
  /\ maxInitialAdv \in Nat /\ maxInitialAdvInterval \in Nat \ {0}
  /\ MinInterval \in Nat \ {0} /\ MaxInterval \in Nat
  /\ MinInterval <= MaxInterval
  /\ MaxDue \in Nat

VARIABLES
  since,   \* time.Since(lastMulticast), saturated at minDelayBetweenRAs
  due,     \* due[k]: multicast RAs that schedgroup will send in k seconds
  wait,    \* time until multicast's loop makes its next request
  round,   \* multicast's loop counter i, saturated at maxInitialAdv
  gap      \* time since a multicast RA was last sent, saturated

vars == <<since, due, wait, round, gap>>

(* The longest silence the code allows: the longest interval between two   *)
(* unsolicited requests, or the delay of a request that came almost        *)
(* minDelayBetweenRAs after one that was sent at once.                     *)
GapLimit == Max({MaxInterval, 2 * minDelayBetweenRAs - 1})

TypeOK ==
  /\ since \in 0..minDelayBetweenRAs
  /\ due \in [0..minDelayBetweenRAs -> Nat]
  /\ wait \in 0..MaxInterval
  /\ round \in 0..maxInitialAdv
  /\ gap \in 0..(GapLimit + 1)

(* Run has just sent the initial RA; multicast is about to ask for another.*)
Init ==
  /\ since = 0
  /\ due = [k \in 0..minDelayBetweenRAs |-> 0]
  /\ wait = 0
  /\ round = 0
  /\ gap = 0

(* multicastDelay: anything between the bounds, shortened for the first    *)
(* few rounds so that routers are discovered quickly.                      *)
multicastDelay(i) ==
  {IF i < maxInitialAdv /\ d > maxInitialAdvInterval
   THEN maxInitialAdvInterval ELSE d : d \in MinInterval..MaxInterval}

(* A scheduler that restarts its only timer with every request.            *)
ScheduleRearmed ==
  /\ due' = [k \in 0..minDelayBetweenRAs |->
               IF k = minDelayBetweenRAs THEN 1 ELSE 0]
  /\ since' = 0

(* schedule, for a multicast request: delay it if another request came     *)
(* less than minDelayBetweenRAs ago, and remember the time of this one.    *)
Schedule ==
  /\ due' = [due EXCEPT ![IF since < minDelayBetweenRAs
                          THEN minDelayBetweenRAs ELSE 0] = @ + 1]
  /\ since' = 0

(* A solicitation from the unspecified address asks for a multicast RA.    *)
Solicited ==
  /\ \A k \in DOMAIN due : due[k] < MaxDue
  /\ Schedule
  /\ UNCHANGED <<wait, round, gap>>

(* multicast's loop makes its request and picks its next delay.            *)
Unsolicited ==
  /\ wait = 0
  /\ Schedule
  /\ wait' \in multicastDelay(round)
  /\ round' = Min({round + 1, maxInitialAdv})
  /\ UNCHANGED gap

(* A worker sends an RA that is due.                                       *)
Send ==
  /\ due[0] > 0
  /\ due' = [due EXCEPT ![0] = @ - 1]
  /\ gap' = 0
  /\ UNCHANGED <<since, wait, round>>

(* A second passes once everything due now has happened.                   *)
Tick ==
  /\ due[0] = 0
  /\ wait > 0
  /\ due' = [k \in DOMAIN due |->
               IF k < minDelayBetweenRAs THEN due[k + 1] ELSE 0]
  /\ wait' = wait - 1
  /\ since' = Min({since + 1, minDelayBetweenRAs})
  /\ gap' = Min({gap + 1, GapLimit + 1})
  /\ UNCHANGED round

Next == Solicited \/ Unsolicited \/ Send \/ Tick

Spec == Init /\ [][Next]_vars

-----------------------------------------------------------------------------
(* Whatever is solicited and when, hosts hear a multicast RA at least      *)
(* every MaxInterval (or 2 * minDelayBetweenRAs - 1, if that is longer):   *)
(* delaying requests never puts the periodic RA off, since every request   *)
(* keeps the time it was given.                                            *)
GapBounded == gap <= GapLimit

(* "Ensure that we space out multicast RAs as required by the RFC": two    *)
(* multicast RAs are never sent less than minDelayBetweenRAs apart.        *)
MulticastSpacing ==
  [][due[0] > 0 /\ due'[0] = due[0] - 1 => gap >= minDelayBetweenRAs]_vars
=============================================================================
