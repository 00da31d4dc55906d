------------------------------ MODULE RAProofs ------------------------------
(***************************************************************************)
(* Proofs about the RAs on the link: hosts are never left without a        *)
(* multicast RA for longer than GapLimit, for any intervals and delays     *)
(* (RATiming), and what the check of another router's RA shows, for any    *)
(* two RAs (VerifyRA).                                                     *)
(***************************************************************************)
EXTENDS RATiming, VerifyRA, SequenceTheorems, WellFoundedInduction, TLAPS

(* The larger of two numbers.                                              *)
LEMMA MaxPair ==
  ASSUME NEW a \in Nat, NEW b \in Nat
  PROVE  /\ Max({a, b}) \in Nat
         /\ Max({a, b}) >= a /\ Max({a, b}) >= b
<1>1. \E x \in {a, b} : \A y \in {a, b} : x >= y
  <2>1. CASE a >= b
    BY <2>1
  <2>2. CASE b >= a
    BY <2>2
  <2> QED
    BY <2>1, <2>2
<1>2. Max({a, b}) \in {a, b} /\ \A y \in {a, b} : Max({a, b}) >= y
  BY <1>1 DEF Max
<1> QED
  BY <1>2

(* The smaller of two numbers.                                             *)
LEMMA MinPair ==
  ASSUME NEW a \in Nat, NEW b \in Nat
  PROVE  Min({a, b}) = IF a <= b THEN a ELSE b
<1>1. \E x \in {a, b} : \A y \in {a, b} : x <= y
  <2>1. CASE a <= b
    BY <2>1
  <2>2. CASE b <= a
    BY <2>2
  <2> QED
    BY <2>1, <2>2
<1>2. Min({a, b}) \in {a, b} /\ \A y \in {a, b} : Min({a, b}) <= y
  BY <1>1 DEF Min
<1> QED
  BY <1>2

(* GapLimit is at least each of its two terms.                             *)
LEMMA GapLimitBounds ==
  /\ GapLimit \in Nat
  /\ GapLimit >= MaxInterval
  /\ GapLimit >= 2 * minDelayBetweenRAs - 1
  /\ GapLimit >= minDelayBetweenRAs
<1>1. MaxInterval \in Nat /\ 2 * minDelayBetweenRAs - 1 \in Nat
  BY TimingAssumption
<1> QED
  BY <1>1, MaxPair, TimingAssumption DEF GapLimit

(* A delay is never longer than MaxInterval.                               *)
LEMMA DelayBounds == multicastDelay(round) \subseteq 0..MaxInterval
BY TimingAssumption DEF multicastDelay

-----------------------------------------------------------------------------
Quiet == \A k \in 0..minDelayBetweenRAs : due[k] = 0

(* Why the gap is bounded.  With nothing scheduled, the next unsolicited   *)
(* request comes in time, and the last request cannot have come later than *)
(* the last RA; with something scheduled, an RA goes out in time whatever  *)
(* else is requested meanwhile.                                            *)
GapInv ==
  /\ Quiet => gap + wait <= MaxInterval
  /\ Quiet /\ since < minDelayBetweenRAs => gap <= since
  /\ ~Quiet => \E k \in 0..minDelayBetweenRAs :
                 due[k] > 0 /\ gap + k <= GapLimit

(* The initial RA has just been sent.                                      *)
LEMMA InitTiming == Init => TypeOK /\ GapInv
BY TimingAssumption, GapLimitBounds DEF Init, TypeOK, GapInv, Quiet

(* What the invariant says of the next RA bounds the gap.                  *)
LEMMA GapInvBounds == TypeOK /\ GapInv => GapBounded
BY GapLimitBounds, TimingAssumption DEF TypeOK, GapInv, GapBounded

(* A request, solicited or not, is scheduled in time and delays nothing.   *)
LEMMA ScheduleGap ==
  ASSUME TypeOK, GapInv, Schedule, gap' = gap
  PROVE  /\ due' \in [0..minDelayBetweenRAs -> Nat]
         /\ since' \in 0..minDelayBetweenRAs
         /\ \E k \in 0..minDelayBetweenRAs : due'[k] > 0 /\ gap' + k <= GapLimit
<1> USE TimingAssumption, GapLimitBounds
<1> DEFINE m == minDelayBetweenRAs
           j == IF since < m THEN m ELSE 0
<1>1. j \in 0..m /\ due' = [due EXCEPT ![j] = @ + 1] /\ since' = 0
  BY DEF Schedule
<1>2. due \in [0..m -> Nat] /\ gap \in Nat /\ wait \in Nat /\ since \in 0..m
  BY DEF TypeOK
<1>3. due' \in [0..m -> Nat] /\ due'[j] > 0
      /\ \A k \in 0..m : due'[k] >= due[k]
  BY <1>1, <1>2
<1>4. CASE Quiet
  <2>1. gap + j <= GapLimit
    BY <1>2, <1>4 DEF GapInv
  <2> QED
    BY <1>1, <1>3, <2>1
<1>5. CASE ~Quiet
  <2>1. PICK k \in 0..m : due[k] > 0 /\ gap + k <= GapLimit
    BY <1>5 DEF GapInv
  <2>2. due'[k] > 0
    BY <1>2, <1>3, <2>1
  <2> QED
    BY <1>1, <1>3, <2>1, <2>2
<1> QED
  BY <1>4, <1>5

(* Every step keeps the invariant: a second passes only while an RA or a   *)
(* request is still to come.                                               *)
LEMMA NextTiming == TypeOK /\ GapInv /\ [Next]_vars => (TypeOK /\ GapInv)'
<1> SUFFICES ASSUME TypeOK, GapInv, [Next]_vars PROVE (TypeOK /\ GapInv)'
  OBVIOUS
<1> USE TimingAssumption, GapLimitBounds
<1>1. CASE Solicited
  <2>1. Schedule /\ UNCHANGED <<wait, round, gap>>
    BY <1>1 DEF Solicited
  <2> QED
    BY <2>1, ScheduleGap DEF TypeOK, GapInv, Quiet
<1>2. CASE Unsolicited
  <2>1. Schedule /\ wait' \in 0..MaxInterval /\ gap' = gap
    BY <1>2, DelayBounds DEF Unsolicited
  <2>2. round' \in 0..maxInitialAdv
    BY <1>2, MinPair DEF Unsolicited, TypeOK
  <2>3. TypeOK'
    BY <2>1, <2>2, ScheduleGap DEF TypeOK
  <2>4. PICK k \in 0..minDelayBetweenRAs : due'[k] > 0 /\ gap' + k <= GapLimit
    BY <2>1, ScheduleGap
  <2>5. ~Quiet'
    BY <2>4 DEF Quiet
  <2> QED
    BY <2>3, <2>4, <2>5 DEF GapInv
<1>3. CASE Send
  <2>1. TypeOK'
    BY <1>3 DEF Send, TypeOK
  <2>2. gap' = 0 /\ UNCHANGED <<since, wait>>
    BY <1>3 DEF Send
  <2>3. ASSUME ~Quiet' PROVE \E k \in 0..minDelayBetweenRAs :
                               due'[k] > 0 /\ gap' + k <= GapLimit
    <3>1. PICK k \in 0..minDelayBetweenRAs : due'[k] # 0
      BY <2>3 DEF Quiet
    <3> QED
      BY <2>1, <2>2, <3>1 DEF TypeOK
  <2> QED
    BY <2>1, <2>2, <2>3 DEF TypeOK, GapInv
<1>4. CASE Tick
  <2> DEFINE m == minDelayBetweenRAs
  <2>1. /\ since' = (IF since + 1 <= m THEN since + 1 ELSE m)
        /\ gap' = (IF gap + 1 <= GapLimit + 1 THEN gap + 1 ELSE GapLimit + 1)
    <3>1. /\ since' = Min({since + 1, m}) /\ gap' = Min({gap + 1, GapLimit + 1})
          /\ since + 1 \in Nat /\ m \in Nat /\ gap + 1 \in Nat /\ GapLimit + 1 \in Nat
      BY <1>4 DEF Tick, TypeOK
    <3> QED
      BY ONLY <3>1, MinPair
  <2>2. /\ due[0] = 0 /\ wait > 0 /\ wait' = wait - 1 /\ round' = round
        /\ due' = [k \in 0..m |-> IF k < m THEN due[k + 1] ELSE 0]
    BY <1>4 DEF Tick, TypeOK
  <2>3. TypeOK'
    BY <2>1, <2>2 DEF TypeOK
  <2>4. CASE Quiet
    <3>1. Quiet'
      BY <2>2, <2>4 DEF Quiet
    <3> QED
      BY <2>1, <2>2, <2>3, <2>4, <3>1 DEF TypeOK, GapInv
  <2>5. CASE ~Quiet
    <3>1. PICK k \in 0..m : due[k] > 0 /\ gap + k <= GapLimit
      BY <2>5 DEF GapInv
    <3>2. k - 1 \in 0..m /\ due'[k - 1] > 0 /\ gap' + (k - 1) <= GapLimit
      BY <2>1, <2>2, <3>1 DEF TypeOK
    <3>3. ~Quiet'
      BY <3>2 DEF Quiet
    <3> QED
      BY <2>3, <3>2, <3>3 DEF GapInv
  <2> QED
    BY <2>4, <2>5
<1>5. CASE UNCHANGED vars
  BY <1>5 DEF vars, TypeOK, GapInv, Quiet
<1> QED
  BY <1>1, <1>2, <1>3, <1>4, <1>5 DEF Next

(* The inductive invariant of the timers.                                  *)
LEMMA TimingInvariant == Spec => [](TypeOK /\ GapInv)
BY InitTiming, NextTiming, PTL DEF Spec

(* The timers and counters stay in their ranges, for any configuration.    *)
THEOREM TimingTypeCorrect == Spec => []TypeOK
BY TimingInvariant, PTL

(* Whatever hosts solicit and when, the time between two multicast RAs     *)
(* never exceeds the larger of MaxInterval and 2 * minDelayBetweenRAs - 1. *)
THEOREM TimingGapBounded == Spec => []GapBounded
BY TimingInvariant, GapInvBounds, PTL

-----------------------------------------------------------------------------
(* What the consistency check compares.                                    *)

(* A set of natural numbers that is not empty has a least one.             *)
LEMMA LeastNat ==
  ASSUME NEW S, S \subseteq Nat, S # {}
  PROVE  \E x \in S : \A y \in S : x <= y
<1>1. PICK x \in S : \A y \in S : ~(<<y, x>> \in OpToRel(<, Nat))
  <2> DEFINE R == OpToRel(<, Nat)
  <2>1. IsWellFoundedOn(R, Nat)
    BY NatLessThanWellFounded
  <2> HIDE DEF R
  <2>2. \E x \in S : \A y \in S : ~(<<y, x>> \in R)
    BY <2>1, WFMin
  <2> QED
    BY <2>2 DEF R
<1>2. OpToRel(<, Nat) = {ss \in Nat \X Nat : ss[1] < ss[2]}
  BY DEF OpToRel
<1>3. ASSUME NEW y \in S PROVE x <= y
  <2>1. x \in Nat /\ y \in Nat
    OBVIOUS
  <2>2. ~(<<y, x>> \in {ss \in Nat \X Nat : ss[1] < ss[2]})
    BY <1>1, <1>2
  <2> QED
    BY <2>1, <2>2
<1> QED
  BY <1>3

(* A set of positions that is not empty has a last one.                    *)
LEMMA LastPosition ==
  ASSUME NEW n \in Nat, NEW S, S \subseteq 1..n, S # {}
  PROVE  \E x \in S : \A y \in S : y <= x
<1> DEFINE T == {k \in Nat : \A y \in S : y <= k}
<1>1. T \subseteq Nat /\ n \in T
  OBVIOUS
<1>2. PICK x \in T : \A k \in T : x <= k
  <2> HIDE DEF T
  <2> QED
    BY <1>1, LeastNat
<1>3. x \in Nat /\ \A y \in S : y <= x
  OBVIOUS
<1>4. x \in S
  <2> SUFFICES ASSUME x \notin S PROVE FALSE
    OBVIOUS
  <2>1. \A y \in S : y \in Nat /\ y >= 1 /\ y <= x /\ y # x
    BY <1>3
  <2>2. PICK z \in S : TRUE
    OBVIOUS
  <2>3. x - 1 \in Nat
    BY <1>3, <2>1, <2>2
  <2>4. \A y \in S : y <= x - 1
    BY <1>3, <2>1
  <2>5. x - 1 \in T
    BY <2>3, <2>4
  <2>6. x <= x - 1
    BY <1>2, <2>5
  <2> QED
    BY <1>3, <2>6
<1> QED
  BY <1>3, <1>4

(* The options of contents vs, as RA allocates them.                       *)
OptsOf(vs, who) == [i \in DOMAIN vs |-> [at |-> <<who, i>>, v |-> vs[i]]]

(* One turn of the loop of pick, after those in g.                         *)
PickTurn(kind, options, g, m) ==
  IF m = 0 THEN <<>>
  ELSE IF options[m].v.kind = kind THEN Append(g[m - 1], options[m])
  ELSE g[m - 1]

(* There is a function for any number of turns: one turn after another, so *)
(* that there is no least number for which there is none.                  *)
LEMMA PickTurnsExist ==
  ASSUME NEW kind, NEW options, NEW n \in Nat
  PROVE  \E g : g = [m \in 0..n |-> PickTurn(kind, options, g, m)]
<1> DEFINE Exists(k) == \E g : g = [m \in 0..k |-> PickTurn(kind, options, g, m)]
           S == {k \in Nat : ~Exists(k)}
<1>1. Exists(0)
  <2> DEFINE g == [m \in 0..0 |-> <<>>]
  <2>1. \A m \in 0..0 : PickTurn(kind, options, g, m) = <<>>
    BY DEF PickTurn
  <2>2. g = [m \in 0..0 |-> PickTurn(kind, options, g, m)]
    <3> HIDE DEF g
    <3> QED
      BY <2>1 DEF g
  <2> QED
    BY <2>2
<1>2. ASSUME NEW k \in Nat, k # 0, Exists(k - 1)
      PROVE  Exists(k)
  <2>1. PICK g : g = [m \in 0..(k - 1) |-> PickTurn(kind, options, g, m)]
    BY <1>2
  <2> DEFINE h == [m \in 0..k |-> IF m = k THEN PickTurn(kind, options, g, k) ELSE g[m]]
  <2>2. \A m \in 0..(k - 1) : h[m] = g[m] /\ g[m] = PickTurn(kind, options, g, m)
    <3>1. \A m \in 0..(k - 1) : g[m] = PickTurn(kind, options, g, m)
      BY <2>1, Zenon
    <3>2. \A m \in 0..(k - 1) : m \in 0..k /\ m # k
      BY <1>2
    <3> QED
      BY <3>1, <3>2
  <2>3. h[k] = PickTurn(kind, options, g, k)
    OBVIOUS
  <2>4. DOMAIN h = 0..k /\ h = [m \in 0..k |-> h[m]]
    OBVIOUS
  <2> HIDE DEF h
  <2>5. \A m \in 0..k : PickTurn(kind, options, h, m) = PickTurn(kind, options, g, m)
    <3> TAKE m \in 0..k
    <3>1. m # 0 => h[m - 1] = g[m - 1]
      BY <1>2, <2>2
    <3> QED
      BY <3>1, Zenon DEF PickTurn
  <2>6. \A m \in 0..k : h[m] = PickTurn(kind, options, h, m)
    <3> TAKE m \in 0..k
    <3>1. CASE m = k
      BY <2>3, <2>5, <3>1
    <3>2. CASE m # k
      <4>1. m \in 0..(k - 1)
        BY <1>2, <3>2
      <4> QED
        BY <2>2, <2>5, <4>1
    <3> QED
      BY <3>1, <3>2
  <2>7. h = [m \in 0..k |-> PickTurn(kind, options, h, m)]
    BY <2>4, <2>6
  <2> QED
    BY <2>7
<1> HIDE DEF Exists
<1>3. S = {}
  <2> SUFFICES ASSUME S # {} PROVE FALSE
    OBVIOUS
  <2>1. PICK k \in S : \A m \in S : k <= m
    <3>1. S \subseteq Nat
      OBVIOUS
    <3> HIDE DEF S
    <3> QED
      BY <3>1, LeastNat
  <2>2. k \in Nat /\ ~Exists(k) /\ k # 0
    BY <1>1
  <2>3. k - 1 \in Nat /\ k - 1 \notin S
    BY <2>1, <2>2
  <2>4. Exists(k - 1)
    BY <2>3
  <2> QED
    BY <1>2, <2>2, <2>4
<1>4. Exists(n)
  BY <1>3
<1> QED
  BY <1>4 DEF Exists

(* So the loop of pick takes a turn at every option.                       *)
LEMMA PickedTurn ==
  ASSUME NEW kind, NEW options, Len(options) \in Nat, NEW n \in 0..Len(options)
  PROVE  picked(kind, options)[n] = PickTurn(kind, options, picked(kind, options), n)
<1> DEFINE ts == picked(kind, options)
<1>1. \E g : g = [m \in 0..Len(options) |-> PickTurn(kind, options, g, m)]
  BY PickTurnsExist
<1>2. ts = CHOOSE g : g = [m \in 0..Len(options) |-> PickTurn(kind, options, g, m)]
  BY DEF picked, PickTurn
<1>3. ts = [m \in 0..Len(options) |-> PickTurn(kind, options, ts, m)]
  BY <1>1, <1>2
<1> HIDE DEF ts
<1>4. ts[n] = PickTurn(kind, options, ts, n)
  BY <1>3
<1> QED
  BY <1>4 DEF ts

(* The places e of the options of a kind among the first m, in order.      *)
Places(e, kind, vs, m) ==
  /\ e \in Seq(1..m)
  /\ \A k, l \in DOMAIN e : k < l => e[k] < e[l]
  /\ \A k \in DOMAIN e : vs[e[k]].kind = kind
  /\ \A i \in 1..m : vs[i].kind = kind => \E k \in DOMAIN e : e[k] = i

(* The options at these places.                                            *)
At(e, vs, who) == [k \in DOMAIN e |-> [at |-> <<who, e[k]>>, v |-> vs[e[k]]]]

(* One more option of the kind.                                            *)
LEMMA PlaceMore ==
  ASSUME NEW kind, NEW vs, NEW m \in Nat, m # 0, NEW e,
         Places(e, kind, vs, m - 1), vs[m].kind = kind
  PROVE  /\ Places(Append(e, m), kind, vs, m)
         /\ \A who : At(Append(e, m), vs, who)
                       = Append(At(e, vs, who), [at |-> <<who, m>>, v |-> vs[m]])
<1> DEFINE f == Append(e, m)
<1>1. e \in Seq(1..m) /\ e \in Seq(1..(m - 1))
  BY DEF Places
<1>2. /\ f \in Seq(1..m) /\ Len(f) = Len(e) + 1 /\ Len(e) \in Nat
      /\ DOMAIN e = 1..Len(e) /\ DOMAIN f = 1..(Len(e) + 1)
      /\ \A k \in DOMAIN e : f[k] = e[k]
      /\ f[Len(e) + 1] = m
  BY <1>1
<1>3. \A k \in DOMAIN e : e[k] \in 1..(m - 1)
  BY <1>1
<1> HIDE DEF f
<1>4. \A k, l \in DOMAIN f : k < l => f[k] < f[l]
  <2> TAKE k, l \in DOMAIN f
  <2> HAVE k < l
  <2>1. k \in DOMAIN e
    BY <1>2
  <2>2. CASE l \in DOMAIN e
    BY <1>2, <2>1, <2>2 DEF Places
  <2>3. CASE l \notin DOMAIN e
    BY <1>2, <1>3, <2>1, <2>3
  <2> QED
    BY <2>2, <2>3
<1>5. \A k \in DOMAIN f : vs[f[k]].kind = kind
  <2> TAKE k \in DOMAIN f
  <2>1. CASE k \in DOMAIN e
    BY <1>2, <2>1 DEF Places
  <2>2. CASE k \notin DOMAIN e
    <3>1. f[k] = m
      BY <1>2, <2>2
    <3> QED
      BY <3>1
  <2> QED
    BY <2>1, <2>2
<1>6. \A i \in 1..m : vs[i].kind = kind => \E k \in DOMAIN f : f[k] = i
  <2> TAKE i \in 1..m
  <2> HAVE vs[i].kind = kind
  <2>1. CASE i = m
    BY <1>2, <2>1
  <2>2. CASE i # m
    <3>1. i \in 1..(m - 1)
      BY <2>2
    <3>2. PICK k \in DOMAIN e : e[k] = i
      BY <3>1 DEF Places
    <3> QED
      BY <1>2, <3>2
  <2> QED
    BY <2>1, <2>2
<1>7. ASSUME NEW who
      PROVE  At(f, vs, who) = Append(At(e, vs, who), [at |-> <<who, m>>, v |-> vs[m]])
  <2> DEFINE o == [at |-> <<who, m>>, v |-> vs[m]]
             s == At(e, vs, who)
             R == {s[k] : k \in DOMAIN e} \cup {o}
  <2>1. s = [k \in 1..Len(e) |-> s[k]] /\ \A k \in 1..Len(e) : s[k] \in R
    BY <1>2 DEF At
  <2>2. \A q : \A k \in DOMAIN q :
          At(q, vs, who)[k] = [at |-> <<who, q[k]>>, v |-> vs[q[k]]]
    BY DEF At
  <2>3. \A k \in DOMAIN e : s[k] = At(f, vs, who)[k]
    <3> TAKE k \in DOMAIN e
    <3>1. k \in DOMAIN f /\ f[k] = e[k]
      BY <1>2
    <3>2. At(f, vs, who)[k] = [at |-> <<who, f[k]>>, v |-> vs[f[k]]]
      BY <2>2, <3>1
    <3>3. s[k] = [at |-> <<who, e[k]>>, v |-> vs[e[k]]]
      BY <2>2
    <3> QED
      BY <3>1, <3>2, <3>3
  <2>4. At(f, vs, who)[Len(e) + 1] = o
    <3>1. Len(e) + 1 \in DOMAIN f /\ f[Len(e) + 1] = m
      BY <1>2
    <3> QED
      BY <2>2, <3>1
  <2>5. At(f, vs, who) = [k \in 1..(Len(e) + 1) |-> At(f, vs, who)[k]]
    BY <1>2 DEF At
  <2>6. o \in R
    OBVIOUS
  <2> HIDE DEF o, s, R
  <2>7. s \in Seq(R) /\ Len(s) = Len(e)
    BY <1>2, <2>1
  <2>8. /\ Append(s, o) = [k \in 1..(Len(e) + 1) |-> Append(s, o)[k]]
        /\ \A k \in 1..Len(e) : Append(s, o)[k] = s[k]
        /\ Append(s, o)[Len(e) + 1] = o
    <3>1. /\ Append(s, o) \in Seq(R) /\ Len(Append(s, o)) = Len(e) + 1
          /\ \A k \in 1..Len(s) : Append(s, o)[k] = s[k]
          /\ Append(s, o)[Len(s) + 1] = o
      BY <2>6, <2>7, AppendProperties
    <3>2. Append(s, o) = [k \in 1..Len(Append(s, o)) |-> Append(s, o)[k]]
      BY <3>1, LenProperties
    <3> QED
      BY <2>7, <3>1, <3>2
  <2>9. \A k \in 1..(Len(e) + 1) : Append(s, o)[k] = At(f, vs, who)[k]
    BY <1>2, <2>3, <2>4, <2>8
  <2>10. At(f, vs, who) = Append(s, o)
    BY <2>5, <2>8, <2>9
  <2> QED
    BY <2>10 DEF s, o
<1> QED
  BY <1>2, <1>4, <1>5, <1>6, <1>7 DEF f, Places

(* What pick has after m options: the ones at the kind's places.           *)
LEMMA PickedPlaces ==
  ASSUME NEW kind, NEW vs \in Seq(Option), NEW n \in 0..Len(vs)
  PROVE  \E e : /\ Places(e, kind, vs, n)
                /\ \A who : picked(kind, OptsOf(vs, who))[n] = At(e, vs, who)
<1> DEFINE P(m) == \E e : /\ Places(e, kind, vs, m)
                          /\ \A who : picked(kind, OptsOf(vs, who))[m] = At(e, vs, who)
           S == {m \in 0..Len(vs) : ~P(m)}
<1>1. Len(vs) \in Nat /\ DOMAIN vs = 1..Len(vs)
  OBVIOUS
<1>2. \A who : /\ Len(OptsOf(vs, who)) = Len(vs)
               /\ \A i \in 1..Len(vs) :
                    OptsOf(vs, who)[i] = [at |-> <<who, i>>, v |-> vs[i]]
  BY <1>1 DEF OptsOf
<1>3. ASSUME NEW m \in 0..Len(vs), NEW who
      PROVE  picked(kind, OptsOf(vs, who))[m]
               = PickTurn(kind, OptsOf(vs, who), picked(kind, OptsOf(vs, who)), m)
  <2> DEFINE options == OptsOf(vs, who)
  <2>1. Len(options) \in Nat /\ m \in 0..Len(options)
    BY <1>1, <1>2
  <2> HIDE DEF options
  <2>2. picked(kind, options)[m] = PickTurn(kind, options, picked(kind, options), m)
    BY <2>1, PickedTurn
  <2> QED
    BY <2>2 DEF options
<1>4. P(0)
  <2>1. Places(<<>>, kind, vs, 0)
    BY DEF Places
  <2>2. ASSUME NEW who PROVE picked(kind, OptsOf(vs, who))[0] = At(<<>>, vs, who)
    <3>1. 0 \in 0..Len(vs)
      BY <1>1
    <3>2. picked(kind, OptsOf(vs, who))[0] = <<>>
      BY <1>3, <3>1, Zenon DEF PickTurn
    <3>3. At(<<>>, vs, who) = <<>>
      BY DEF At
    <3> QED
      BY <3>2, <3>3
  <2> QED
    BY <2>1, <2>2
<1>5. ASSUME NEW m \in 1..Len(vs), P(m - 1)
      PROVE  P(m)
  <2>1. PICK e : /\ Places(e, kind, vs, m - 1)
                 /\ \A who : picked(kind, OptsOf(vs, who))[m - 1] = At(e, vs, who)
    BY <1>5
  <2>2. m \in Nat /\ m # 0 /\ m \in 0..Len(vs) /\ m \in 1..Len(vs)
    BY <1>1
  <2>3. ASSUME NEW who
        PROVE  picked(kind, OptsOf(vs, who))[m]
                 = IF vs[m].kind = kind
                   THEN Append(At(e, vs, who), [at |-> <<who, m>>, v |-> vs[m]])
                   ELSE At(e, vs, who)
    <3> DEFINE options == OptsOf(vs, who)
               ts == picked(kind, options)
               o == [at |-> <<who, m>>, v |-> vs[m]]
    <3>1. ts[m] = PickTurn(kind, options, ts, m)
      BY <1>3, <2>2
    <3>2. options[m] = o /\ o.v = vs[m] /\ ts[m - 1] = At(e, vs, who)
      BY <1>2, <2>1, <2>2
    <3> HIDE DEF options, ts, o
    <3>3. options[m].v.kind = vs[m].kind
      BY <3>2
    <3>4. PickTurn(kind, options, ts, m)
            = IF vs[m].kind = kind THEN Append(At(e, vs, who), o) ELSE At(e, vs, who)
      BY <2>2, <3>2, <3>3, Zenon DEF PickTurn
    <3> QED
      BY <3>1, <3>4, Zenon DEF options, ts, o
  <2>4. CASE vs[m].kind = kind
    <3>1. /\ Places(Append(e, m), kind, vs, m)
          /\ \A who : At(Append(e, m), vs, who)
                        = Append(At(e, vs, who), [at |-> <<who, m>>, v |-> vs[m]])
      <4>1. Places(e, kind, vs, m - 1) /\ vs[m].kind = kind /\ m \in Nat /\ m # 0
        BY <2>1, <2>2, <2>4
      <4>2. Places(Append(e, m), kind, vs, m)
        BY ONLY <4>1, PlaceMore, ZenonT(40)
      <4>3. ASSUME NEW who
            PROVE  At(Append(e, m), vs, who)
                     = Append(At(e, vs, who), [at |-> <<who, m>>, v |-> vs[m]])
        BY ONLY <4>1, PlaceMore, ZenonT(40)
      <4> QED
        BY ONLY <4>2, <4>3
    <3>2. \A who : picked(kind, OptsOf(vs, who))[m] = At(Append(e, m), vs, who)
      BY <2>3, <2>4, <3>1, Zenon
    <3> QED
      BY <3>1, <3>2
  <2>5. CASE vs[m].kind # kind
    <3>1. e \in Seq(1..(m - 1)) /\ 1..(m - 1) \subseteq 1..m
      BY <2>1, <2>2 DEF Places
    <3>2. e \in Seq(1..m)
      BY <3>1
    <3>3. \A i \in 1..m : vs[i].kind = kind => i \in 1..(m - 1)
      BY <2>2, <2>5
    <3>4. Places(e, kind, vs, m)
      BY <2>1, <3>2, <3>3 DEF Places
    <3>5. \A who : picked(kind, OptsOf(vs, who))[m] = At(e, vs, who)
      BY <2>3, <2>5, Zenon
    <3> QED
      BY <3>4, <3>5
  <2> QED
    BY <2>4, <2>5
<1> HIDE DEF P
<1>6. S = {}
  <2> SUFFICES ASSUME S # {} PROVE FALSE
    OBVIOUS
  <2>1. PICK m \in S : \A k \in S : m <= k
    <3>1. S \subseteq Nat
      OBVIOUS
    <3> HIDE DEF S
    <3> QED
      BY <3>1, LeastNat
  <2>2. m \in 0..Len(vs) /\ ~P(m) /\ m # 0
    BY <1>4
  <2>3. m \in 1..Len(vs) /\ m - 1 \in 0..Len(vs) /\ ~(m <= m - 1)
    BY <1>1, <2>2
  <2>4. m - 1 \notin S
    BY <2>1, <2>3
  <2>5. P(m - 1)
    BY <2>3, <2>4
  <2> QED
    BY <1>5, <2>2, <2>3, <2>5
<1>7. P(n)
  BY <1>6
<1> QED
  BY <1>7 DEF P

(* The places of the options of a kind.                                    *)
Slots(kind, vs) ==
  CHOOSE e : /\ Places(e, kind, vs, Len(vs))
             /\ \A who : pick(kind, OptsOf(vs, who)) = At(e, vs, who)

(* pick returns the options of the kind in their order: the same places    *)
(* in any two RAs of the same contents.                                    *)
LEMMA PickSlots ==
  ASSUME NEW kind, NEW vs \in Seq(Option)
  PROVE  /\ Places(Slots(kind, vs), kind, vs, Len(vs))
         /\ \A who : pick(kind, OptsOf(vs, who)) = At(Slots(kind, vs), vs, who)
<1>1. Len(vs) \in Nat /\ DOMAIN vs = 1..Len(vs) /\ Len(vs) \in 0..Len(vs)
  OBVIOUS
<1>2. \A who : Len(OptsOf(vs, who)) = Len(vs)
  BY <1>1 DEF OptsOf
<1>3. \E e : /\ Places(e, kind, vs, Len(vs))
             /\ \A who : picked(kind, OptsOf(vs, who))[Len(vs)] = At(e, vs, who)
  <2> DEFINE n == Len(vs)
  <2>1. n \in 0..Len(vs)
    BY <1>1
  <2> HIDE DEF n
  <2>2. \E e : /\ Places(e, kind, vs, n)
               /\ \A who : picked(kind, OptsOf(vs, who))[n] = At(e, vs, who)
    BY ONLY <2>1, vs \in Seq(Option), PickedPlaces, ZenonT(40)
  <2> QED
    BY <2>2, Zenon DEF n
<1>4. \A who : pick(kind, OptsOf(vs, who)) = picked(kind, OptsOf(vs, who))[Len(vs)]
  BY <1>2, Zenon DEF pick
<1>5. \E e : /\ Places(e, kind, vs, Len(vs))
             /\ \A who : pick(kind, OptsOf(vs, who)) = At(e, vs, who)
  BY <1>3, <1>4, Zenon
<1> QED
  BY <1>5, Zenon DEF Slots

(* What is at these places.                                                *)
LEMMA PickAt ==
  ASSUME NEW kind, NEW vs \in Seq(Option), NEW who
  PROVE  LET e == Slots(kind, vs)
             a == pick(kind, OptsOf(vs, who))
         IN /\ e \in Seq(DOMAIN vs)
            /\ DOMAIN a = DOMAIN e /\ DOMAIN e = 1..Len(e) /\ Len(e) \in Nat
            /\ Len(a) = Len(e) /\ (a = <<>> <=> Len(e) = 0)
            /\ Len(e) # 0 => Head(a) = a[1]
            /\ \A k \in DOMAIN e : /\ e[k] \in DOMAIN vs
                                   /\ vs[e[k]].kind = kind
                                   /\ a[k].v = vs[e[k]]
                                   /\ a[k].at = <<who, e[k]>>
            /\ \A k, l \in DOMAIN e : k < l => e[k] < e[l]
            /\ \A i \in DOMAIN vs : vs[i].kind = kind => \E k \in DOMAIN e : e[k] = i
<1> DEFINE e == Slots(kind, vs)
           a == pick(kind, OptsOf(vs, who))
<1>1. Places(e, kind, vs, Len(vs)) /\ a = At(e, vs, who)
  BY PickSlots
<1>2. DOMAIN vs = 1..Len(vs) /\ Len(vs) \in Nat
  OBVIOUS
<1> HIDE DEF e, a
<1>3. e \in Seq(DOMAIN vs)
  BY <1>1, <1>2 DEF Places
<1>4. DOMAIN e = 1..Len(e) /\ Len(e) \in Nat
  BY <1>3
<1>5. \A k \in DOMAIN e : e[k] \in DOMAIN vs
  BY <1>3
<1>6. a = [k \in DOMAIN e |-> [at |-> <<who, e[k]>>, v |-> vs[e[k]]]]
  BY <1>1 DEF At
<1>7. DOMAIN a = DOMAIN e
  BY <1>6
<1>8. \A k \in DOMAIN e : a[k].v = vs[e[k]] /\ a[k].at = <<who, e[k]>>
  BY <1>6
<1>9. Len(a) = Len(e)
  BY <1>4, <1>7
<1>10. a = <<>> <=> Len(e) = 0
  <2>1. ASSUME a = <<>> PROVE Len(e) = 0
    BY <1>9, <2>1
  <2>2. ASSUME Len(e) = 0 PROVE a = <<>>
    BY <1>4, <1>6, <2>2
  <2> QED
    BY <2>1, <2>2
<1>11. Len(e) # 0 => Head(a) = a[1]
  <2> DEFINE R == {a[k] : k \in DOMAIN a}
  <2>1. a = [k \in 1..Len(e) |-> a[k]] /\ \A k \in 1..Len(e) : a[k] \in R
    BY <1>4, <1>6, <1>7
  <2> HIDE DEF R
  <2>2. a \in Seq(R)
    BY <1>4, <2>1
  <2> QED
    BY <1>9, <2>2
<1> QED
  BY <1>1, <1>2, <1>3, <1>4, <1>5, <1>7, <1>8, <1>9, <1>10, <1>11, Zenon
  DEF e, a, Places

(* The places themselves.                                                  *)
LEMMA SlotOrder ==
  ASSUME NEW kind, NEW vs \in Seq(Option)
  PROVE  /\ DOMAIN Slots(kind, vs) = 1..Len(Slots(kind, vs)) /\ Len(Slots(kind, vs)) \in Nat
         /\ \A k \in DOMAIN Slots(kind, vs) :
              /\ Slots(kind, vs)[k] \in DOMAIN vs
              /\ vs[Slots(kind, vs)[k]].kind = kind
         /\ \A k, l \in DOMAIN Slots(kind, vs) :
              k < l => Slots(kind, vs)[k] < Slots(kind, vs)[l]
         /\ \A i \in DOMAIN vs : vs[i].kind = kind =>
              \E k \in DOMAIN Slots(kind, vs) : Slots(kind, vs)[k] = i
<1> DEFINE e == Slots(kind, vs)
<1>1. Places(e, kind, vs, Len(vs))
  BY PickSlots
<1>2. DOMAIN vs = 1..Len(vs)
  OBVIOUS
<1> HIDE DEF e
<1>3. e \in Seq(DOMAIN vs)
  BY <1>1, <1>2 DEF Places
<1>4. DOMAIN e = 1..Len(e) /\ Len(e) \in Nat /\ \A k \in DOMAIN e : e[k] \in DOMAIN vs
  BY <1>3
<1> QED
  BY <1>1, <1>2, <1>4, Zenon DEF Places, e

(* The pairs of options that name the same prefix.                         *)
LEMMA SamePrefixPairs ==
  ASSUME NEW A, NEW B, NEW kind, NEW p
  PROVE  p \in SamePrefix(A, B, kind)
           <=> \E i \in DOMAIN pick(kind, A) : \E j \in DOMAIN pick(kind, B) :
                 /\ p = <<pick(kind, A)[i].v, pick(kind, B)[j].v>>
                 /\ pick(kind, A)[i].v.prefix = pick(kind, B)[j].v.prefix
<1> DEFINE a == pick(kind, A)
           b == pick(kind, B)
           Q == {<<a[i].v, b[j].v>> : i \in DOMAIN a, j \in DOMAIN b}
<1>1. SamePrefix(A, B, kind) = {q \in Q : q[1].prefix = q[2].prefix}
  BY DEF SamePrefix
<1>2. p \in Q <=> \E i \in DOMAIN a : \E j \in DOMAIN b : p = <<a[i].v, b[j].v>>
  OBVIOUS
<1>3. \A x, y : <<x, y>>[1] = x /\ <<x, y>>[2] = y
  OBVIOUS
<1> HIDE DEF a, b, Q
<1> QED
  BY <1>1, <1>2, <1>3 DEF a, b

(* The problems with prefixes, one for every such pair that differs.       *)
LEMMA PrefixProblems ==
  ASSUME NEW A, NEW B, NEW x
  PROVE  x \in checkPrefixes(A, B)
           <=> \E i \in DOMAIN pick("pi", A) : \E j \in DOMAIN pick("pi", B) :
                 /\ pick("pi", A)[i].v.prefix = pick("pi", B)[j].v.prefix
                 /\ \/ /\ pick("pi", A)[i].v.preferred # pick("pi", B)[j].v.preferred
                       /\ x = Problem("prefix_information_preferred_lifetime",
                                      pick("pi", A)[i].v.prefix)
                    \/ /\ pick("pi", A)[i].v.valid # pick("pi", B)[j].v.valid
                       /\ x = Problem("prefix_information_valid_lifetime",
                                      pick("pi", A)[i].v.prefix)
<1> DEFINE a == pick("pi", A)
           b == pick("pi", B)
           P == SamePrefix(A, B, "pi")
<1>1. \A p : p \in P <=> \E i \in DOMAIN a : \E j \in DOMAIN b :
                            p = <<a[i].v, b[j].v>> /\ a[i].v.prefix = b[j].v.prefix
  BY SamePrefixPairs
<1>2. x \in checkPrefixes(A, B)
        <=> \E p \in P :
              \/ /\ p[1].preferred # p[2].preferred
                 /\ x = Problem("prefix_information_preferred_lifetime", p[1].prefix)
              \/ /\ p[1].valid # p[2].valid
                 /\ x = Problem("prefix_information_valid_lifetime", p[1].prefix)
  BY Zenon DEF checkPrefixes
<1>3. \A y, z : <<y, z>>[1] = y /\ <<y, z>>[2] = z
  OBVIOUS
<1> HIDE DEF a, b, P
<1>4. ASSUME NEW p \in P,
             \/ /\ p[1].preferred # p[2].preferred
                /\ x = Problem("prefix_information_preferred_lifetime", p[1].prefix)
             \/ /\ p[1].valid # p[2].valid
                /\ x = Problem("prefix_information_valid_lifetime", p[1].prefix)
      PROVE  \E i \in DOMAIN a : \E j \in DOMAIN b :
               /\ a[i].v.prefix = b[j].v.prefix
               /\ \/ /\ a[i].v.preferred # b[j].v.preferred
                     /\ x = Problem("prefix_information_preferred_lifetime", a[i].v.prefix)
                  \/ /\ a[i].v.valid # b[j].v.valid
                     /\ x = Problem("prefix_information_valid_lifetime", a[i].v.prefix)
  <2>1. PICK i \in DOMAIN a : \E j \in DOMAIN b :
          p = <<a[i].v, b[j].v>> /\ a[i].v.prefix = b[j].v.prefix
    BY <1>1
  <2>2. PICK j \in DOMAIN b : p = <<a[i].v, b[j].v>> /\ a[i].v.prefix = b[j].v.prefix
    BY <2>1
  <2>3. p[1] = a[i].v /\ p[2] = b[j].v
    BY <1>3, <2>2
  <2> QED
    BY <1>4, <2>2, <2>3, Zenon
<1>5. ASSUME NEW i \in DOMAIN a, NEW j \in DOMAIN b, a[i].v.prefix = b[j].v.prefix
      PROVE  <<a[i].v, b[j].v>> \in P
  BY <1>1, <1>5, Zenon
<1> QED
  BY <1>2, <1>3, <1>4, <1>5, Zenon DEF a, b

(* The same for routes.                                                    *)
LEMMA RouteProblems ==
  ASSUME NEW A, NEW B, NEW x
  PROVE  x \in checkRoutes(A, B)
           <=> \E i \in DOMAIN pick("ri", A) : \E j \in DOMAIN pick("ri", B) :
                 /\ pick("ri", A)[i].v.prefix = pick("ri", B)[j].v.prefix
                 /\ pick("ri", A)[i].v.preference = pick("ri", B)[j].v.preference
                 /\ pick("ri", A)[i].v.lifetime # pick("ri", B)[j].v.lifetime
                 /\ x = Problem("route_information_lifetime", pick("ri", A)[i].v.prefix)
<1> DEFINE a == pick("ri", A)
           b == pick("ri", B)
           P == SamePrefix(A, B, "ri")
<1>1. \A p : p \in P <=> \E i \in DOMAIN a : \E j \in DOMAIN b :
                            p = <<a[i].v, b[j].v>> /\ a[i].v.prefix = b[j].v.prefix
  BY SamePrefixPairs
<1>2. x \in checkRoutes(A, B)
        <=> \E p \in P : /\ p[1].preference = p[2].preference
                         /\ p[1].lifetime # p[2].lifetime
                         /\ x = Problem("route_information_lifetime", p[1].prefix)
  BY Zenon DEF checkRoutes
<1>3. \A y, z : <<y, z>>[1] = y /\ <<y, z>>[2] = z
  OBVIOUS
<1> HIDE DEF a, b, P
<1>4. ASSUME NEW p \in P,
             p[1].preference = p[2].preference, p[1].lifetime # p[2].lifetime,
             x = Problem("route_information_lifetime", p[1].prefix)
      PROVE  \E i \in DOMAIN a : \E j \in DOMAIN b :
               /\ a[i].v.prefix = b[j].v.prefix
               /\ a[i].v.preference = b[j].v.preference
               /\ a[i].v.lifetime # b[j].v.lifetime
               /\ x = Problem("route_information_lifetime", a[i].v.prefix)
  <2>1. PICK i \in DOMAIN a : \E j \in DOMAIN b :
          p = <<a[i].v, b[j].v>> /\ a[i].v.prefix = b[j].v.prefix
    BY <1>1
  <2>2. PICK j \in DOMAIN b : p = <<a[i].v, b[j].v>> /\ a[i].v.prefix = b[j].v.prefix
    BY <2>1
  <2>3. p[1] = a[i].v /\ p[2] = b[j].v
    BY <1>3, <2>2
  <2> QED
    BY <1>4, <2>2, <2>3, Zenon
<1>5. ASSUME NEW i \in DOMAIN a, NEW j \in DOMAIN b, a[i].v.prefix = b[j].v.prefix
      PROVE  <<a[i].v, b[j].v>> \in P
  BY <1>1, <1>5, Zenon
<1> QED
  BY <1>2, <1>3, <1>4, <1>5, Zenon DEF a, b

(* An RA's options are sequences to pick from.                             *)
LEMMA MessageOptions ==
  ASSUME NEW m \in Messages, NEW who
  PROVE  /\ m[2] \in Seq(Option)
         /\ RA(m[1], m[2], who).opts = OptsOf(m[2], who)
         /\ RA(m[1], m[2], who).base = m[1]
<1>1. m[2] \in Seq(Option)
  BY MessagesAssumption
<1> QED
  BY <1>1 DEF RA, OptsOf

(* Every check reports the same from both sides.                           *)
LEMMA CheckSymmetric ==
  ASSUME NEW m \in Messages, NEW w \in Messages, NEW who, NEW other
  PROVE  verifyRAs(RA(m[1], m[2], who), RA(w[1], w[2], other))
           = verifyRAs(RA(w[1], w[2], other), RA(m[1], m[2], who))
<1> DEFINE A == OptsOf(m[2], who)
           B == OptsOf(w[2], other)
<1>1. checkRAs(m[1], w[1]) = checkRAs(w[1], m[1])
  BY DEF checkRAs, checkDurations
<1>2. ASSUME NEW kind, NEW field
      PROVE  checkFirst(A, B, kind, field) = checkFirst(B, A, kind, field)
  <2> HIDE DEF A, B
  <2> QED
    BY DEF checkFirst, If
<1>3. checkPrefixes(A, B) = checkPrefixes(B, A)
  <2> HIDE DEF A, B
  <2>1. \A x : x \in checkPrefixes(A, B) <=> x \in checkPrefixes(B, A)
    BY PrefixProblems
  <2> QED
    BY <2>1
<1>4. checkRoutes(A, B) = checkRoutes(B, A)
  <2> HIDE DEF A, B
  <2>1. \A x : x \in checkRoutes(A, B) <=> x \in checkRoutes(B, A)
    BY RouteProblems
  <2> QED
    BY <2>1
<1>5. ASSUME NEW kind, NEW c, NEW l, NEW n
      PROVE  checkLists(A, B, kind, c, l, n) = checkLists(B, A, kind, c, l, n)
  <2> DEFINE a == pick(kind, A)
             b == pick(kind, B)
  <2>1. /\ DOMAIN a = 1..Len(a) /\ DOMAIN b = 1..Len(b)
    BY MessageOptions, PickAt
  <2> HIDE DEF a, b
  <2>2. Len(a) = Len(b) => DOMAIN a = DOMAIN b
    BY <2>1
  <2>3. Len(a) = Len(b) =>
          /\ (\E i \in DOMAIN a : a[i].v.lifetime # b[i].v.lifetime)
               <=> (\E i \in DOMAIN b : b[i].v.lifetime # a[i].v.lifetime)
          /\ (\E i \in DOMAIN a : a[i].v.names # b[i].v.names)
               <=> (\E i \in DOMAIN b : b[i].v.names # a[i].v.names)
    BY <2>2, Zenon
  <2> HIDE DEF A, B
  <2> QED
    BY <2>3 DEF checkLists, If, a, b
<1>6. /\ RA(m[1], m[2], who).opts = A /\ RA(m[1], m[2], who).base = m[1]
      /\ RA(w[1], w[2], other).opts = B /\ RA(w[1], w[2], other).base = w[1]
  BY MessageOptions
<1> HIDE DEF A, B
<1>7. /\ checkMTUs(A, B) = checkMTUs(B, A)
      /\ checkCaptivePortal(A, B) = checkCaptivePortal(B, A)
  BY <1>2 DEF checkMTUs, checkCaptivePortal
<1> QED
  BY <1>1, <1>3, <1>4, <1>5, <1>6, <1>7 DEF verifyRAs

(* One RA is checked at most, against the RA built from the configuration. *)
VerifyInv ==
  /\ want \in RAs("ours")
  /\ \/ got = {} /\ reported = {}
     \/ \E m \in RAs("theirs") : got = {m} /\ reported = verifyRAs(want, m)

(* The invariant holds.                                                    *)
LEMMA VerifyInvariant == VerifySpec => []VerifyInv
<1>1. VerifyInit => VerifyInv
  BY DEF VerifyInit, VerifyInv
<1>2. VerifyInv /\ [Receive]_verifyVars => VerifyInv'
  <2> SUFFICES ASSUME VerifyInv, [Receive]_verifyVars PROVE VerifyInv'
    OBVIOUS
  <2>1. CASE Receive
    BY <2>1 DEF VerifyInv, Receive, RAs
  <2>2. CASE UNCHANGED verifyVars
    BY <2>2 DEF VerifyInv, verifyVars, RAs
  <2> QED
    BY <2>1, <2>2
<1> QED
  BY <1>1, <1>2, PTL DEF VerifySpec

(* A message that was checked is an RA of each side.                       *)
LEMMA Checked ==
  ASSUME VerifyInv, NEW m \in got
  PROVE  /\ reported = verifyRAs(want, m)
         /\ \E x \in Messages : want = RA(x[1], x[2], "ours")
         /\ \E y \in Messages : m = RA(y[1], y[2], "theirs")
  BY DEF VerifyInv, RAs

(* Whatever the two routers advertise, they report the same fields of each *)
(* other: verifyRAs is symmetric, and so are all of its checks.            *)
THEOREM VerifySymmetric == VerifySpec => []Symmetric
<1>1. VerifyInv => Symmetric
  <2> SUFFICES ASSUME VerifyInv, NEW m \in got PROVE reported = verifyRAs(m, want)
    BY DEF Symmetric
  <2>1. reported = verifyRAs(want, m)
    BY Checked
  <2>2. PICK x \in Messages : want = RA(x[1], x[2], "ours")
    BY Checked
  <2>3. PICK y \in Messages : m = RA(y[1], y[2], "theirs")
    BY Checked
  <2>4. verifyRAs(RA(x[1], x[2], "ours"), RA(y[1], y[2], "theirs"))
          = verifyRAs(RA(y[1], y[2], "theirs"), RA(x[1], x[2], "ours"))
    BY CheckSymmetric
  <2> QED
    BY <2>1, <2>2, <2>3, <2>4
<1> QED
  BY <1>1, VerifyInvariant, PTL

(* The checks of two RAs with the same contents.                           *)
LEMMA TwinProblems ==
  ASSUME NEW m \in Messages, NEW who, NEW other, NamedOnce(OptsOf(m[2], who)),
         NEW p \in verifyRAs(RA(m[1], m[2], who), RA(m[1], m[2], other))
  PROVE  p.field \in {"mtu", "captive_portal"}
<1> DEFINE vs == m[2]
           A == OptsOf(vs, who)
           B == OptsOf(vs, other)
<1>1. /\ vs \in Seq(Option)
      /\ RA(m[1], m[2], who).opts = A /\ RA(m[1], m[2], who).base = m[1]
      /\ RA(m[1], m[2], other).opts = B /\ RA(m[1], m[2], other).base = m[1]
  BY MessageOptions
<1>2. DOMAIN A = DOMAIN vs /\ \A i \in DOMAIN vs : A[i].v = vs[i]
  BY DEF OptsOf
<1> HIDE DEF vs
<1>3. \A i, j \in DOMAIN vs :
        /\ vs[i].kind = vs[j].kind /\ vs[i].kind \in {"pi", "ri"}
        /\ vs[i].prefix = vs[j].prefix
        => i = j
  <2>1. NamedOnce(A)
    BY DEF vs
  <2> HIDE DEF A
  <2> QED
    BY <1>2, <2>1 DEF NamedOnce
<1> HIDE DEF A, B
<1>4. checkRAs(m[1], m[1]) = {}
  BY DEF checkRAs, checkDurations, If
<1>5. ASSUME NEW kind, kind \in {"pi", "ri"},
             NEW i \in DOMAIN pick(kind, A), NEW j \in DOMAIN pick(kind, B),
             pick(kind, A)[i].v.prefix = pick(kind, B)[j].v.prefix
      PROVE  pick(kind, A)[i].v = pick(kind, B)[j].v
  <2> DEFINE e == Slots(kind, vs)
  <2>1. /\ i \in DOMAIN e /\ e[i] \in DOMAIN vs /\ vs[e[i]].kind = kind
        /\ pick(kind, A)[i].v = vs[e[i]]
    BY <1>1, PickAt DEF A
  <2>2. /\ j \in DOMAIN e /\ e[j] \in DOMAIN vs /\ vs[e[j]].kind = kind
        /\ pick(kind, B)[j].v = vs[e[j]]
    BY <1>1, PickAt DEF B
  <2> HIDE DEF e
  <2>3. e[i] = e[j]
    BY <1>3, <1>5, <2>1, <2>2
  <2> QED
    BY <2>1, <2>2, <2>3
<1>6. checkPrefixes(A, B) = {}
  BY <1>5, PrefixProblems
<1>7. checkRoutes(A, B) = {}
  BY <1>5, RouteProblems
<1>8. ASSUME NEW kind, NEW c, NEW l, NEW n
      PROVE  checkLists(A, B, kind, c, l, n) = {}
  <2> DEFINE a == pick(kind, A)
             b == pick(kind, B)
             e == Slots(kind, vs)
  <2>1. DOMAIN a = DOMAIN e /\ Len(a) = Len(e) /\ \A k \in DOMAIN e : a[k].v = vs[e[k]]
    BY <1>1, PickAt DEF A
  <2>2. DOMAIN b = DOMAIN e /\ Len(b) = Len(e) /\ \A k \in DOMAIN e : b[k].v = vs[e[k]]
    BY <1>1, PickAt DEF B
  <2>3. Len(a) = Len(b) /\ \A i \in DOMAIN a : a[i].v = b[i].v
    BY <2>1, <2>2
  <2> HIDE DEF a, b
  <2>4. /\ ~\E i \in DOMAIN a : a[i].v.lifetime # b[i].v.lifetime
        /\ ~\E i \in DOMAIN a : a[i].v.names # b[i].v.names
    BY <2>3
  <2> QED
    BY <2>3, <2>4 DEF checkLists, If, a, b
<1>9. p \in checkFirst(A, B, "mtu", "mtu") \cup checkFirst(A, B, "cp", "captive_portal")
  <2>1. verifyRAs(RA(m[1], m[2], who), RA(m[1], m[2], other))
          = {} \cup checkFirst(A, B, "mtu", "mtu") \cup {} \cup {} \cup {} \cup {}
            \cup checkFirst(A, B, "cp", "captive_portal")
    BY <1>1, <1>4, <1>6, <1>7, <1>8 DEF verifyRAs, checkMTUs, checkCaptivePortal
  <2> QED
    BY <2>1
<1>10. \A kind, field : \A q \in checkFirst(A, B, kind, field) : q.field = field
  BY DEF checkFirst, If, Problem
<1> QED
  BY <1>9, <1>10

(* A router with the same configuration gives rise to no problem but the   *)
(* two that compare pointers, for every configuration that names no prefix *)
(* and no route twice.                                                     *)
THEOREM VerifyTwinAgrees == VerifySpec => []TwinAgrees
<1>1. VerifyInv => TwinAgrees
  <2> SUFFICES ASSUME VerifyInv, NEW m \in got,
                      Contents(want) = Contents(m), NamedOnce(want.opts),
                      NEW p \in reported
               PROVE  p.field \in {"mtu", "captive_portal"}
    BY DEF TwinAgrees
  <2>1. reported = verifyRAs(want, m)
    BY Checked
  <2>2. PICK x \in Messages : want = RA(x[1], x[2], "ours")
    BY Checked
  <2>3. PICK y \in Messages : m = RA(y[1], y[2], "theirs")
    BY Checked
  <2>4. ASSUME NEW z \in Messages, NEW who
        PROVE  Contents(RA(z[1], z[2], who)) = <<z[1], z[2]>>
    <3>1. z[2] \in Seq(Option)
      BY MessageOptions
    <3>2. z[2] = [i \in DOMAIN z[2] |-> z[2][i]]
      BY <3>1
    <3>3. /\ RA(z[1], z[2], who).base = z[1]
          /\ RA(z[1], z[2], who).opts = OptsOf(z[2], who)
      BY MessageOptions
    <3>4. [i \in DOMAIN OptsOf(z[2], who) |-> OptsOf(z[2], who)[i].v]
            = [i \in DOMAIN z[2] |-> z[2][i]]
      BY DEF OptsOf
    <3> QED
      BY <3>2, <3>3, <3>4, Zenon DEF Contents
  <2>5. x[1] = y[1] /\ x[2] = y[2]
    BY <2>2, <2>3, <2>4
  <2>6. want.opts = OptsOf(x[2], "ours")
    BY <2>2, MessageOptions
  <2>7. p \in verifyRAs(RA(x[1], x[2], "ours"), RA(x[1], x[2], "theirs"))
    BY <2>1, <2>2, <2>3, <2>5
  <2> QED
    BY <2>6, <2>7, TwinProblems
<1> QED
  BY <1>1, VerifyInvariant, PTL

-----------------------------------------------------------------------------
(* What a host learns last.                                                *)

(* The positions SaidLast takes facts from.                                *)
LEMMA LastAt ==
  ASSUME NEW s, NEW f
  PROVE  f \in SaidLast(s)
           <=> \E i \in DOMAIN s :
                 /\ f \in s[i]
                 /\ \A j \in (i + 1)..Len(s) : \A g \in s[j] : g[1] # f[1]
<1> DEFINE Last(i) == {h \in s[i] : \A j \in (i + 1)..Len(s) :
                                     \A g \in s[j] : g[1] # h[1]}
<1>1. SaidLast(s) = UNION {Last(i) : i \in DOMAIN s}
  BY DEF SaidLast
<1>2. ASSUME NEW i
      PROVE  f \in Last(i)
               <=> /\ f \in s[i]
                   /\ \A j \in (i + 1)..Len(s) : \A g \in s[j] : g[1] # f[1]
  BY Zenon
<1> HIDE DEF Last
<1>3. f \in SaidLast(s) <=> \E i \in DOMAIN s : f \in Last(i)
  BY <1>1
<1> QED
  BY <1>2, <1>3, Zenon

(* A fact is last of two messages if the second says it last, or the first *)
(* does and the second says nothing of its parameter.                      *)
LEMMA LastOfTwo ==
  ASSUME NEW S, NEW s \in Seq(S), NEW t \in Seq(S), NEW f
  PROVE  f \in SaidLast(s \o t)
           <=> \/ f \in SaidLast(t)
               \/ /\ f \in SaidLast(s)
                  /\ \A j \in DOMAIN t : \A g \in t[j] : g[1] # f[1]
<1> DEFINE u == s \o t
<1>1. /\ Len(s) \in Nat /\ DOMAIN s = 1..Len(s)
      /\ Len(t) \in Nat /\ DOMAIN t = 1..Len(t)
      /\ Len(u) = Len(s) + Len(t) /\ DOMAIN u = 1..Len(u)
      /\ \A i \in 1..Len(s) : u[i] = s[i]
      /\ \A i \in 1..Len(t) : u[Len(s) + i] = t[i]
  <2>1. u \in Seq(S) /\ Len(u) = Len(s) + Len(t)
    BY ConcatProperties
  <2>2. /\ Len(s) \in Nat /\ DOMAIN s = 1..Len(s)
        /\ Len(t) \in Nat /\ DOMAIN t = 1..Len(t)
        /\ DOMAIN u = 1..Len(u)
    BY <2>1, LenProperties
  <2>3. \A i \in 1..(Len(s) + Len(t)) : u[i] = IF i <= Len(s) THEN s[i] ELSE t[i - Len(s)]
    BY ConcatProperties
  <2> HIDE DEF u
  <2>4. \A i \in 1..Len(s) : u[i] = s[i]
    BY <2>2, <2>3
  <2>5. ASSUME NEW i \in 1..Len(t) PROVE u[Len(s) + i] = t[i]
    <3>1. /\ Len(s) + i \in 1..(Len(s) + Len(t)) /\ ~(Len(s) + i <= Len(s))
          /\ (Len(s) + i) - Len(s) = i
      BY <2>2
    <3> QED
      BY <2>3, <3>1
  <2> QED
    BY <2>1, <2>2, <2>4, <2>5
<1> HIDE DEF u
<1>2. ASSUME f \in SaidLast(t) PROVE f \in SaidLast(u)
  <2>1. PICK i \in DOMAIN t :
          f \in t[i] /\ \A j \in (i + 1)..Len(t) : \A g \in t[j] : g[1] # f[1]
    BY <1>2, LastAt
  <2>2. Len(s) + i \in DOMAIN u /\ f \in u[Len(s) + i]
    BY <1>1, <2>1
  <2>3. ASSUME NEW j \in (Len(s) + i + 1)..Len(u), NEW g \in u[j]
        PROVE  g[1] # f[1]
    <3>1. j - Len(s) \in 1..Len(t) /\ j - Len(s) \in (i + 1)..Len(t) /\ Len(s) + (j - Len(s)) = j
      BY <1>1
    <3>2. u[j] = t[j - Len(s)]
      BY <1>1, <3>1
    <3> QED
      BY <2>1, <3>1, <3>2
  <2> QED
    BY <2>2, <2>3, LastAt
<1>3. ASSUME f \in SaidLast(s), \A j \in DOMAIN t : \A g \in t[j] : g[1] # f[1]
      PROVE  f \in SaidLast(u)
  <2>1. PICK i \in DOMAIN s :
          f \in s[i] /\ \A j \in (i + 1)..Len(s) : \A g \in s[j] : g[1] # f[1]
    BY <1>3, LastAt
  <2>2. i \in DOMAIN u /\ f \in u[i]
    BY <1>1, <2>1
  <2>3. ASSUME NEW j \in (i + 1)..Len(u), NEW g \in u[j]
        PROVE  g[1] # f[1]
    <3>1. CASE j <= Len(s)
      <4>1. j \in (i + 1)..Len(s) /\ u[j] = s[j]
        BY <1>1, <3>1
      <4> QED
        BY <2>1, <4>1
    <3>2. CASE ~(j <= Len(s))
      <4>1. j - Len(s) \in 1..Len(t) /\ Len(s) + (j - Len(s)) = j
        BY <1>1, <3>2
      <4>2. u[j] = t[j - Len(s)]
        BY <1>1, <4>1
      <4> QED
        BY <1>1, <1>3, <4>1, <4>2
    <3> QED
      BY <3>1, <3>2
  <2> QED
    BY <2>2, <2>3, LastAt
<1>4. ASSUME f \in SaidLast(u)
      PROVE  \/ f \in SaidLast(t)
             \/ /\ f \in SaidLast(s)
                /\ \A j \in DOMAIN t : \A g \in t[j] : g[1] # f[1]
  <2>1. PICK i \in DOMAIN u :
          f \in u[i] /\ \A j \in (i + 1)..Len(u) : \A g \in u[j] : g[1] # f[1]
    BY <1>4, LastAt
  <2>2. CASE i <= Len(s)
    <3>1. i \in DOMAIN s /\ f \in s[i]
      BY <1>1, <2>1, <2>2
    <3>2. \A j \in (i + 1)..Len(s) : \A g \in s[j] : g[1] # f[1]
      <4> TAKE j \in (i + 1)..Len(s)
      <4>1. j \in (i + 1)..Len(u) /\ u[j] = s[j]
        BY <1>1
      <4> QED
        BY <2>1, <4>1
    <3>3. \A j \in DOMAIN t : \A g \in t[j] : g[1] # f[1]
      <4> TAKE j \in DOMAIN t
      <4>1. Len(s) + j \in (i + 1)..Len(u) /\ u[Len(s) + j] = t[j]
        BY <1>1, <2>2
      <4> QED
        BY <2>1, <4>1
    <3> QED
      BY <3>1, <3>2, <3>3, LastAt
  <2>3. CASE ~(i <= Len(s))
    <3>1. i - Len(s) \in 1..Len(t) /\ Len(s) + (i - Len(s)) = i
      BY <1>1, <2>3
    <3>2. i - Len(s) \in DOMAIN t /\ f \in t[i - Len(s)]
      BY <1>1, <2>1, <3>1
    <3>3. \A j \in ((i - Len(s)) + 1)..Len(t) : \A g \in t[j] : g[1] # f[1]
      <4> TAKE j \in ((i - Len(s)) + 1)..Len(t)
      <4>1. Len(s) + j \in (i + 1)..Len(u) /\ u[Len(s) + j] = t[j]
        BY <1>1, <3>1
      <4> QED
        BY <2>1, <4>1
    <3> QED
      BY <3>2, <3>3, LastAt
  <2> QED
    BY <2>2, <2>3
<1> QED
  BY <1>2, <1>3, <1>4 DEF u

(* What s says last, t says last if it says anything of the parameter, and *)
(* the parameter is one that is compared.                                  *)
Confirms(s, t) ==
  \A f \in SaidLast(s) :
    f[1][1] \notin NotCompared /\ (\E j \in DOMAIN t : \E g \in t[j] : g[1] = f[1]) => f \in SaidLast(t)

(* Then the order of the messages makes no difference to those.            *)
LEMMA OrderFree ==
  ASSUME NEW S, NEW s \in Seq(S), NEW t \in Seq(S), Confirms(s, t), Confirms(t, s),
         NEW f, f[1][1] \notin NotCompared
  PROVE  f \in SaidLast(s \o t) <=> f \in SaidLast(t \o s)
<1>1. f \in SaidLast(s \o t)
               <=> \/ f \in SaidLast(t)
                   \/ /\ f \in SaidLast(s)
                      /\ \A j \in DOMAIN t : \A g \in t[j] : g[1] # f[1]
  BY LastOfTwo
<1>2. f \in SaidLast(t \o s)
               <=> \/ f \in SaidLast(s)
                   \/ /\ f \in SaidLast(t)
                      /\ \A j \in DOMAIN s : \A g \in s[j] : g[1] # f[1]
  BY LastOfTwo
<1> QED
  BY <1>1, <1>2, Zenon DEF Confirms

(* If all facts of a parameter are the same, it is learned last.           *)
LEMMA OnlyFact ==
  ASSUME NEW n \in Nat, NEW t, DOMAIN t = 1..n, Len(t) = n, NEW f,
         \A j \in DOMAIN t : \A g \in t[j] : g[1] = f[1] => g = f,
         \E j \in DOMAIN t : \E g \in t[j] : g[1] = f[1]
  PROVE  f \in SaidLast(t)
<1> DEFINE P == {j \in 1..n : \E g \in t[j] : g[1] = f[1]}
<1>1. P \subseteq 1..n /\ P # {}
  OBVIOUS
<1>2. PICK i \in P : \A j \in P : j <= i
  <2> HIDE DEF P
  <2> QED
    BY <1>1, LastPosition
<1>3. i \in DOMAIN t /\ f \in t[i]
  OBVIOUS
<1>4. ASSUME NEW j \in (i + 1)..Len(t), NEW g \in t[j] PROVE g[1] # f[1]
  <2>1. j \in 1..n /\ ~(j <= i)
    OBVIOUS
  <2>2. j \notin P
    BY <1>2, <2>1
  <2> QED
    BY <2>1, <2>2
<1> QED
  BY <1>3, <1>4, LastAt

-----------------------------------------------------------------------------
(* Facts and the parameters they are about.                                *)

(* What an option says, by its kind.                                       *)
LEMMA FactsOf ==
  ASSUME NEW o \in Option
  PROVE  /\ o.kind \in {"mtu", "cp", "pi", "ri", "pref64", "rdnss", "dnssl"}
         /\ o.kind = "pi" => Facts(o) = {<<<<"preferred", o.prefix>>, o.preferred>>,
                                         <<<<"valid", o.prefix>>, o.valid>>,
                                         <<<<"onlink", o.prefix>>, o.onlink>>,
                                         <<<<"autonomous", o.prefix>>, o.autonomous>>}
         /\ o.kind = "pref64" => Facts(o) = {<<<<"pref64", o.prefix>>, o.lifetime>>}
         /\ o.kind = "ri" =>
              Facts(o) = {<<<<"route", o.prefix, o.preference>>, o.lifetime>>}
         /\ o.kind \in {"rdnss", "dnssl"} =>
              Facts(o) = {<<<<o.kind, o.names[i]>>, o.lifetime>> : i \in DOMAIN o.names}
         /\ o.kind \in {"mtu", "cp"} => Facts(o) = {<<<<o.kind>>, o.value>>}
<1>1. o.kind \in {"mtu", "cp", "pi", "ri", "pref64", "rdnss", "dnssl"}
  BY DEF Option
<1> QED
  BY <1>1 DEF Facts

(* The parameter of an option's fact tells its kind.                       *)
Tagged(o, key) ==
  \/ /\ o.kind = "pi"
     /\ \E x \in {"preferred", "valid", "onlink", "autonomous"} : key = <<x, o.prefix>>
  \/ o.kind = "pref64" /\ key = <<"pref64", o.prefix>>
  \/ o.kind = "ri" /\ key = <<"route", o.prefix, o.preference>>
  \/ o.kind \in {"rdnss", "dnssl"} /\ \E i \in DOMAIN o.names : key = <<o.kind, o.names[i]>>
  \/ o.kind \in {"mtu", "cp"} /\ key = <<o.kind>>

(* The facts of an option are about these.                                 *)
LEMMA FactTagged ==
  ASSUME NEW o \in Option, NEW f \in Facts(o)
  PROVE  Tagged(o, f[1])
<1>1. CASE o.kind = "pi"
  BY <1>1, FactsOf DEF Tagged
<1>2. CASE o.kind = "ri"
  BY <1>2, FactsOf DEF Tagged
<1>3. CASE o.kind \in {"rdnss", "dnssl"}
  BY <1>3, FactsOf DEF Tagged
<1>4. CASE o.kind \in {"mtu", "cp"}
  BY <1>4, FactsOf DEF Tagged
<1>5. CASE o.kind = "pref64"
  BY <1>5, FactsOf DEF Tagged
<1> QED
  BY <1>1, <1>2, <1>3, <1>4, <1>5, FactsOf

(* Options that say something of the same parameter.                       *)
LEMMA SameTag ==
  ASSUME NEW o, NEW p, NEW key, Tagged(o, key), Tagged(p, key)
  PROVE  /\ o.kind = p.kind
         /\ o.kind \in {"pi", "ri"} => o.prefix = p.prefix
         /\ o.kind = "ri" => o.preference = p.preference
<1>1. o.kind = "pi" => key[1] \in {"preferred", "valid", "onlink", "autonomous"} /\ key[2] = o.prefix
  BY DEF Tagged
<1>2. p.kind = "pi" => key[1] \in {"preferred", "valid", "onlink", "autonomous"} /\ key[2] = p.prefix
  BY DEF Tagged
<1>3. o.kind = "ri" => key[1] = "route" /\ key[2] = o.prefix /\ key[3] = o.preference
  BY DEF Tagged
<1>4. p.kind = "ri" => key[1] = "route" /\ key[2] = p.prefix /\ key[3] = p.preference
  BY DEF Tagged
<1>5. o.kind \in {"pref64", "rdnss", "dnssl", "mtu", "cp"} => key[1] = o.kind
  BY DEF Tagged
<1>6. p.kind \in {"pref64", "rdnss", "dnssl", "mtu", "cp"} => key[1] = p.kind
  BY DEF Tagged
<1>7. /\ o.kind \in {"mtu", "cp", "pi", "ri", "pref64", "rdnss", "dnssl"}
      /\ p.kind \in {"mtu", "cp", "pi", "ri", "pref64", "rdnss", "dnssl"}
  BY DEF Tagged
<1> QED
  BY <1>1, <1>2, <1>3, <1>4, <1>5, <1>6, <1>7

(* The base fields that two RAs without problems share.                    *)
SameBase(x, y) ==
  /\ x.hop = y.hop /\ x.managed = y.managed /\ x.other = y.other
  /\ checkDurations(x.reachable, y.reachable)
  /\ checkDurations(x.retrans, y.retrans)

(* The parameters of the base fields are no option's.                      *)
LEMMA BaseTag ==
  ASSUME NEW x, NEW f \in BaseFacts(x), NEW o, Tagged(o, f[1])
  PROVE  FALSE
<1>1. f[1][1] \in {"hop", "managed", "other", "reachable", "retrans"}
  BY DEF BaseFacts
<1>2. f[1][1] \in {"preferred", "valid", "onlink", "autonomous", "pref64", "route",
                     "rdnss", "dnssl", "mtu", "cp"}
  BY DEF Tagged
<1> QED
  BY <1>1, <1>2

(* Facts of base fields that raise no problem.                             *)
LEMMA SameBaseFact ==
  ASSUME NEW x, NEW y, SameBase(x, y), NEW f \in BaseFacts(x), NEW g \in BaseFacts(y),
         f[1] = g[1]
  PROVE  f = g
<1>1. ASSUME NEW z, NEW h \in BaseFacts(z)
      PROVE  \/ h = <<<<"hop">>, z.hop>>
             \/ h = <<<<"managed">>, z.managed>>
             \/ h = <<<<"other">>, z.other>>
             \/ h = <<<<"reachable">>, z.reachable>> /\ z.reachable # 0
             \/ h = <<<<"retrans">>, z.retrans>> /\ z.retrans # 0
  <2>1. \A u, v : <<u, v>>[2] = v
    OBVIOUS
  <2> QED
    BY <1>1, <2>1 DEF BaseFacts
<1>2. \A u, v : <<u, v>>[1] = u /\ <<u>>[1] = u
  OBVIOUS
<1>3. CASE f = <<<<"hop">>, x.hop>>
  <2>1. f[1][1] = "hop"
    BY <1>2, <1>3
  <2>2. g = <<<<"hop">>, y.hop>>
    BY <1>1, <1>2, <2>1
  <2> QED
    BY <1>3, <2>2, Zenon DEF SameBase
<1>4. CASE f = <<<<"managed">>, x.managed>>
  <2>1. f[1][1] = "managed"
    BY <1>2, <1>4, Zenon
  <2>2. g = <<<<"managed">>, y.managed>>
    BY <1>1, <1>2, <2>1
  <2> QED
    BY <1>4, <2>2, Zenon DEF SameBase
<1>5. CASE f = <<<<"other">>, x.other>>
  <2>1. f[1][1] = "other"
    BY <1>2, <1>5, Zenon
  <2>2. g = <<<<"other">>, y.other>>
    BY <1>1, <1>2, <2>1
  <2> QED
    BY <1>5, <2>2, Zenon DEF SameBase
<1>6. CASE f = <<<<"reachable">>, x.reachable>> /\ x.reachable # 0
  <2>1. f[1][1] = "reachable"
    BY <1>2, <1>6
  <2>2. g = <<<<"reachable">>, y.reachable>> /\ y.reachable # 0
    BY <1>1, <1>2, <2>1
  <2> QED
    BY <1>6, <2>2, Zenon DEF SameBase, checkDurations
<1>7. CASE f = <<<<"retrans">>, x.retrans>> /\ x.retrans # 0
  <2>1. f[1][1] = "retrans"
    BY <1>2, <1>7
  <2>2. g = <<<<"retrans">>, y.retrans>> /\ y.retrans # 0
    BY <1>1, <1>2, <2>1
  <2> QED
    BY <1>7, <2>2, Zenon DEF SameBase, checkDurations
<1> QED
  BY <1>1, <1>3, <1>4, <1>5, <1>6, <1>7

-----------------------------------------------------------------------------
(* RAs that the check finds no problem with.                               *)

(* Two lists of options of a kind that are the same, option by option.     *)
SameLists(kind, vs, ws) ==
  /\ Len(Slots(kind, vs)) = Len(Slots(kind, ws))
  /\ \A k \in DOMAIN Slots(kind, vs) :
       /\ vs[Slots(kind, vs)[k]].names = ws[Slots(kind, ws)[k]].names
       /\ vs[Slots(kind, vs)[k]].lifetime = ws[Slots(kind, ws)[k]].lifetime

(* Options of two RAs that raise no problem.                               *)
SameOptions(vs, ws) ==
  \A i \in DOMAIN vs : \A j \in DOMAIN ws :
    vs[i].kind = ws[j].kind =>
      /\ vs[i].kind \notin {"mtu", "cp"}
      /\ vs[i].kind = "pi" /\ vs[i].prefix = ws[j].prefix =>
           vs[i].preferred = ws[j].preferred /\ vs[i].valid = ws[j].valid
      /\ vs[i].kind = "ri" /\ vs[i].prefix = ws[j].prefix
           /\ vs[i].preference = ws[j].preference
           => vs[i].lifetime = ws[j].lifetime
      /\ vs[i].kind \in {"rdnss", "dnssl"} => SameLists(vs[i].kind, vs, ws)

(* What the checks leave when they report nothing.                         *)
LEMMA NoProblem ==
  ASSUME NEW m \in Messages, NEW w \in Messages, NEW who, NEW other, who # other,
         verifyRAs(RA(m[1], m[2], who), RA(w[1], w[2], other)) = {}
  PROVE  SameBase(m[1], w[1]) /\ SameOptions(m[2], w[2])
<1> DEFINE vs == m[2]
           ws == w[2]
           A == OptsOf(vs, who)
           B == OptsOf(ws, other)
<1>1. /\ vs \in Seq(Option) /\ ws \in Seq(Option)
      /\ RA(m[1], m[2], who).opts = A /\ RA(m[1], m[2], who).base = m[1]
      /\ RA(w[1], w[2], other).opts = B /\ RA(w[1], w[2], other).base = w[1]
  BY MessageOptions
<1> HIDE DEF vs, ws, A, B
<1>2. /\ checkRAs(m[1], w[1]) = {}
      /\ checkFirst(A, B, "mtu", "mtu") = {}
      /\ checkPrefixes(A, B) = {}
      /\ checkRoutes(A, B) = {}
      /\ checkLists(A, B, "rdnss", "rdnss_count", "rdnss_lifetime", "rdnss_servers") = {}
      /\ checkLists(A, B, "dnssl", "dnssl_count", "dnssl_lifetime", "dnssl_domain_names") = {}
      /\ checkFirst(A, B, "cp", "captive_portal") = {}
  BY <1>1 DEF verifyRAs, checkMTUs, checkCaptivePortal
<1>3. \A c, f : If(c, f) = {} => ~c
  BY DEF If
<1>4. SameBase(m[1], w[1])
  <2>1. /\ If(m[1].hop # w[1].hop, "hop_limit") = {}
        /\ If(m[1].managed # w[1].managed, "managed_configuration") = {}
        /\ If(m[1].other # w[1].other, "other_configuration") = {}
        /\ If(~checkDurations(m[1].reachable, w[1].reachable), "reachable_time") = {}
        /\ If(~checkDurations(m[1].retrans, w[1].retrans), "retransmit_timer") = {}
    BY <1>2 DEF checkRAs
  <2> QED
    BY <2>1, Zenon DEF If, SameBase
<1>5. ASSUME NEW i \in DOMAIN vs, NEW j \in DOMAIN ws, vs[i].kind = ws[j].kind
      PROVE  /\ vs[i].kind \notin {"mtu", "cp"}
             /\ vs[i].kind = "pi" /\ vs[i].prefix = ws[j].prefix =>
                  vs[i].preferred = ws[j].preferred /\ vs[i].valid = ws[j].valid
             /\ vs[i].kind = "ri" /\ vs[i].prefix = ws[j].prefix
                  /\ vs[i].preference = ws[j].preference
                  => vs[i].lifetime = ws[j].lifetime
             /\ vs[i].kind \in {"rdnss", "dnssl"} => SameLists(vs[i].kind, vs, ws)
  <2> DEFINE kind == vs[i].kind
             a == pick(kind, A)
             b == pick(kind, B)
             e == Slots(kind, vs)
             h == Slots(kind, ws)
  <2>1. /\ DOMAIN a = DOMAIN e /\ DOMAIN e = 1..Len(e) /\ Len(e) \in Nat
        /\ Len(a) = Len(e) /\ (a = <<>> <=> Len(e) = 0)
        /\ Len(e) # 0 => Head(a) = a[1]
        /\ \A k \in DOMAIN e : a[k].v = vs[e[k]] /\ a[k].at = <<who, e[k]>>
        /\ \E k \in DOMAIN e : e[k] = i
    <3> HIDE DEF kind
    <3>1. vs[i].kind = kind
      BY DEF kind
    <3> QED
      BY <1>1, <3>1, PickAt DEF A
  <2>2. /\ DOMAIN b = DOMAIN h /\ DOMAIN h = 1..Len(h) /\ Len(h) \in Nat
        /\ Len(b) = Len(h) /\ (b = <<>> <=> Len(h) = 0)
        /\ Len(h) # 0 => Head(b) = b[1]
        /\ \A k \in DOMAIN h : b[k].v = ws[h[k]] /\ b[k].at = <<other, h[k]>>
        /\ \E k \in DOMAIN h : h[k] = j
    <3> HIDE DEF kind
    <3>1. ws[j].kind = kind
      BY <1>5 DEF kind
    <3> QED
      BY <1>1, <3>1, PickAt DEF B
  <2>3. vs[i].kind = kind
    OBVIOUS
  <2> HIDE DEF kind, a, b, e, h
  <2>4. PICK k \in DOMAIN e : e[k] = i
    BY <2>1
  <2>5. PICK l \in DOMAIN h : h[l] = j
    BY <2>2
  <2>6. a[k].v = vs[i] /\ b[l].v = ws[j] /\ k \in DOMAIN a /\ l \in DOMAIN b
    BY <2>1, <2>2, <2>4, <2>5
  <2>7. a # <<>> /\ b # <<>>
    BY <2>1, <2>2, <2>4, <2>5
  <2>8. kind \notin {"mtu", "cp"}
    <3>1. 1 \in DOMAIN e /\ 1 \in DOMAIN h
      BY <2>1, <2>2, <2>4, <2>5
    <3>2. a[1].at[1] = who /\ b[1].at[1] = other
      BY <2>1, <2>2, <3>1
    <3>3. Head(a) = a[1] /\ Head(b) = b[1]
      BY <2>1, <2>2, <2>7
    <3>4. Head(a) # Head(b)
      BY <3>2, <3>3
    <3>5. \A field : checkFirst(A, B, kind, field) # {}
      BY <2>7, <3>4 DEF checkFirst, If, a, b
    <3> QED
      BY <1>2, <3>5
  <2>9. ASSUME kind = "pi", vs[i].prefix = ws[j].prefix
        PROVE  vs[i].preferred = ws[j].preferred /\ vs[i].valid = ws[j].valid
    <3> DEFINE x == Problem("prefix_information_preferred_lifetime", vs[i].prefix)
               y == Problem("prefix_information_valid_lifetime", vs[i].prefix)
    <3>1. vs[i].preferred # ws[j].preferred => x \in checkPrefixes(A, B)
      <4>1. HAVE vs[i].preferred # ws[j].preferred
      <4>2. a = pick("pi", A) /\ b = pick("pi", B)
        BY <2>9 DEF a, b
      <4>3. \E u \in DOMAIN a : \E v \in DOMAIN b :
              /\ a[u].v.prefix = b[v].v.prefix
              /\ a[u].v.preferred # b[v].v.preferred
              /\ x = Problem("prefix_information_preferred_lifetime", a[u].v.prefix)
        BY <2>6, <2>9, <4>1, Zenon
      <4> HIDE DEF x, y
      <4> QED
        BY <4>2, <4>3, PrefixProblems
    <3>2. vs[i].valid # ws[j].valid => y \in checkPrefixes(A, B)
      <4>1. HAVE vs[i].valid # ws[j].valid
      <4>2. a = pick("pi", A) /\ b = pick("pi", B)
        BY <2>9 DEF a, b
      <4>3. \E u \in DOMAIN a : \E v \in DOMAIN b :
              /\ a[u].v.prefix = b[v].v.prefix
              /\ a[u].v.valid # b[v].v.valid
              /\ y = Problem("prefix_information_valid_lifetime", a[u].v.prefix)
        BY <2>6, <2>9, <4>1, Zenon
      <4> HIDE DEF x, y
      <4> QED
        BY <4>2, <4>3, PrefixProblems
    <3> QED
      BY <1>2, <3>1, <3>2
  <2>10. ASSUME kind = "ri", vs[i].prefix = ws[j].prefix,
                vs[i].preference = ws[j].preference
         PROVE  vs[i].lifetime = ws[j].lifetime
    <3> DEFINE x == Problem("route_information_lifetime", vs[i].prefix)
    <3>1. vs[i].lifetime # ws[j].lifetime => x \in checkRoutes(A, B)
      <4>1. HAVE vs[i].lifetime # ws[j].lifetime
      <4>2. a = pick("ri", A) /\ b = pick("ri", B)
        BY <2>10 DEF a, b
      <4>3. \E u \in DOMAIN a : \E v \in DOMAIN b :
              /\ a[u].v.prefix = b[v].v.prefix
              /\ a[u].v.preference = b[v].v.preference
              /\ a[u].v.lifetime # b[v].v.lifetime
              /\ x = Problem("route_information_lifetime", a[u].v.prefix)
        BY <2>6, <2>10, <4>1, Zenon
      <4> HIDE DEF x
      <4> QED
        BY <4>2, <4>3, RouteProblems
    <3> QED
      BY <1>2, <3>1
  <2>11. ASSUME kind \in {"rdnss", "dnssl"}
         PROVE  SameLists(kind, vs, ws)
    <3>1. PICK c, f, g : checkLists(A, B, kind, c, f, g) = {}
      BY <1>2, <2>11
    <3>2. checkLists(A, B, kind, c, f, g) =
            IF Len(a) # Len(b) THEN {Problem(c, "none")}
            ELSE If(\E x \in DOMAIN a : a[x].v.lifetime # b[x].v.lifetime, f)
                 \cup If(\E x \in DOMAIN a : a[x].v.names # b[x].v.names, g)
      BY <2>7, Zenon DEF checkLists, a, b
    <3>3. Len(a) = Len(b)
      BY <3>1, <3>2
    <3>4. /\ If(\E x \in DOMAIN a : a[x].v.lifetime # b[x].v.lifetime, f) = {}
          /\ If(\E x \in DOMAIN a : a[x].v.names # b[x].v.names, g) = {}
      BY <3>1, <3>2, <3>3
    <3>5. \A x \in DOMAIN a : a[x].v.lifetime = b[x].v.lifetime /\ a[x].v.names = b[x].v.names
      BY <3>4, Zenon DEF If
    <3>6. Len(e) = Len(h) /\ DOMAIN e = DOMAIN h
      BY <2>1, <2>2, <3>3
    <3>7. \A x \in DOMAIN e : /\ vs[e[x]].names = ws[h[x]].names
                              /\ vs[e[x]].lifetime = ws[h[x]].lifetime
      <4> TAKE x \in DOMAIN e
      <4>1. a[x].v = vs[e[x]] /\ b[x].v = ws[h[x]] /\ x \in DOMAIN a
        BY <2>1, <2>2, <3>6
      <4> QED
        BY <3>5, <4>1, Zenon
    <3> QED
      BY <3>6, <3>7, Zenon DEF SameLists, e, h
  <2> QED
    BY <2>3, <2>8, <2>9, <2>10, <2>11, Zenon
<1> QED
  BY <1>4, <1>5, Zenon DEF SameOptions, vs, ws

(* What an RA says: the base fields first, then its options.               *)
LEMMA SaidAt ==
  ASSUME NEW m \in Messages, NEW who
  PROVE  LET s == Said(RA(m[1], m[2], who))
         IN /\ \E S : s \in Seq(S)
            /\ Len(m[2]) \in Nat /\ DOMAIN m[2] = 1..Len(m[2])
            /\ Len(s) = Len(m[2]) + 1 /\ DOMAIN s = 1..(Len(m[2]) + 1)
            /\ s[1] = BaseFacts(m[1])
            /\ \A i \in DOMAIN m[2] : s[i + 1] = Facts(m[2][i])
<1> DEFINE vs == m[2]
           A == OptsOf(vs, who)
           x == BaseFacts(m[1])
           t == [i \in DOMAIN vs |-> Facts(vs[i])]
           S == {x} \cup {t[i] : i \in DOMAIN vs}
<1>1. /\ vs \in Seq(Option)
      /\ RA(m[1], m[2], who).opts = A /\ RA(m[1], m[2], who).base = m[1]
  BY MessageOptions
<1>2. Len(vs) \in Nat /\ DOMAIN vs = 1..Len(vs)
  BY <1>1
<1>3. [i \in DOMAIN A |-> Facts(A[i].v)] = t
  BY DEF OptsOf
<1>4. t = [i \in 1..Len(vs) |-> t[i]] /\ \A i \in 1..Len(vs) : t[i] \in S
  BY <1>2
<1>5. \A i \in DOMAIN vs : t[i] = Facts(vs[i])
  OBVIOUS
<1>6. x \in S
  OBVIOUS
<1> HIDE DEF vs, A, x, t, S
<1>7. Said(RA(m[1], m[2], who)) = <<x>> \o t
  BY <1>1, <1>3, Zenon DEF Said, x
<1>8. t \in Seq(S) /\ Len(t) = Len(vs)
  BY <1>2, <1>4
<1>9. <<x>> \in Seq(S) /\ Len(<<x>>) = 1 /\ <<x>>[1] = x
  BY <1>6
<1> DEFINE u == <<x>> \o t
<1>10. /\ u \in Seq(S) /\ Len(u) = 1 + Len(t)
       /\ \A i \in 1..(1 + Len(t)) : u[i] = IF i <= 1 THEN <<x>>[i] ELSE t[i - 1]
  BY <1>8, <1>9, ConcatProperties
<1> HIDE DEF u
<1>11. Len(u) = Len(vs) + 1 /\ DOMAIN u = 1..(Len(vs) + 1)
  BY <1>2, <1>8, <1>10
<1>12. u[1] = x
  BY <1>2, <1>8, <1>9, <1>10
<1>13. ASSUME NEW i \in DOMAIN vs PROVE u[i + 1] = Facts(vs[i])
  <2>1. i + 1 \in 1..(1 + Len(t)) /\ ~(i + 1 <= 1) /\ (i + 1) - 1 = i
    BY <1>2, <1>8
  <2>2. u[i + 1] = t[i]
    BY <1>10, <2>1
  <2> QED
    BY <1>5, <2>2
<1> QED
  BY <1>2, <1>7, <1>10, <1>11, <1>12, <1>13, Zenon DEF u, vs, x

(* Of every fact, where it comes from.                                     *)
LEMMA SaidBy ==
  ASSUME NEW m \in Messages, NEW who, NEW j \in DOMAIN Said(RA(m[1], m[2], who)),
         NEW g \in Said(RA(m[1], m[2], who))[j]
  PROVE  \/ j = 1 /\ g \in BaseFacts(m[1])
         \/ /\ j # 1 /\ j - 1 \in DOMAIN m[2]
            /\ m[2][j - 1] \in Option /\ g \in Facts(m[2][j - 1])
            /\ Tagged(m[2][j - 1], g[1])
<1> DEFINE s == Said(RA(m[1], m[2], who))
           vs == m[2]
<1>1. /\ Len(vs) \in Nat /\ DOMAIN vs = 1..Len(vs) /\ DOMAIN s = 1..(Len(vs) + 1)
      /\ s[1] = BaseFacts(m[1])
      /\ \A i \in DOMAIN vs : s[i + 1] = Facts(vs[i])
  BY SaidAt
<1>2. vs \in Seq(Option)
  BY MessageOptions
<1>3. j \in DOMAIN s /\ g \in s[j]
  OBVIOUS
<1> HIDE DEF s, vs
<1>4. CASE j = 1
  BY <1>1, <1>3, <1>4
<1>5. CASE j # 1
  <2>1. j - 1 \in DOMAIN vs /\ (j - 1) + 1 = j
    BY <1>1, <1>3, <1>5
  <2>2. g \in Facts(vs[j - 1]) /\ vs[j - 1] \in Option
    BY <1>1, <1>2, <1>3, <2>1
  <2>3. Tagged(vs[j - 1], g[1])
    BY <2>2, FactTagged
  <2> QED
    BY <1>5, <2>1, <2>2, <2>3 DEF vs
<1> QED
  BY <1>4, <1>5

(* Options of the two RAs that say something of the same parameter, lists  *)
(* aside, say the same.                                                    *)
LEMMA SameFact ==
  ASSUME NEW o \in Option, NEW p \in Option, NEW f \in Facts(o), NEW g \in Facts(p),
         f[1] = g[1], f[1][1] \notin NotCompared, o.kind = p.kind, o.kind \in {"pi", "ri"},
         o.kind = "pi" => o.preferred = p.preferred /\ o.valid = p.valid,
         o.kind = "ri" => o.lifetime = p.lifetime
  PROVE  f = g
<1>1. CASE o.kind = "pi"
  <2>1. /\ f \in {<<<<"preferred", o.prefix>>, o.preferred>>,
                  <<<<"valid", o.prefix>>, o.valid>>}
        /\ g \in {<<<<"preferred", p.prefix>>, p.preferred>>,
                  <<<<"valid", p.prefix>>, p.valid>>}
    BY <1>1, FactsOf DEF NotCompared
  <2> QED
    BY <1>1, <2>1
<1>2. CASE o.kind = "ri"
  <2>1. /\ f = <<<<"route", o.prefix, o.preference>>, o.lifetime>>
        /\ g = <<<<"route", p.prefix, p.preference>>, p.lifetime>>
    BY <1>2, FactsOf
  <2> QED
    BY <1>2, <2>1
<1> QED
  BY <1>1, <1>2

(* Lists that are the same option by option: what was said last in one of  *)
(* them was said last in the other, at the same place among the lists.     *)
LEMMA ListsConfirm ==
  ASSUME NEW m \in Messages, NEW w \in Messages, NEW who, NEW other,
         NEW f, NEW i \in DOMAIN m[2], f \in Facts(m[2][i]),
         m[2][i].kind \in {"rdnss", "dnssl"}, SameLists(m[2][i].kind, m[2], w[2]),
         \A j \in (i + 2)..Len(Said(RA(m[1], m[2], who))) :
           \A g \in Said(RA(m[1], m[2], who))[j] : g[1] # f[1]
  PROVE  f \in SaidLast(Said(RA(w[1], w[2], other)))
<1> DEFINE vs == m[2]
           ws == w[2]
           s == Said(RA(m[1], m[2], who))
           t == Said(RA(w[1], w[2], other))
           kind == vs[i].kind
           e == Slots(kind, vs)
           h == Slots(kind, ws)
<1>1. vs \in Seq(Option) /\ ws \in Seq(Option)
  BY MessageOptions
<1>2. /\ Len(vs) \in Nat /\ DOMAIN vs = 1..Len(vs) /\ Len(s) = Len(vs) + 1
      /\ \A k \in DOMAIN vs : s[k + 1] = Facts(vs[k])
  BY SaidAt
<1>3. /\ Len(ws) \in Nat /\ DOMAIN ws = 1..Len(ws)
      /\ Len(t) = Len(ws) + 1 /\ DOMAIN t = 1..(Len(ws) + 1)
      /\ \A k \in DOMAIN ws : t[k + 1] = Facts(ws[k])
  BY SaidAt
<1>4. \A j \in DOMAIN t : \A g \in t[j] :
        j # 1 => j - 1 \in DOMAIN ws /\ Tagged(ws[j - 1], g[1])
  BY SaidBy
<1>5. /\ \A j \in (i + 2)..Len(s) : \A g \in s[j] : g[1] # f[1]
      /\ i \in DOMAIN vs /\ f \in Facts(vs[i]) /\ vs[i].kind = kind
      /\ kind \in {"rdnss", "dnssl"} /\ SameLists(kind, vs, ws)
  OBVIOUS
<1> HIDE DEF vs, ws, s, t, kind
<1>6. /\ DOMAIN e = 1..Len(e) /\ Len(e) \in Nat
      /\ \A k \in DOMAIN e : e[k] \in DOMAIN vs /\ vs[e[k]].kind = kind
      /\ \A k, l \in DOMAIN e : k < l => e[k] < e[l]
      /\ \A j \in DOMAIN vs : vs[j].kind = kind => \E k \in DOMAIN e : e[k] = j
  BY <1>1, SlotOrder
<1>7. /\ DOMAIN h = 1..Len(h) /\ Len(h) \in Nat
      /\ \A k \in DOMAIN h : h[k] \in DOMAIN ws /\ ws[h[k]].kind = kind
      /\ \A k, l \in DOMAIN h : k < l => h[k] < h[l]
      /\ \A j \in DOMAIN ws : ws[j].kind = kind => \E k \in DOMAIN h : h[k] = j
  BY <1>1, SlotOrder
<1>8. /\ Len(e) = Len(h)
      /\ \A k \in DOMAIN e : vs[e[k]].names = ws[h[k]].names
                             /\ vs[e[k]].lifetime = ws[h[k]].lifetime
  BY <1>5 DEF SameLists
<1> HIDE DEF e, h
<1>9. DOMAIN e = DOMAIN h
  BY <1>6, <1>7, <1>8
<1>10. ASSUME NEW k \in DOMAIN e PROVE Facts(vs[e[k]]) = Facts(ws[h[k]])
  <2> DEFINE o == vs[e[k]]
             p == ws[h[k]]
  <2>1. /\ o \in Option /\ p \in Option /\ o.kind = kind /\ p.kind = kind
        /\ o.names = p.names /\ o.lifetime = p.lifetime
    BY <1>1, <1>6, <1>7, <1>8, <1>9
  <2> HIDE DEF o, p
  <2>2. /\ Facts(o) = {<<<<o.kind, o.names[x]>>, o.lifetime>> : x \in DOMAIN o.names}
        /\ Facts(p) = {<<<<p.kind, p.names[x]>>, p.lifetime>> : x \in DOMAIN p.names}
    BY <1>5, <2>1, FactsOf
  <2>3. Facts(o) = Facts(p)
    BY <2>1, <2>2, Zenon
  <2> QED
    BY <2>3 DEF o, p
<1>11. PICK k \in DOMAIN e : e[k] = i
  BY <1>5, <1>6
<1>12. h[k] + 1 \in DOMAIN t /\ f \in t[h[k] + 1]
  <2>1. h[k] \in DOMAIN ws /\ f \in Facts(ws[h[k]])
    BY <1>5, <1>7, <1>9, <1>10, <1>11
  <2>2. t[h[k] + 1] = Facts(ws[h[k]])
    BY <1>3, <2>1
  <2>3. h[k] + 1 \in DOMAIN t
    BY <1>3, <2>1
  <2> QED
    BY <2>1, <2>2, <2>3
<1>13. Tagged(vs[i], f[1])
  BY <1>1, <1>5, FactTagged
<1>14. ASSUME NEW j \in ((h[k] + 1) + 1)..Len(t), NEW g \in t[j], g[1] = f[1]
       PROVE  FALSE
  <2>1. /\ h[k] \in DOMAIN ws /\ h[k] \in Nat /\ j \in DOMAIN t /\ j # 1
        /\ h[k] < j - 1
    BY <1>3, <1>7, <1>9
  <2>2. j - 1 \in DOMAIN ws /\ Tagged(ws[j - 1], f[1])
    BY <1>4, <1>14, <2>1
  <2>3. ws[j - 1].kind = kind
    BY <1>5, <1>13, <2>2, SameTag
  <2>4. PICK l \in DOMAIN h : h[l] = j - 1
    BY <1>7, <2>2, <2>3
  <2>5. k < l
    <3>1. k \in Nat /\ l \in Nat /\ k \in DOMAIN h
      BY <1>7, <1>9
    <3>2. h[l] \in Nat /\ h[k] < h[l]
      BY <1>3, <1>7, <2>1, <2>4
    <3>3. ~(l < k) /\ l # k
      BY <1>7, <2>1, <3>1, <3>2
    <3> QED
      BY <3>1, <3>3
  <2>6. e[l] \in DOMAIN vs /\ i < e[l]
    BY <1>6, <1>9, <1>11, <2>5
  <2>7. t[j] = Facts(ws[j - 1])
    <3>1. (j - 1) + 1 = j
      BY <1>3, <2>1
    <3> QED
      BY <1>3, <2>2, <3>1
  <2>8. g \in s[e[l] + 1]
    BY <1>2, <1>9, <1>10, <2>4, <2>6, <2>7
  <2>9. e[l] + 1 \in (i + 2)..Len(s)
    BY <1>2, <1>5, <2>6
  <2> QED
    BY <1>5, <1>14, <2>8, <2>9
<1>15. f \in SaidLast(t)
  BY <1>12, <1>14, LastAt
<1> QED
  BY <1>15 DEF t

(* Two RAs without problems confirm each other.                            *)
LEMMA CheckedConfirms ==
  ASSUME NEW m \in Messages, NEW w \in Messages, NEW who, NEW other, who # other,
         verifyRAs(RA(m[1], m[2], who), RA(w[1], w[2], other)) = {}
  PROVE  Confirms(Said(RA(m[1], m[2], who)), Said(RA(w[1], w[2], other)))
<1> DEFINE vs == m[2]
           ws == w[2]
           s == Said(RA(m[1], m[2], who))
           t == Said(RA(w[1], w[2], other))
<1> SUFFICES ASSUME NEW f \in SaidLast(s), f[1][1] \notin NotCompared,
                    \E j \in DOMAIN t : \E g \in t[j] : g[1] = f[1]
             PROVE  f \in SaidLast(t)
  BY DEF Confirms
<1>1. SameBase(m[1], w[1]) /\ SameOptions(vs, ws)
  BY NoProblem
<1>2. /\ Len(vs) \in Nat /\ DOMAIN vs = 1..Len(vs) /\ Len(s) = Len(vs) + 1
      /\ DOMAIN s = 1..(Len(vs) + 1)
  BY SaidAt
<1>3. /\ Len(ws) \in Nat /\ Len(t) = Len(ws) + 1 /\ DOMAIN t = 1..(Len(ws) + 1)
  BY SaidAt
<1>4. PICK i \in DOMAIN s :
        f \in s[i] /\ \A j \in (i + 1)..Len(s) : \A g \in s[j] : g[1] # f[1]
  <2> HIDE DEF s
  <2> QED
    BY LastAt
<1>5. ASSUME NEW j \in DOMAIN t, NEW g \in t[j]
      PROVE  \/ j = 1 /\ g \in BaseFacts(w[1])
             \/ /\ j - 1 \in DOMAIN ws /\ ws[j - 1] \in Option
                /\ g \in Facts(ws[j - 1]) /\ Tagged(ws[j - 1], g[1])
  BY SaidBy
<1>6. \/ i = 1 /\ f \in BaseFacts(m[1])
      \/ /\ i # 1 /\ i - 1 \in DOMAIN vs
         /\ vs[i - 1] \in Option /\ f \in Facts(vs[i - 1]) /\ Tagged(vs[i - 1], f[1])
  BY <1>4, SaidBy
<1>7. ASSUME \A j \in DOMAIN t : \A g \in t[j] : g[1] = f[1] => g = f
      PROVE  f \in SaidLast(t)
  <2>1. Len(ws) + 1 \in Nat
    BY <1>3
  <2> HIDE DEF t, s, vs, ws
  <2> QED
    BY <1>3, <1>7, <2>1, OnlyFact
<1>8. CASE i = 1 /\ f \in BaseFacts(m[1])
  <2>1. ASSUME NEW j \in DOMAIN t, NEW g \in t[j], g[1] = f[1] PROVE g = f
    <3>1. CASE j = 1 /\ g \in BaseFacts(w[1])
      BY <1>1, <1>8, <2>1, <3>1, SameBaseFact
    <3>2. CASE Tagged(ws[j - 1], g[1])
      BY <1>8, <2>1, <3>2, BaseTag
    <3> QED
      BY <1>5, <3>1, <3>2
  <2> QED
    BY <1>7, <2>1
<1>9. CASE /\ i # 1 /\ i - 1 \in DOMAIN vs
           /\ vs[i - 1] \in Option /\ f \in Facts(vs[i - 1]) /\ Tagged(vs[i - 1], f[1])
  <2> DEFINE o == vs[i - 1]
  <2>1. o.kind \in {"mtu", "cp", "pi", "ri", "rdnss", "dnssl"}
    <3>1. o.kind \in {"mtu", "cp", "pi", "ri", "pref64", "rdnss", "dnssl"}
      BY <1>9, FactsOf
    <3>2. o.kind # "pref64"
      BY <1>9 DEF Tagged, NotCompared
    <3> QED
      BY <3>1, <3>2
  <2>2. ASSUME NEW j \in DOMAIN t, NEW g \in t[j], g[1] = f[1]
        PROVE  /\ j - 1 \in DOMAIN ws /\ ws[j - 1] \in Option
               /\ g \in Facts(ws[j - 1]) /\ Tagged(ws[j - 1], f[1])
               /\ ws[j - 1].kind = o.kind
               /\ o.kind \in {"pi", "ri"} => ws[j - 1].prefix = o.prefix
               /\ o.kind = "ri" => ws[j - 1].preference = o.preference
    <3>1. ~(j = 1 /\ g \in BaseFacts(w[1]))
      BY <1>9, <2>2, BaseTag
    <3>2. /\ j - 1 \in DOMAIN ws /\ ws[j - 1] \in Option
          /\ g \in Facts(ws[j - 1]) /\ Tagged(ws[j - 1], g[1])
      BY <1>5, <3>1
    <3>3. Tagged(ws[j - 1], f[1]) /\ Tagged(o, f[1])
      BY <1>9, <2>2, <3>2
    <3> HIDE DEF o
    <3> QED
      BY <3>2, <3>3, SameTag
  <2>3. PICK j \in DOMAIN t : \E g \in t[j] : g[1] = f[1]
    OBVIOUS
  <2>4. j - 1 \in DOMAIN ws /\ ws[j - 1].kind = o.kind
    BY <2>2, <2>3
  <2>5. /\ o.kind \notin {"mtu", "cp"}
        /\ o.kind \in {"rdnss", "dnssl"} => SameLists(o.kind, vs, ws)
    BY <1>1, <1>9, <2>4 DEF SameOptions
  <2>6. CASE o.kind \in {"rdnss", "dnssl"}
    <3>1. \A l \in ((i - 1) + 2)..Len(s) : \A g \in s[l] : g[1] # f[1]
      <4>1. (i - 1) + 2 = i + 1
        BY <1>2
      <4> QED
        BY <1>4, <4>1
    <3> QED
      BY <1>9, <2>5, <2>6, <3>1, ListsConfirm
  <2>7. CASE o.kind \in {"pi", "ri"}
    <3>1. ASSUME NEW l \in DOMAIN t, NEW g \in t[l], g[1] = f[1] PROVE g = f
      <4> DEFINE p == ws[l - 1]
      <4>1. /\ l - 1 \in DOMAIN ws /\ p \in Option /\ g \in Facts(p) /\ p.kind = o.kind
            /\ p.prefix = o.prefix
            /\ o.kind = "ri" => p.preference = o.preference
        BY <2>2, <2>7, <3>1
      <4>2. /\ o.kind = "pi" => o.preferred = p.preferred /\ o.valid = p.valid
            /\ o.kind = "ri" => o.lifetime = p.lifetime
        BY <1>1, <1>9, <4>1 DEF SameOptions
      <4>3. o \in Option /\ f \in Facts(o)
        BY <1>9
      <4> HIDE DEF o, p
      <4> QED
        BY <2>7, <3>1, <4>1, <4>2, <4>3, SameFact
    <3> QED
      BY <1>7, <3>1
  <2> QED
    BY <2>1, <2>5, <2>6, <2>7
<1> QED
  BY <1>6, <1>8, <1>9

(* Two RAs that raise no problem leave every host in the same state,       *)
(* whichever of the two it hears last, in all parameters but NAT64         *)
(* prefixes and the flags of a prefix: for RAs with any number of options, *)
(* in any order, with repeated ones too.                                   *)
THEOREM VerifyMissesOnly == VerifySpec => []MissesOnlyNotCompared
<1>1. VerifyInv => MissesOnlyNotCompared
  <2> SUFFICES ASSUME VerifyInv, reported = {}, NEW m \in got,
                      NEW f, f[1][1] \notin NotCompared
               PROVE  f \in Learned(want, m) <=> f \in Learned(m, want)
    BY DEF MissesOnlyNotCompared
  <2>1. reported = verifyRAs(want, m)
    BY Checked
  <2>2. PICK x \in Messages : want = RA(x[1], x[2], "ours")
    BY Checked
  <2>3. PICK y \in Messages : m = RA(y[1], y[2], "theirs")
    BY Checked
  <2> DEFINE s == Said(want)
             t == Said(m)
  <2>4. Confirms(s, t)
    BY <2>1, <2>2, <2>3, CheckedConfirms
  <2>5. verifyRAs(m, want) = {}
    BY <2>1, <2>2, <2>3, CheckSymmetric
  <2>6. Confirms(t, s)
    BY <2>2, <2>3, <2>5, CheckedConfirms
  <2>7. PICK S : s \in Seq(S)
    BY <2>2, SaidAt
  <2>8. PICK T : t \in Seq(T)
    BY <2>3, SaidAt
  <2> HIDE DEF s, t
  <2>9. s \in Seq(S \cup T) /\ t \in Seq(S \cup T)
    BY <2>7, <2>8
  <2>10. f \in SaidLast(s \o t) <=> f \in SaidLast(t \o s)
    BY <2>4, <2>6, <2>9, OrderFree
  <2> QED
    BY <2>10 DEF s, t, Learned
<1> QED
  BY <1>1, VerifyInvariant, PTL
=============================================================================
