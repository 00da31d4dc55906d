--------------------------- MODULE ObserversProofs ---------------------------
(***************************************************************************)
(* Proofs about the observers of a running daemon, for any configuration:  *)
(* any number of interfaces of any mode, with any plugins in any order,    *)
(* and interfaces that come back any number of times.                      *)
(***************************************************************************)
EXTENDS Observers, SequenceTheorems, TLAPS

(* The kernel gives no index twice, so whatever was dialed or served with  *)
(* the last index concerns the interface that is there now.                *)
IndexInv ==
  \A n \in Ifaces :
    /\ index[n] = 0 \/ index[n] = last[n]
    /\ dialed[n] <= last[n] /\ served[n] <= last[n]

(* Once an Advertiser advertises, all its plugins are prepared with the    *)
(* index it has dialed; dialing again for the same interface changes none  *)
(* of them, dialing for a new one leaves none unprepared.                  *)
PreparedAt(n) ==
  /\ apc[n] = "prepare" =>
       /\ dialed[n] # 0
       /\ \A k \in DOMAIN cfg[n].plugins :
            k < pos[n] => prepared[n][k] = dialed[n]
  /\ served[n] # 0 =>
       \A k \in DOMAIN cfg[n].plugins : prepared[n][k] # 0
  /\ served[n] # 0 /\ served[n] = last[n] =>
       /\ dialed[n] = last[n]
       /\ \A k \in DOMAIN cfg[n].plugins : prepared[n][k] = last[n]

PreparedInv == \A n \in Ifaces : PreparedAt(n)

(* A series that was collected for the interface r.i: of a plugin that     *)
(* always gives it, or of an automatic one, and then the request knows if  *)
(* another plugin gave it too at the time.                                 *)
SeriesOf(r, x) ==
  LET plugins == cfg[r.i].plugins
  IN /\ x[2] \in DOMAIN plugins
     /\ x[1] = Label(plugins[x[2]]) /\ x[1] # "none"
     /\ plugins[x[2]] \in {"prefix", "route", "rdnss"}
          => ((\E l \in DOMAIN plugins : l # x[2] /\ Label(plugins[l]) = x[1])
              => "series" \in r.troubled)

(* What is to be reported of the first m interfaces.                       *)
Answer(m) ==
  [n \in 1..m |-> [i |-> n, ra |-> IF Advertise(n) THEN "built" ELSE "null"]]

(* A request r under way, with the report s so far.                        *)
Going(r, s) ==
  /\ r.status \in {"ok", "duplicate"}
  /\ r.status = "duplicate" => "series" \in r.troubled
  /\ r.i <= Len(cfg) + 1
  /\ r.pc \in {"interface", "forwarding"} => r.series = {}
  /\ r.pc \in {"apply", "collect"} => r.i \in Ifaces
  /\ r.pc = "apply" => Advertise(r.i)
  /\ r.pc = "collect" /\ r.kind = "api" => Advertise(r.i)
  /\ r.pc = "forwarding" => r.kind = "scrape"
  /\ r.series # {} => Advertise(r.i)
  /\ r.kind = "scrape" => \A x \in r.series : SeriesOf(r, x)
  /\ s = IF r.kind = "api" /\ r.pc \in {"apply", "collect"}
         THEN Append(Answer(r.i - 1), [i |-> r.i, ra |-> "null"])
         ELSE Answer(r.i - 1)

(* A request under way knows of the trouble there is, and what was true of *)
(* the Advertisers when it began still is.                                 *)
UnderWay == req.pc \notin {"idle", "done"}

Knowing ==
  /\ Troubles(req.kind) \subseteq req.troubled
  /\ req.warm => \A n \in Ifaces : Advertise(n) => served[n] # 0

RequestInv ==
  /\ UnderWay => Knowing /\ Going(req, shown) /\ req.kind \in {"scrape", "api"}
  /\ req.pc = "idle" => shown = <<>>
  /\ ServedUnlessTroubled
  /\ WarmPanicsOnlyOnRoute
  /\ AnswerMatchesConfig

Inv == TypeOK /\ IndexInv /\ PreparedInv /\ RequestInv

-----------------------------------------------------------------------------
(* The configuration: interfaces and plugins are numbered from 1.          *)
LEMMA CfgType ==
  ASSUME cfg \in Configs
  PROVE  /\ Len(cfg) \in Nat /\ Ifaces = 1..Len(cfg)
         /\ \A n \in Ifaces : /\ cfg[n].plugins \in Seq(Kinds)
                              /\ Len(cfg[n].plugins) \in Nat
                              /\ DOMAIN cfg[n].plugins =
                                   1..Len(cfg[n].plugins)
<1> DEFINE I == [mode : {"advertise", "monitor", "idle"}, unicast : BOOLEAN,
                 plugins : Seq(Kinds)]
<1>1. cfg \in Seq(I)
  BY ObserversAssumption
<1> HIDE DEF I
<1>2. \A n \in 1..Len(cfg) : cfg[n] \in I
  BY <1>1
<1>3. \A n \in 1..Len(cfg) : cfg[n].plugins \in Seq(Kinds)
  BY <1>2 DEF I
<1>4. \A q \in Seq(Kinds) : Len(q) \in Nat /\ DOMAIN q = 1..Len(q)
  OBVIOUS
<1>5. Len(cfg) \in Nat /\ Ifaces = 1..Len(cfg)
  BY <1>1 DEF Ifaces
<1> QED
  BY <1>3, <1>4, <1>5

(* What an environment step does to a request: only what it knows of the   *)
(* trouble may change, and only while it is under way.                     *)
LEMMA RememberStep ==
  ASSUME req \in ReqType, Remember
  PROVE  /\ req' \in ReqType
         /\ ~UnderWay => req' = req
         /\ \E t \in SUBSET Reasons :
              /\ req.troubled \subseteq t
              /\ req' = [req EXCEPT !.troubled = t]
              /\ UnderWay => \A kind : kind = req.kind => Troubles(kind)' \subseteq t
<1>1. PICK kind \in {req.kind} :
        req' = IF req.pc \in {"idle", "done"} THEN req
               ELSE [req EXCEPT !.troubled = req.troubled \cup Troubles(kind)']
  BY DEF Remember
<1>2. Troubles(kind)' \subseteq Reasons
  BY DEF Troubles
<1>3. CASE ~UnderWay
  <2>1. req' = req
    BY <1>1, <1>3 DEF UnderWay
  <2>2. req.troubled \in SUBSET Reasons /\ req = [req EXCEPT !.troubled = req.troubled]
    BY DEF ReqType
  <2> QED
    BY <1>3, <2>1, <2>2
<1>4. CASE UnderWay
  <2> DEFINE t == req.troubled \cup Troubles(kind)'
  <2>1. req' = [req EXCEPT !.troubled = t]
    BY <1>1, <1>4 DEF UnderWay
  <2>2. t \in SUBSET Reasons /\ req.troubled \subseteq t /\ Troubles(kind)' \subseteq t
    BY <1>2 DEF ReqType
  <2> HIDE DEF t
  <2>3. req' \in ReqType
    BY <2>1, <2>2 DEF ReqType
  <2>4. \A k : k = req.kind => Troubles(k)' \subseteq t
    BY <1>1, <2>2
  <2> QED
    BY <1>4, <2>1, <2>2, <2>3, <2>4
<1> QED
  BY <1>3, <1>4

(* Knowing more, a request goes on as before.                              *)
LEMMA GoingMore ==
  ASSUME req \in ReqType, Going(req, shown), UNCHANGED <<cfg, shown>>,
         NEW t \in SUBSET Reasons, req.troubled \subseteq t,
         req' = [req EXCEPT !.troubled = t]
  PROVE  Going(req, shown)'
<1>1. /\ req'.kind = req.kind /\ req'.pc = req.pc /\ req'.i = req.i
      /\ req'.status = req.status /\ req'.series = req.series
      /\ req'.troubled = t
  BY DEF ReqType
<1>2. /\ \A n : Advertise(n)' <=> Advertise(n)
      /\ Ifaces' = Ifaces
  BY DEF Advertise, Ifaces
<1>3. ASSUME NEW x, SeriesOf(req, x) PROVE SeriesOf(req, x)'
  BY <1>1, <1>3 DEF SeriesOf
<1>4. (req.kind = "scrape" => \A x \in req.series : SeriesOf(req, x))'
  BY <1>1, <1>3 DEF Going
<1>5. (shown = IF req.kind = "api" /\ req.pc \in {"apply", "collect"}
               THEN Append(Answer(req.i - 1), [i |-> req.i, ra |-> "null"])
               ELSE Answer(req.i - 1))'
  <2>1. Answer(req.i - 1)' = Answer(req.i - 1)
    BY <1>1, <1>2, Zenon DEF Answer
  <2>2. shown' = IF req.kind = "api" /\ req.pc \in {"apply", "collect"}
                 THEN Append(Answer(req.i - 1), [i |-> req.i, ra |-> "null"])
                 ELSE Answer(req.i - 1)
    BY DEF Going
  <2> QED
    BY <1>1, <2>1, <2>2, Zenon
<1>6. /\ req'.status \in {"ok", "duplicate"}
      /\ req'.status = "duplicate" => "series" \in req'.troubled
      /\ req'.i <= Len(cfg') + 1
      /\ req'.pc \in {"interface", "forwarding"} => req'.series = {}
      /\ req'.pc \in {"apply", "collect"} => req'.i \in Ifaces'
      /\ req'.pc = "forwarding" => req'.kind = "scrape"
  BY <1>1, <1>2 DEF Going
<1>7. /\ req'.pc = "apply" => Advertise(req.i)'
      /\ req'.pc = "collect" /\ req'.kind = "api" => Advertise(req.i)'
      /\ req'.series # {} => Advertise(req.i)'
  BY <1>1, <1>2 DEF Going, Advertise
<1> QED
  BY <1>4, <1>5, <1>6, <1>7 DEF Going

(* What the environment does to a request's invariant: it suffices that no *)
(* Advertiser unlearns that it has advertised.                             *)
LEMMA EnvironmentRequest ==
  ASSUME Inv, Remember, UNCHANGED <<cfg, shown>>,
         \A n \in Ifaces : served[n] # 0 => served'[n] # 0
  PROVE  RequestInv' /\ req' \in ReqType
<1>1. req \in ReqType
  BY DEF Inv, TypeOK
<1>2. req' \in ReqType /\ (~UnderWay => req' = req)
  BY <1>1, RememberStep
<1>3. PICK t \in SUBSET Reasons :
        /\ req.troubled \subseteq t
        /\ req' = [req EXCEPT !.troubled = t]
        /\ UnderWay => \A kind : kind = req.kind => Troubles(kind)' \subseteq t
  BY <1>1, RememberStep
<1>4. /\ req'.kind = req.kind /\ req'.pc = req.pc /\ req'.i = req.i
      /\ req'.status = req.status /\ req'.warm = req.warm /\ req'.troubled = t
  BY <1>1, <1>3 DEF ReqType
<1>5. Ifaces' = Ifaces /\ \A n : Advertise(n)' <=> Advertise(n)
  BY DEF Ifaces, Advertise
<1>6. CASE UnderWay
  <2>1. Knowing /\ Going(req, shown) /\ req.kind \in {"scrape", "api"}
    BY <1>6 DEF Inv, RequestInv
  <2>2. Going(req, shown)'
    BY <1>1, <1>3, <2>1, GoingMore
  <2>3. Troubles(req.kind)' \subseteq req'.troubled
    BY <1>3, <1>4, <1>6
  <2>4. (req.warm => \A n \in Ifaces : Advertise(n) => served[n] # 0)'
    BY <1>4, <1>5, <2>1 DEF Knowing
  <2>5. req'.pc \notin {"idle", "done"}
    BY <1>4, <1>6 DEF UnderWay
  <2> QED
    BY <1>2, <1>4, <2>1, <2>2, <2>3, <2>4, <2>5
       DEF RequestInv, Knowing, ServedUnlessTroubled, WarmPanicsOnlyOnRoute,
           AnswerMatchesConfig
<1>7. CASE ~UnderWay
  <2>1. ~UnderWay'
    BY <1>4, <1>7 DEF UnderWay
  <2>2. req' = req
    BY <1>2, <1>7
  <2>3. ServedUnlessTroubled /\ WarmPanicsOnlyOnRoute /\ AnswerMatchesConfig
    BY DEF Inv, RequestInv
  <2>4. (ServedUnlessTroubled /\ WarmPanicsOnlyOnRoute)'
    BY <2>2, <2>3 DEF ServedUnlessTroubled, WarmPanicsOnlyOnRoute, Pref64Panic
  <2>5. AnswerMatchesConfig'
    BY <1>5, <2>2, <2>3 DEF AnswerMatchesConfig
  <2>6. (req.pc = "idle" => shown = <<>>)'
    BY <2>2 DEF Inv, RequestInv
  <2> QED
    BY <1>2, <2>1, <2>4, <2>5, <2>6 DEF RequestInv
<1> QED
  BY <1>6, <1>7

-----------------------------------------------------------------------------
(* Nothing changes for an interface that a step is not about.              *)
LEMMA PreparedSame ==
  ASSUME NEW m, PreparedAt(m), UNCHANGED cfg,
         apc'[m] = apc[m], dialed'[m] = dialed[m], pos'[m] = pos[m],
         prepared'[m] = prepared[m], served'[m] = served[m],
         served[m] # 0 /\ served[m] = last'[m] => last'[m] = last[m]
  PROVE  PreparedAt(m)'
BY DEF PreparedAt

(* The kernel's steps on the interface's index.                            *)
LEMMA KernelIndex ==
  ASSUME Inv, NEW n \in Ifaces,
         \/ LinkCreated(n) \/ LinkRemoved(n)
         \/ AddrsChange(n) \/ LoopbackRouteChanges
  PROVE  /\ index' \in [Ifaces -> 0..MaxIndex]
         /\ last' \in [Ifaces -> 0..MaxIndex]
         /\ \A m \in Ifaces : /\ last'[m] >= last[m]
                              /\ index'[m] = 0 \/ index'[m] = last'[m]
<1>1. /\ index \in [Ifaces -> 0..MaxIndex] /\ last \in [Ifaces -> 0..MaxIndex]
      /\ \A m \in Ifaces : index[m] = 0 \/ index[m] = last[m]
      /\ MaxIndex \in Nat
  BY ObserversAssumption DEF Inv, TypeOK, IndexInv
<1>2. CASE LinkCreated(n)
  <2>1. last[n] + 1 \in 0..MaxIndex
    BY <1>1, <1>2 DEF LinkCreated
  <2>2. /\ index' = [index EXCEPT ![n] = last[n] + 1]
        /\ last' = [last EXCEPT ![n] = last[n] + 1]
    BY <1>2 DEF LinkCreated
  <2> QED
    BY <1>1, <2>1, <2>2
<1>3. CASE LinkRemoved(n)
  <2>1. index' = [index EXCEPT ![n] = 0] /\ last' = last
    BY <1>3 DEF LinkRemoved
  <2> QED
    BY <1>1, <2>1
<1>4. CASE AddrsChange(n) \/ LoopbackRouteChanges
  BY <1>1, <1>4 DEF AddrsChange, LoopbackRouteChanges
<1> QED
  BY <1>2, <1>3, <1>4

(* The kernel's steps keep Inv.                                            *)
LEMMA KernelInv ==
  ASSUME Inv, NEW n \in Ifaces,
         \/ LinkCreated(n) \/ LinkRemoved(n)
         \/ AddrsChange(n) \/ LoopbackRouteChanges
  PROVE  Inv'
<1>1. UNCHANGED <<cfg, advVars, shown>> /\ Remember
  BY DEF LinkCreated, LinkRemoved, AddrsChange, LoopbackRouteChanges
<1>2. RequestInv' /\ req' \in ReqType
  BY <1>1, EnvironmentRequest DEF advVars
<1>3. Ifaces' = Ifaces
  BY <1>1 DEF Ifaces
<1>4. /\ addrs' \in [Ifaces -> {"none", "local", "global"}]
      /\ loRoutes' \in {"none", "covers", "default"}
  <2>2. /\ addrs \in [Ifaces -> {"none", "local", "global"}]
        /\ loRoutes \in {"none", "covers", "default"}
    BY DEF Inv, TypeOK
  <2>3. CASE LinkCreated(n) \/ LinkRemoved(n)
    BY <2>2, <2>3 DEF LinkCreated, LinkRemoved
  <2>4. CASE AddrsChange(n)
    BY <2>2, <2>4 DEF AddrsChange
  <2>5. CASE LoopbackRouteChanges
    BY <2>2, <2>5 DEF LoopbackRouteChanges
  <2> QED
    BY <2>3, <2>4, <2>5
<1>5. /\ index' \in [Ifaces -> 0..MaxIndex] /\ last' \in [Ifaces -> 0..MaxIndex]
      /\ \A m \in Ifaces : /\ last'[m] >= last[m]
                           /\ index'[m] = 0 \/ index'[m] = last'[m]
  BY KernelIndex
<1>6. TypeOK'
  BY <1>1, <1>2, <1>3, <1>4, <1>5 DEF Inv, TypeOK, advVars
<1>7. \A m \in Ifaces :
        /\ dialed[m] \in Nat /\ served[m] \in Nat /\ last[m] \in Nat
        /\ last'[m] \in Nat /\ dialed[m] <= last[m] /\ served[m] <= last[m]
  BY <1>5, ObserversAssumption DEF Inv, TypeOK, IndexInv
<1>8. IndexInv'
  BY <1>1, <1>3, <1>5, <1>7 DEF IndexInv, advVars
<1>9. PreparedInv'
  <2> SUFFICES ASSUME NEW m \in Ifaces PROVE PreparedAt(m)'
    BY <1>3 DEF PreparedInv
  <2>1. served[m] = last'[m] => last'[m] = last[m]
    BY <1>5, <1>7
  <2>2. PreparedAt(m)
    BY DEF Inv, PreparedInv
  <2> QED
    BY <1>1, <2>1, <2>2, PreparedSame DEF advVars
<1> QED
  BY <1>2, <1>6, <1>8, <1>9 DEF Inv

-----------------------------------------------------------------------------
(* The types an Advertiser's step relies on.                               *)
LEMMA AdvertiserTypes ==
  ASSUME Inv
  PROVE  /\ index \in [Ifaces -> Nat] /\ last \in [Ifaces -> Nat]
         /\ dialed \in [Ifaces -> Nat] /\ served \in [Ifaces -> Nat]
         /\ pos \in [Ifaces -> Nat \ {0}]
         /\ apc \in [Ifaces -> {"dial", "prepare", "run"}]
         /\ DOMAIN prepared = Ifaces
         /\ \A n \in Ifaces :
              /\ prepared[n] \in [DOMAIN cfg[n].plugins -> 0..MaxIndex]
              /\ Len(cfg[n].plugins) \in Nat
              /\ DOMAIN cfg[n].plugins = 1..Len(cfg[n].plugins)
<1>1. TypeOK /\ 0..MaxIndex \subseteq Nat
  BY ObserversAssumption DEF Inv
<1>2. cfg \in Configs
  BY <1>1 DEF TypeOK
<1>3. \A n \in Ifaces : /\ Len(cfg[n].plugins) \in Nat
                        /\ DOMAIN cfg[n].plugins = 1..Len(cfg[n].plugins)
  BY <1>2, CfgType
<1> QED
  BY <1>1, <1>3 DEF TypeOK

(* An Advertiser dials: the same index as before, or a new one.            *)
LEMMA DialInv ==
  ASSUME Inv, NEW n \in Ifaces, Dial(n)
  PROVE  Inv'
<1>1. UNCHANGED <<cfg, kernelVars, prepared, served, shown>> /\ Remember
  BY DEF Dial
<1>2. Ifaces' = Ifaces
  BY <1>1 DEF Ifaces
<1>3. RequestInv' /\ req' \in ReqType
  BY <1>1, EnvironmentRequest
<1>4. /\ apc' = [apc EXCEPT ![n] = "prepare"]
      /\ dialed' = [dialed EXCEPT ![n] = index[n]]
      /\ pos' = [pos EXCEPT ![n] = 1]
      /\ index[n] # 0
  BY DEF Dial
<1>5. TypeOK'
  BY <1>1, <1>2, <1>3, <1>4 DEF Inv, TypeOK, kernelVars
<1>6. index[n] = last[n]
  BY <1>4 DEF Inv, IndexInv
<1>7. IndexInv'
  BY <1>1, <1>2, <1>4, <1>6, AdvertiserTypes DEF Inv, IndexInv, kernelVars
<1>8. ASSUME NEW m \in Ifaces PROVE PreparedAt(m)'
  <2>1. PreparedAt(m)
    BY DEF Inv, PreparedInv
  <2>2. CASE m = n
    <3>1. /\ apc'[n] = "prepare" /\ dialed'[n] = index[n] /\ pos'[n] = 1
          /\ \A k \in DOMAIN cfg[n].plugins : ~(k < 1)
      BY <1>4, AdvertiserTypes
    <3> QED
      BY <1>1, <1>4, <1>6, <2>1, <2>2, <3>1 DEF PreparedAt, kernelVars
  <2>3. CASE m # n
    <3>1. apc'[m] = apc[m] /\ dialed'[m] = dialed[m] /\ pos'[m] = pos[m]
      BY <1>4, <2>3, AdvertiserTypes
    <3> QED
      BY <1>1, <2>1, <3>1, PreparedSame DEF kernelVars
  <2> QED
    BY <2>2, <2>3
<1> QED
  BY <1>2, <1>3, <1>5, <1>7, <1>8 DEF Inv, PreparedInv

(* It prepares a plugin with the index it has dialed.                      *)
LEMMA PrepareInv ==
  ASSUME Inv, NEW n \in Ifaces, Prepare(n)
  PROVE  Inv'
<1>1. UNCHANGED <<cfg, kernelVars, apc, dialed, served, shown>> /\ Remember
  BY DEF Prepare
<1>2. Ifaces' = Ifaces
  BY <1>1 DEF Ifaces
<1>3. RequestInv' /\ req' \in ReqType
  BY <1>1, EnvironmentRequest
<1>4. /\ prepared' = [prepared EXCEPT ![n][pos[n]] = dialed[n]]
      /\ pos' = [pos EXCEPT ![n] = pos[n] + 1]
      /\ apc[n] = "prepare" /\ pos[n] <= Len(cfg[n].plugins)
  BY DEF Prepare
<1>5. pos[n] \in DOMAIN cfg[n].plugins /\ pos[n] \in Nat \ {0}
  BY <1>4, AdvertiserTypes
<1>6. /\ \A m \in Ifaces : m # n => prepared'[m] = prepared[m] /\ pos'[m] = pos[m]
      /\ prepared'[n] = [prepared[n] EXCEPT ![pos[n]] = dialed[n]]
      /\ pos'[n] = pos[n] + 1
      /\ DOMAIN prepared' = Ifaces
      /\ pos' \in [Ifaces -> Nat \ {0}]
  BY <1>4, <1>5, AdvertiserTypes
<1>7. prepared'[n] \in [DOMAIN cfg[n].plugins -> 0..MaxIndex]
  BY <1>5, <1>6 DEF Inv, TypeOK
<1>8. TypeOK'
  BY <1>1, <1>2, <1>3, <1>6, <1>7 DEF Inv, TypeOK, kernelVars
<1>9. IndexInv'
  BY <1>1, <1>2 DEF Inv, IndexInv, kernelVars
<1>10. \A k \in DOMAIN cfg[n].plugins :
         prepared'[n][k] = IF k = pos[n] THEN dialed[n] ELSE prepared[n][k]
  BY <1>6, AdvertiserTypes
<1>11. ASSUME NEW m \in Ifaces PROVE PreparedAt(m)'
  <2>1. PreparedAt(m)
    BY DEF Inv, PreparedInv
  <2>2. CASE m = n
    <3>1. \A k \in DOMAIN cfg[n].plugins : k < pos[n] + 1 => k = pos[n] \/ k < pos[n]
      <4>1. \A k, p \in Nat : k < p + 1 => k = p \/ k < p
        OBVIOUS
      <4>2. DOMAIN cfg[n].plugins \subseteq Nat
        <5>1. Len(cfg[n].plugins) \in Nat /\ DOMAIN cfg[n].plugins = 1..Len(cfg[n].plugins)
          BY AdvertiserTypes
        <5> QED
          BY <5>1
      <4> QED
        BY <1>5, <4>1, <4>2
    <3>2. dialed[n] # 0
      BY <1>4, <2>1, <2>2 DEF PreparedAt
    <3>3. \A k \in DOMAIN cfg[n].plugins :
            k < pos'[n] => prepared'[n][k] = dialed[n]
      BY <1>4, <1>6, <1>10, <2>1, <2>2, <3>1 DEF PreparedAt
    <3>4. served[n] # 0 =>
            \A k \in DOMAIN cfg[n].plugins : prepared'[n][k] # 0
      BY <1>10, <2>1, <2>2, <3>2 DEF PreparedAt
    <3>5. served[n] # 0 /\ served[n] = last[n] =>
            /\ dialed[n] = last[n]
            /\ \A k \in DOMAIN cfg[n].plugins : prepared'[n][k] = last[n]
      BY <1>10, <2>1, <2>2 DEF PreparedAt
    <3> QED
      BY <1>1, <2>2, <3>2, <3>3, <3>4, <3>5 DEF PreparedAt, kernelVars
  <2>3. CASE m # n
    BY <1>1, <1>6, <2>1, <2>3, PreparedSame DEF kernelVars
  <2> QED
    BY <2>2, <2>3
<1> QED
  BY <1>2, <1>3, <1>8, <1>9, <1>11 DEF Inv, PreparedInv

(* It begins to advertise, with all plugins prepared.                      *)
LEMMA InitializedInv ==
  ASSUME Inv, NEW n \in Ifaces, Initialized(n)
  PROVE  Inv'
<1>1. UNCHANGED <<cfg, kernelVars, dialed, pos, prepared, shown>> /\ Remember
  BY DEF Initialized
<1>2. Ifaces' = Ifaces
  BY <1>1 DEF Ifaces
<1>3. /\ apc' = [apc EXCEPT ![n] = "run"]
      /\ served' = [served EXCEPT ![n] = dialed[n]]
      /\ apc[n] = "prepare" /\ pos[n] > Len(cfg[n].plugins)
  BY DEF Initialized
<1>4. /\ \A m \in Ifaces : m # n => apc'[m] = apc[m] /\ served'[m] = served[m]
      /\ apc'[n] = "run" /\ served'[n] = dialed[n]
  BY <1>3, AdvertiserTypes
<1>5. \A k \in DOMAIN cfg[n].plugins : k < pos[n]
  BY <1>3, AdvertiserTypes
<1>6. /\ dialed[n] # 0
      /\ \A k \in DOMAIN cfg[n].plugins : prepared[n][k] = dialed[n]
  BY <1>3, <1>5 DEF Inv, PreparedInv, PreparedAt
<1>7. RequestInv' /\ req' \in ReqType
  BY <1>1, <1>4, <1>6, EnvironmentRequest
<1>8. TypeOK'
  BY <1>1, <1>2, <1>3, <1>7 DEF Inv, TypeOK, kernelVars
<1>9. IndexInv'
  BY <1>1, <1>2, <1>4 DEF Inv, IndexInv, kernelVars
<1>10. ASSUME NEW m \in Ifaces PROVE PreparedAt(m)'
  <2>1. PreparedAt(m)
    BY DEF Inv, PreparedInv
  <2>2. CASE m = n
    BY <1>1, <1>4, <1>6, <2>2 DEF PreparedAt, kernelVars
  <2>3. CASE m # n
    BY <1>1, <1>4, <2>1, <2>3, PreparedSame DEF kernelVars
  <2> QED
    BY <2>2, <2>3
<1> QED
  BY <1>2, <1>7, <1>8, <1>9, <1>10 DEF Inv, PreparedInv

(* It goes back to dialing and leaves the plugins as they are.             *)
LEMMA RedialInv ==
  ASSUME Inv, NEW n \in Ifaces, Redial(n)
  PROVE  Inv'
<1>1. UNCHANGED <<cfg, kernelVars, dialed, pos, prepared, served, shown>>
      /\ Remember
  BY DEF Redial
<1>2. Ifaces' = Ifaces
  BY <1>1 DEF Ifaces
<1>3. RequestInv' /\ req' \in ReqType
  BY <1>1, EnvironmentRequest
<1>4. apc' = [apc EXCEPT ![n] = "dial"]
  BY DEF Redial
<1>5. TypeOK'
  BY <1>1, <1>2, <1>3, <1>4 DEF Inv, TypeOK, kernelVars
<1>6. IndexInv'
  BY <1>1, <1>2 DEF Inv, IndexInv, kernelVars
<1>7. ASSUME NEW m \in Ifaces PROVE PreparedAt(m)'
  <2>1. PreparedAt(m)
    BY DEF Inv, PreparedInv
  <2>2. apc'[m] = IF m = n THEN "dial" ELSE apc[m]
    BY <1>4, AdvertiserTypes
  <2> QED
    BY <1>1, <2>1, <2>2 DEF PreparedAt, kernelVars
<1> QED
  BY <1>2, <1>3, <1>5, <1>6, <1>7 DEF Inv, PreparedInv

-----------------------------------------------------------------------------
(* Applying a plugin.  For an interface that is there and advertised on it *)
(* succeeds, however far its Advertiser is in preparing the plugins again, *)
(* and on one that was ever advertised on it panics only on a route.       *)
LEMMA ApplyOutcome ==
  ASSUME Inv, NEW n \in Ifaces, Advertise(n), NEW k \in DOMAIN cfg[n].plugins
  PROVE  /\ Apply(n, k) \in {"ok", "error", "panic"}
         /\ Apply(n, k) # "ok" => Trouble(n, "interface") \/ Trouble(n, "route")
         /\ served[n] # 0 /\ Apply(n, k) = "panic" => Trouble(n, "route")
<1> DEFINE kind == cfg[n].plugins[k]
           index0 == prepared[n][k]
<1>1. served[n] # 0 => index0 # 0
  BY DEF Inv, PreparedInv, PreparedAt
<1>2. kind \in ToSet(cfg[n].plugins)
  BY DEF ToSet
<1>3. ~Trouble(n, "interface") => /\ index[n] # 0 /\ index0 = index[n]
                                  /\ kind = "rdnss" => addrs[n] # "none"
  <2> SUFFICES ASSUME ~Trouble(n, "interface")
               PROVE  /\ index[n] # 0 /\ index0 = index[n]
                      /\ kind = "rdnss" => addrs[n] # "none"
    OBVIOUS
  <2>1. index[n] # 0 /\ served[n] = index[n]
    BY DEF Trouble
  <2>2. index[n] = last[n]
    BY <2>1 DEF Inv, IndexInv
  <2>3. index0 = index[n]
    BY <2>1, <2>2 DEF Inv, PreparedInv, PreparedAt
  <2>4. kind = "rdnss" => addrs[n] # "none"
    BY <1>2 DEF Trouble
  <2> QED
    BY <2>1, <2>3, <2>4
<1>4. kind = "route" /\ loRoutes = "default" => Trouble(n, "route")
  BY <1>2 DEF Trouble
<1> HIDE DEF kind, index0
<1>5. Apply(n, k) = CASE kind = "prefix" -> PrefixApply(n, index0)
                      [] kind = "route" -> RouteApply(n, index0)
                      [] kind = "rdnss" -> RDNSSApply(n, index0)
                      [] kind = "deprecated" -> DeprecatedApply(index0)
                      [] OTHER -> "ok"
  BY DEF Apply, kind, index0
<1>6. CASE kind = "prefix"
  BY <1>1, <1>3, <1>5, <1>6 DEF PrefixApply
<1>7. CASE kind = "route"
  <2>1. Apply(n, k) = RouteApply(n, index0)
    BY <1>5, <1>7
  <2>2. CASE loRoutes = "default"
    BY <1>1, <1>4, <1>7, <2>1, <2>2 DEF RouteApply
  <2>3. CASE loRoutes # "default"
    BY <1>1, <1>3, <2>1, <2>3 DEF RouteApply
  <2> QED
    BY <2>2, <2>3
<1>8. CASE kind = "rdnss"
  BY <1>1, <1>3, <1>5, <1>8 DEF RDNSSApply
<1>9. CASE kind = "deprecated"
  BY <1>1, <1>3, <1>5, <1>9 DEF DeprecatedApply
<1>10. CASE kind \notin {"prefix", "route", "rdnss", "deprecated"}
  BY <1>5, <1>10
<1> QED
  BY <1>6, <1>7, <1>8, <1>9, <1>10

(* What a plugin adds to the series, by its kind.                          *)
LEMMA SeriesAt ==
  ASSUME NEW n, NEW k, NEW label, label # "none"
  PROVE  /\ Series(n, k) \subseteq {<<Label(cfg[n].plugins[k]), k>>}
         /\ <<label, k>> \in Series(n, k)
              <=> label = Label(cfg[n].plugins[k]) /\ Expands(n, cfg[n].plugins[k])
BY DEF Series

(* If an automatic plugin expands to its series, all plugins with its      *)
(* label do.                                                               *)
LEMMA AllExpand ==
  ASSUME NEW n, NEW kind \in {"prefix", "route", "rdnss"}, Expands(n, kind),
         NEW other, Label(other) = Label(kind)
  PROVE  Expands(n, other)
<1>1. CASE kind = "prefix"
  <2>1. other \in {"prefix", "explicitPrefix"}
    BY <1>1 DEF Label
  <2> QED
    BY <1>1, <2>1 DEF Expands
<1>2. CASE kind = "route"
  <2>1. other \in {"route", "explicitRoute"}
    BY <1>2 DEF Label
  <2> QED
    BY <1>2, <2>1 DEF Expands
<1>3. CASE kind = "rdnss"
  <2>1. other = "rdnss"
    BY <1>3 DEF Label
  <2> QED
    BY <1>3, <2>1 DEF Expands
<1> QED
  BY <1>1, <1>2, <1>3

(* Two plugins that now give the same series are trouble for a scrape.     *)
LEMMA ClashIsTrouble ==
  ASSUME Inv, UnderWay, req.kind = "scrape", NEW n \in Ifaces, Advertise(n),
         NEW k \in DOMAIN cfg[n].plugins, NEW l \in DOMAIN cfg[n].plugins, k # l,
         NEW label, <<label, k>> \in Series(n, k), <<label, l>> \in Series(n, l)
  PROVE  "series" \in req.troubled
<1> DEFINE S == UNION {Series(n, j) : j \in DOMAIN cfg[n].plugins}
<1>1. <<label, k>> \in S /\ <<label, l>> \in S
  OBVIOUS
<1>2. <<label, k>> # <<label, l>> /\ <<label, k>>[1] = <<label, l>>[1]
  OBVIOUS
<1> HIDE DEF S
<1>3. Clash(S)
  BY <1>1, <1>2 DEF Clash
<1>4. Trouble(n, "series")
  BY <1>3 DEF Trouble, S
<1>5. "series" \in Troubles("scrape")
  BY <1>4 DEF Troubles, Reasons, Needed
<1> QED
  BY <1>5 DEF Inv, RequestInv, Knowing

(* What applying a plugin adds is a series as Going describes them.        *)
LEMMA SeriesAdded ==
  ASSUME Inv, UnderWay, req.kind = "scrape", req.i \in Ifaces, Advertise(req.i),
         req.k \in DOMAIN cfg[req.i].plugins, NEW x \in Series(req.i, req.k)
  PROVE  SeriesOf(req, x)
<1> DEFINE n == req.i
           k == req.k
           plugins == cfg[n].plugins
<1>1. /\ x = <<Label(plugins[k]), k>> /\ x[1] = Label(plugins[k]) /\ x[2] = k
      /\ x[1] # "none" /\ Expands(n, plugins[k])
  BY DEF Series
<1>2. ASSUME plugins[k] \in {"prefix", "route", "rdnss"},
             NEW l \in DOMAIN plugins, l # k, Label(plugins[l]) = x[1]
      PROVE  "series" \in req.troubled
  <2>1. Expands(n, plugins[l])
    BY <1>1, <1>2, AllExpand
  <2>2. <<x[1], k>> \in Series(n, k) /\ <<x[1], l>> \in Series(n, l)
    BY <1>1, <1>2, <2>1, SeriesAt
  <2> QED
    BY <1>2, <2>2, ClashIsTrouble
<1> QED
  BY <1>1, <1>2 DEF SeriesOf

(* If the same series was collected twice, the request knows why.          *)
LEMMA ClashKnown ==
  ASSUME Inv, UnderWay, req.kind = "scrape", req.i \in Ifaces, Clash(req.series)
  PROVE  "series" \in req.troubled
<1> DEFINE n == req.i
           plugins == cfg[n].plugins
<1>1. req \in ReqType /\ Going(req, shown)
  BY DEF Inv, TypeOK, RequestInv
<1>2. PICK x \in req.series, y \in req.series : x # y /\ x[1] = y[1]
  BY DEF Clash
<1>3. Advertise(n) /\ SeriesOf(req, x) /\ SeriesOf(req, y)
  BY <1>1, <1>2 DEF Going
<1>4. /\ x = <<x[1], x[2]>> /\ y = <<y[1], y[2]>>
      /\ x[2] \in DOMAIN plugins /\ y[2] \in DOMAIN plugins
  BY <1>1, <1>3 DEF ReqType, SeriesOf
<1>5. x[2] # y[2]
  BY <1>2, <1>4
<1>6. CASE \/ plugins[x[2]] \in {"prefix", "route", "rdnss"}
           \/ plugins[y[2]] \in {"prefix", "route", "rdnss"}
  BY <1>2, <1>3, <1>4, <1>5, <1>6 DEF SeriesOf
<1>7. CASE /\ plugins[x[2]] \notin {"prefix", "route", "rdnss"}
           /\ plugins[y[2]] \notin {"prefix", "route", "rdnss"}
  <2>1. PICK k \in DOMAIN plugins, l \in DOMAIN plugins : k = x[2] /\ l = y[2]
    BY <1>4
  <2>2. /\ k # l /\ Expands(n, plugins[k]) /\ Expands(n, plugins[l])
        /\ x[1] = Label(plugins[k]) /\ x[1] = Label(plugins[l]) /\ x[1] # "none"
    BY <1>2, <1>3, <1>5, <1>7, <2>1 DEF SeriesOf, Expands
  <2>3. <<x[1], k>> \in Series(n, k) /\ <<x[1], l>> \in Series(n, l)
    BY <2>2, SeriesAt
  <2> QED
    BY <1>3, <2>2, <2>3, ClashIsTrouble
<1> QED
  BY <1>6, <1>7

-----------------------------------------------------------------------------
(* The report.                                                             *)

(* One more interface.                                                     *)
LEMMA AnswerNext ==
  ASSUME NEW m \in Nat
  PROVE  /\ Answer(m) \in Seq([i : Nat, ra : {"null", "built"}])
         /\ Len(Answer(m)) = m
         /\ Answer(m + 1) =
              Append(Answer(m), [i |-> m + 1,
                                 ra |-> IF Advertise(m + 1) THEN "built" ELSE "null"])
<1> DEFINE E(n) == [i |-> n, ra |-> IF Advertise(n) THEN "built" ELSE "null"]
           R == [i : Nat, ra : {"null", "built"}]
<1>1. \A n \in Nat : E(n) \in R
  OBVIOUS
<1>2. /\ Answer(m) = [n \in 1..m |-> E(n)]
      /\ Answer(m + 1) = [n \in 1..(m + 1) |-> E(n)]
  BY DEF Answer
<1> HIDE DEF E, R
<1>3. Answer(m) \in Seq(R) /\ Len(Answer(m)) = m
  BY <1>1, <1>2
<1>4. Answer(m + 1) = Append(Answer(m), E(m + 1))
  BY <1>1, <1>2
<1> QED
  BY <1>3, <1>4 DEF E, R

(* The same, if the RA is filled in afterwards.                            *)
LEMMA AnswerFilled ==
  ASSUME NEW m \in Nat, Advertise(m + 1),
         NEW s, s = Append(Answer(m), [i |-> m + 1, ra |-> "null"])
  PROVE  [s EXCEPT ![m + 1].ra = "built"] = Answer(m + 1)
<1> DEFINE A == Answer(m)
           R == [i : Nat, ra : {"null", "built"}]
           e == [i |-> m + 1, ra |-> "null"]
           g == [i |-> m + 1, ra |-> "built"]
<1>1. A \in Seq(R) /\ Len(A) = m /\ e \in R /\ g \in R
  <2>1. A \in Seq(R) /\ Len(A) = m
    BY AnswerNext, Zenon
  <2>2. m + 1 \in Nat
    OBVIOUS
  <2> QED
    BY <2>1, <2>2
<1>2. [e EXCEPT !.ra = "built"] = g
  OBVIOUS
<1>3. Answer(m + 1) = Append(A, g)
  BY AnswerNext, Zenon
<1>4. s = Append(A, e)
  OBVIOUS
<1> HIDE DEF A, R, e, g
<1>5. s \in Seq(R) /\ DOMAIN s = 1..(m + 1) /\ s[m + 1] = e
      /\ \A n \in 1..m : s[n] = A[n]
  <2>1. /\ s \in Seq(R) /\ Len(s) = Len(A) + 1 /\ s[Len(A) + 1] = e
        /\ \A n \in 1..Len(A) : s[n] = A[n]
    <3> DEFINE w == Append(A, e)
    <3>1. /\ w \in Seq(R) /\ Len(w) = Len(A) + 1 /\ w[Len(A) + 1] = e
          /\ \A n \in 1..Len(A) : w[n] = A[n]
      BY <1>1, AppendProperties
    <3> HIDE DEF w
    <3>2. s = w
      BY <1>4 DEF w
    <3> QED
      BY <3>1, <3>2, Zenon
  <2>2. DOMAIN s = 1..Len(s)
    BY <2>1
  <2> QED
    BY <1>1, <2>1, <2>2
<1>6. [s EXCEPT ![m + 1].ra = "built"] = [s EXCEPT ![m + 1] = g]
  BY <1>2, <1>5
<1>7. [s EXCEPT ![m + 1] = g] = Append(A, g)
  <2> DEFINE t == Append(A, g)
             u == [s EXCEPT ![m + 1] = g]
  <2>1. t \in Seq(R) /\ DOMAIN t = 1..(m + 1) /\ t[m + 1] = g
        /\ \A n \in 1..m : t[n] = A[n]
    BY <1>1, AppendProperties
  <2>2. u = [n \in DOMAIN s |-> IF n = m + 1 THEN g ELSE s[n]]
    BY <1>5
  <2> HIDE DEF t, u
  <2>3. t = [n \in DOMAIN t |-> t[n]]
    BY <2>1
  <2>4. \A n \in 1..(m + 1) : t[n] = IF n = m + 1 THEN g ELSE s[n]
    BY <1>5, <2>1
  <2>5. t = u
    BY <1>5, <2>1, <2>2, <2>3, <2>4
  <2> QED
    BY <2>5 DEF t, u
<1> QED
  BY <1>3, <1>6, <1>7

-----------------------------------------------------------------------------
(* What an observer's step leaves alone.                                   *)
LEMMA ObserveFrame ==
  ASSUME Inv, UNCHANGED <<cfg, kernelVars, advVars>>, req' \in ReqType,
         shown' \in Seq([i : Nat, ra : {"null", "built"}]), RequestInv'
  PROVE  Inv'
<1>1. Ifaces' = Ifaces
  BY DEF Ifaces
<1>2. TypeOK'
  BY <1>1 DEF Inv, TypeOK, kernelVars, advVars
<1>3. IndexInv' /\ PreparedInv'
  BY <1>1 DEF Inv, IndexInv, PreparedInv, PreparedAt, kernelVars, advVars
<1> QED
  BY <1>2, <1>3 DEF Inv

(* An observer learns nothing new about the world by stepping.             *)
LEMMA WorldSame ==
  ASSUME UNCHANGED <<cfg, kernelVars, advVars>>
  PROVE  /\ Ifaces' = Ifaces
         /\ \A n : Advertise(n)' <=> Advertise(n)
         /\ \A kind : Troubles(kind)' = Troubles(kind)
<1>1. Ifaces' = Ifaces /\ \A n : Advertise(n)' <=> Advertise(n)
  BY DEF Ifaces, Advertise
<1>2. \A n, k : Series(n, k)' = Series(n, k)
  <2>1. \A n, kind : Expands(n, kind)' <=> Expands(n, kind)
    BY DEF Expands, kernelVars
  <2> QED
    BY <2>1, Zenon DEF Series
<1>3. ASSUME NEW n, NEW r PROVE Trouble(n, r)' <=> Trouble(n, r)
  <2>1. UNION {Series(n, k) : k \in DOMAIN cfg[n].plugins}'
          = UNION {Series(n, k) : k \in DOMAIN cfg[n].plugins}
    BY <1>2, Zenon
  <2> QED
    BY <1>1, <2>1, Zenon DEF Trouble, Clash, Advertise, kernelVars, advVars
<1>4. ASSUME NEW kind PROVE Troubles(kind)' = Troubles(kind)
  <2>1. Needed(kind)' = Needed(kind)
    BY <1>1, Zenon DEF Needed
  <2> QED
    BY <1>3, <2>1, Zenon DEF Troubles
<1> QED
  BY <1>1, <1>4

(* The report of a request that goes on.                                   *)
LEMMA GoingReport ==
  ASSUME NEW r \in ReqType, NEW s, Going(r, s)
  PROVE  s \in Seq([i : Nat, ra : {"null", "built"}])
<1> DEFINE R == [i : Nat, ra : {"null", "built"}]
           A == Answer(r.i - 1)
           e == [i |-> r.i, ra |-> "null"]
<1>1. r.i \in Nat /\ r.i - 1 \in Nat
  BY DEF ReqType
<1>2. A \in Seq(R)
  BY <1>1, AnswerNext
<1>3. e \in R
  BY <1>1
<1>4. s = A \/ s = Append(A, e)
  BY Zenon DEF Going
<1> HIDE DEF A, e, R
<1>5. s \in Seq(R)
  BY <1>2, <1>3, <1>4
<1> QED
  BY <1>5 DEF R

(* A request goes on.                                                      *)
LEMMA GoesOn ==
  ASSUME Inv, UnderWay, UNCHANGED <<cfg, kernelVars, advVars>>,
         NEW r \in ReqType, NEW s, req' = r, shown' = s,
         r.kind = req.kind, r.warm = req.warm, r.troubled = req.troubled,
         r.pc \notin {"idle", "done"}, Going(r, s)
  PROVE  Inv'
<1>1. /\ Ifaces' = Ifaces
      /\ \A n : Advertise(n)' <=> Advertise(n)
      /\ \A kind : Troubles(kind)' = Troubles(kind)
  BY WorldSame
<1>2. Knowing /\ req.kind \in {"scrape", "api"}
  BY DEF Inv, RequestInv
<1>3. Knowing'
  <2>1. Troubles(req.kind)' \subseteq req'.troubled
    <3>1. PICK kind : kind = req.kind
      OBVIOUS
    <3>2. Troubles(kind)' \subseteq r.troubled
      BY <1>1, <1>2, <3>1 DEF Knowing
    <3>3. req'.kind = kind
      BY <3>1
    <3> QED
      BY <3>2, <3>3
  <2>2. (req.warm => \A n \in Ifaces : Advertise(n) => served[n] # 0)'
    BY <1>1, <1>2 DEF Knowing, advVars
  <2> QED
    BY <2>1, <2>2 DEF Knowing
<1>4. Going(req, shown)'
  <2>1. Answer(req.i - 1)' = Answer(r.i - 1)
    BY <1>1, Zenon DEF Answer
  <2>2. (shown = IF req.kind = "api" /\ req.pc \in {"apply", "collect"}
                 THEN Append(Answer(req.i - 1), [i |-> req.i, ra |-> "null"])
                 ELSE Answer(req.i - 1))'
    <3>1. s = IF r.kind = "api" /\ r.pc \in {"apply", "collect"}
              THEN Append(Answer(r.i - 1), [i |-> r.i, ra |-> "null"])
              ELSE Answer(r.i - 1)
      BY Zenon DEF Going
    <3> QED
      BY <2>1, <3>1, Zenon
  <2>3. \A x : SeriesOf(req, x)' <=> SeriesOf(r, x)
    BY DEF SeriesOf
  <2>4. (req.kind = "scrape" => \A x \in req.series : SeriesOf(req, x))'
    BY <2>3 DEF Going
  <2>5. /\ r.pc = "apply" => Advertise(req.i)'
        /\ r.pc = "collect" /\ r.kind = "api" => Advertise(req.i)'
        /\ r.series # {} => Advertise(req.i)'
    BY DEF Going, Advertise
  <2>6. /\ r.status \in {"ok", "duplicate"}
        /\ r.status = "duplicate" => "series" \in r.troubled
        /\ r.i <= Len(cfg) + 1
        /\ r.pc \in {"interface", "forwarding"} => r.series = {}
        /\ r.pc \in {"apply", "collect"} => r.i \in Ifaces
        /\ r.pc = "forwarding" => r.kind = "scrape"
    BY DEF Going
  <2> QED
    BY <1>1, <2>2, <2>4, <2>5, <2>6 DEF Going
<1>5. RequestInv'
  BY <1>2, <1>3, <1>4 DEF RequestInv, UnderWay, ServedUnlessTroubled,
                          WarmPanicsOnlyOnRoute, AnswerMatchesConfig
<1>6. shown' \in Seq([i : Nat, ra : {"null", "built"}])
  BY GoingReport
<1> QED
  BY <1>5, <1>6, ObserveFrame

(* A request fails, for a reason it may have.                              *)
LEMMA FailInv ==
  ASSUME Inv, UnderWay, NEW how \in {"error", "panic"}, Fail(how),
         req.troubled # {} \/ Pref64Panic,
         how = "panic" => ~req.warm \/ "route" \in req.troubled \/ Pref64Panic
  PROVE  Inv'
<1>1. /\ req' = [req EXCEPT !.pc = "done", !.status = how]
      /\ UNCHANGED <<cfg, kernelVars, advVars, shown>>
  BY DEF Fail, Step
<1>2. req \in ReqType
  BY DEF Inv, TypeOK
<1>3. /\ req' \in ReqType /\ req'.pc = "done" /\ req'.status = how
      /\ req'.kind = req.kind /\ req'.i = req.i
      /\ req'.warm = req.warm /\ req'.troubled = req.troubled
  BY <1>1, <1>2 DEF ReqType
<1>4. Pref64Panic' <=> Pref64Panic
  BY <1>1, <1>3 DEF Pref64Panic
<1>5. RequestInv'
  BY <1>3, <1>4 DEF RequestInv, UnderWay, ServedUnlessTroubled,
                    WarmPanicsOnlyOnRoute, AnswerMatchesConfig
<1>6. shown' \in Seq([i : Nat, ra : {"null", "built"}])
  BY <1>1 DEF Inv, TypeOK
<1> QED
  BY <1>1, <1>3, <1>5, <1>6, ObserveFrame

(* No request.                                                             *)
LEMMA IdleType == Idle \in ReqType /\ Idle.pc = "idle"
<1>1. PICK no \in BOOLEAN : no = FALSE
  BY Zenon
<1>2. Idle = [kind |-> "none", pc |-> "idle", i |-> 1, k |-> 1, series |-> {},
              status |-> "ok", warm |-> no, troubled |-> {}]
  BY <1>1, Zenon DEF Idle
<1> QED
  BY <1>2 DEF ReqType

(* A request begins: it knows of the trouble there is.                     *)
LEMMA RequestBegins ==
  ASSUME Inv, NEW kind \in {"scrape", "api"}, Request(kind)
  PROVE  Inv'
<1> DEFINE W == \A n \in Ifaces : Advertise(n) => served[n] # 0
           T == Troubles(kind)
<1>1. /\ req' = [Idle EXCEPT !.kind = kind, !.pc = "interface",
                             !.warm = W, !.troubled = T]
      /\ UNCHANGED <<cfg, kernelVars, advVars, shown>> /\ req.pc = "idle"
  BY DEF Request
<1>2. PICK w \in BOOLEAN : w = W
  BY Zenon
<1>3. PICK no \in BOOLEAN : no = FALSE
  BY Zenon
<1>4. T \in SUBSET Reasons
  BY DEF Troubles
<1> HIDE DEF W, T
<1>5. req' = [kind |-> kind, pc |-> "interface", i |-> 1, k |-> 1,
              series |-> {}, status |-> "ok", warm |-> w, troubled |-> T]
  BY <1>1, <1>2, <1>3 DEF Idle
<1>6. /\ req' \in ReqType /\ req'.pc = "interface" /\ req'.status = "ok"
      /\ req'.kind = kind /\ req'.warm = w /\ req'.troubled = T
      /\ req'.i = 1 /\ req'.series = {}
  BY <1>4, <1>5 DEF ReqType
<1>7. /\ Ifaces' = Ifaces
      /\ \A n : Advertise(n)' <=> Advertise(n)
      /\ Troubles(kind)' = Troubles(kind)
  BY <1>1, WorldSame
<1>8. Troubles(req.kind)' \subseteq req'.troubled
  <2>1. Troubles(kind)' \subseteq T
    BY <1>7 DEF T
  <2> QED
    BY <1>6, <2>1
<1>9. req'.warm => (\A n \in Ifaces : Advertise(n) => served[n] # 0)'
  BY <1>1, <1>2, <1>6, <1>7 DEF W, advVars
<1>10. Going(req, shown)'
  <2>1. shown' = <<>>
    BY <1>1 DEF Inv, RequestInv
  <2>2. Answer(req.i - 1)' = <<>>
    <3>1. Answer(req.i - 1)' =
            [n \in 1..0 |-> [i |-> n, ra |-> IF Advertise(n)' THEN "built" ELSE "null"]]
      BY <1>6 DEF Answer
    <3> QED
      BY <3>1
  <2>3. Len(cfg') \in Nat /\ 1 <= Len(cfg') + 1
    <3>1. Len(cfg) \in Nat
      BY CfgType DEF Inv, TypeOK
    <3> QED
      BY <1>1, <3>1
  <2> QED
    BY <1>6, <2>1, <2>2, <2>3 DEF Going
<1>11. RequestInv'
  BY <1>6, <1>8, <1>9, <1>10 DEF RequestInv, Knowing, ServedUnlessTroubled,
                                 WarmPanicsOnlyOnRoute, AnswerMatchesConfig
<1>12. shown' \in Seq([i : Nat, ra : {"null", "built"}])
  BY <1>1 DEF Inv, TypeOK
<1> QED
  BY <1>1, <1>6, <1>11, <1>12, ObserveFrame

-----------------------------------------------------------------------------
(* The request's position is that of an interface.                         *)
LEMMA AtInterface ==
  ASSUME Inv, NEW pc, At(pc)
  PROVE  req \in ReqType /\ req.i \in Ifaces /\ req.pc = pc
<1>1. cfg \in Configs /\ req \in ReqType
  BY DEF Inv, TypeOK
<1>2. Ifaces = 1..Len(cfg) /\ Len(cfg) \in Nat
  BY <1>1, CfgType
<1>3. req.i \in Nat \ {0} /\ req.i <= Len(cfg) /\ req.pc = pc
  BY <1>1 DEF At, ReqType
<1> QED
  BY <1>1, <1>2, <1>3

(* An interface that is gone is trouble for whoever depends on it.         *)
LEMMA GoneIsTrouble ==
  ASSUME Inv, UnderWay, req.i \in Ifaces, index[req.i] = 0,
         req.kind = "scrape" \/ Advertise(req.i)
  PROVE  req.troubled # {}
<1>1. Trouble(req.i, "interface") /\ req.i \in Needed(req.kind)
  BY DEF Trouble, Needed
<1>2. "interface" \in Troubles(req.kind)
  BY <1>1 DEF Troubles, Reasons
<1> QED
  BY <1>2 DEF Inv, RequestInv, Knowing

(* A request goes on to the next interface, having reported this one.      *)
LEMMA GoesToNext ==
  ASSUME Inv, UnderWay, req.i \in Ifaces, UNCHANGED <<cfg, kernelVars, advVars>>,
         NEW st \in {"ok", "duplicate"},
         st = "duplicate" => "series" \in req.troubled,
         req' = [req EXCEPT !.pc = "interface", !.i = req.i + 1, !.k = 1,
                            !.series = {}, !.status = st],
         shown' = Answer(req.i)
  PROVE  Inv'
<1>1. req \in ReqType /\ req.i \in Nat \ {0}
  BY DEF Inv, TypeOK, ReqType
<1>2. Len(cfg) \in Nat /\ req.i <= Len(cfg)
  <2>1. Ifaces = 1..Len(cfg) /\ Len(cfg) \in Nat
    BY CfgType DEF Inv, TypeOK
  <2> QED
    BY <1>1, <2>1
<1>3. PICK j \in Nat \ {0} : j = req.i + 1
  BY <1>1
<1> DEFINE r == [kind |-> req.kind, pc |-> "interface", i |-> j, k |-> 1,
                 series |-> {}, status |-> st, warm |-> req.warm,
                 troubled |-> req.troubled]
<1>4. /\ r \in ReqType /\ r.kind = req.kind /\ r.warm = req.warm
      /\ r.troubled = req.troubled /\ r.pc = "interface" /\ r.i = j
      /\ r.series = {} /\ r.status = st
  <2>1. /\ req.kind \in {"none", "scrape", "api"} /\ req.warm \in BOOLEAN
        /\ req.troubled \in SUBSET Reasons
    BY <1>1 DEF ReqType
  <2>2. r \in ReqType
    BY <2>1 DEF ReqType
  <2> QED
    BY <2>2
<1>5. req' = r
  <2>1. req' = [req EXCEPT !.pc = "interface", !.i = j, !.k = 1,
                           !.series = {}, !.status = st]
    BY <1>3
  <2> QED
    BY <1>1, <2>1 DEF ReqType
<1> HIDE DEF r
<1>6. shown' = Answer(r.i - 1)
  <2>1. r.i - 1 = req.i
    BY <1>1, <1>3, <1>4
  <2> QED
    BY <2>1
<1>7. r.i <= Len(cfg) + 1
  BY <1>1, <1>2, <1>3, <1>4
<1>8. Going(r, Answer(r.i - 1))
  BY <1>4, <1>7 DEF Going
<1> QED
  BY <1>4, <1>5, <1>6, <1>8, GoesOn

(* constScrape's reads of the switches.                                    *)
LEMMA ScrapingInv ==
  ASSUME Inv, ScrapeAutoconf \/ ScrapeForwarding
  PROVE  Inv'
<1>1. req.kind = "scrape" /\ (At("interface") \/ At("forwarding"))
  BY DEF ScrapeAutoconf, ScrapeForwarding
<1>2. /\ req \in ReqType /\ req.i \in Ifaces /\ UnderWay
      /\ req.pc \in {"interface", "forwarding"}
  BY <1>1, AtInterface DEF UnderWay
<1>3. Going(req, shown) /\ req.series = {}
  BY <1>2 DEF Inv, RequestInv, Going
<1>4. CASE index[req.i] = 0 /\ Fail("error")
  BY <1>1, <1>2, <1>4, GoneIsTrouble, FailInv
<1>5. ASSUME NEW pc \in {"forwarding", "apply", "collect"},
             pc = "apply" => Advertise(req.i),
             Step([req EXCEPT !.pc = pc])
      PROVE  Inv'
  <2> DEFINE r == [req EXCEPT !.pc = pc]
  <2>1. /\ r \in ReqType /\ r.kind = req.kind /\ r.warm = req.warm
        /\ r.troubled = req.troubled /\ r.pc = pc /\ r.i = req.i
        /\ r.series = req.series /\ r.status = req.status
    BY <1>2 DEF ReqType
  <2>2. req' = r /\ shown' = shown /\ UNCHANGED <<cfg, kernelVars, advVars>>
    BY <1>5 DEF Step
  <2> HIDE DEF r
  <2>3. Going(r, shown)
    <3>1. shown = Answer(r.i - 1)
      BY <1>1, <1>3, <2>1 DEF Going
    <3>2. shown = IF r.kind = "api" /\ r.pc \in {"apply", "collect"}
                  THEN Append(Answer(r.i - 1), [i |-> r.i, ra |-> "null"])
                  ELSE Answer(r.i - 1)
      BY <1>1, <2>1, <3>1
    <3> QED
      BY <1>1, <1>2, <1>3, <1>5, <2>1, <3>2 DEF Going
  <2> QED
    BY <1>2, <2>1, <2>2, <2>3, GoesOn
<1>6. CASE ScrapeAutoconf
  BY <1>4, <1>5, <1>6 DEF ScrapeAutoconf
<1>7. CASE ScrapeForwarding
  <2>1. CASE Advertise(req.i)
    BY <1>4, <1>5, <1>7, <2>1 DEF ScrapeForwarding
  <2>2. CASE ~Advertise(req.i)
    BY <1>4, <1>5, <1>7, <2>2 DEF ScrapeForwarding
  <2> QED
    BY <2>1, <2>2
<1> QED
  BY <1>6, <1>7

(* The report so far, at a request's position.                             *)
LEMMA ReportAt ==
  ASSUME Inv, UnderWay, req.i \in Ifaces
  PROVE  /\ req.i - 1 \in Nat
         /\ shown = IF req.kind = "api" /\ req.pc \in {"apply", "collect"}
                    THEN Append(Answer(req.i - 1), [i |-> req.i, ra |-> "null"])
                    ELSE Answer(req.i - 1)
         /\ Answer(req.i) =
              Append(Answer(req.i - 1),
                     [i |-> req.i, ra |-> IF Advertise(req.i) THEN "built" ELSE "null"])
<1>1. req.i \in Nat \ {0}
  BY DEF Inv, TypeOK, ReqType
<1>2. PICK m \in Nat : m = req.i - 1 /\ req.i = m + 1
  BY <1>1
<1>3. Answer(m + 1) =
        Append(Answer(m), [i |-> m + 1,
                           ra |-> IF Advertise(m + 1) THEN "built" ELSE "null"])
  BY AnswerNext
<1>4. Going(req, shown)
  BY DEF Inv, RequestInv
<1> QED
  BY <1>2, <1>3, <1>4, Zenon DEF Going

(* The API at an interface: reported, and with an RA to come if any.       *)
LEMMA InterfacesInv ==
  ASSUME Inv, InterfacesContinue \/ InterfacesForwarding
  PROVE  Inv'
<1>1. req.kind = "api" /\ At("interface")
  BY DEF InterfacesContinue, InterfacesForwarding
<1>2. req \in ReqType /\ req.i \in Ifaces /\ req.pc = "interface" /\ UnderWay
  BY <1>1, AtInterface DEF UnderWay
<1>3. Going(req, shown) /\ req.series = {}
  BY <1>2 DEF Inv, RequestInv, Going
<1>4. shown = Answer(req.i - 1)
  BY <1>2, <1>3 DEF Going
<1>5. CASE InterfacesContinue
  <2>1. /\ ~Advertise(req.i)
        /\ NextInterface(Append(shown, [i |-> req.i, ra |-> "null"]))
    BY <1>5 DEF InterfacesContinue
  <2>2. Answer(req.i) = Append(shown, [i |-> req.i, ra |-> "null"])
    <3>1. Answer(req.i) =
            Append(Answer(req.i - 1),
                   [i |-> req.i, ra |-> IF Advertise(req.i) THEN "built" ELSE "null"])
      BY <1>2, ReportAt
    <3> QED
      BY <1>4, <2>1, <3>1
  <2>3. PICK st \in {"ok", "duplicate"} : st = req.status
    BY <1>3 DEF Going
  <2>4. req' = [req EXCEPT !.pc = "interface", !.i = req.i + 1, !.k = 1,
                           !.series = {}, !.status = st]
    BY <1>2, <2>1, <2>3 DEF NextInterface, ReqType
  <2>5. shown' = Answer(req.i) /\ UNCHANGED <<cfg, kernelVars, advVars>>
    BY <2>1, <2>2 DEF NextInterface
  <2>6. st = "duplicate" => "series" \in req.troubled
    BY <1>3, <2>3 DEF Going
  <2> QED
    BY <1>2, <2>4, <2>5, <2>6, GoesToNext
<1>6. CASE InterfacesForwarding
  <2>1. Advertise(req.i)
    BY <1>6 DEF InterfacesForwarding
  <2>2. CASE index[req.i] = 0 /\ Fail("error")
    BY <1>2, <2>1, <2>2, GoneIsTrouble, FailInv
  <2>3. CASE /\ shown' = Append(shown, [i |-> req.i, ra |-> "null"])
             /\ req' = [req EXCEPT !.pc = "apply"]
             /\ UNCHANGED <<cfg, kernelVars, advVars>>
    <3> DEFINE r == [req EXCEPT !.pc = "apply"]
               s == Append(Answer(req.i - 1), [i |-> req.i, ra |-> "null"])
    <3>1. /\ r \in ReqType /\ r.kind = req.kind /\ r.warm = req.warm
          /\ r.troubled = req.troubled /\ r.pc = "apply" /\ r.i = req.i
          /\ r.series = req.series /\ r.status = req.status
      BY <1>2 DEF ReqType
    <3>2. shown' = s /\ s = Append(Answer(r.i - 1), [i |-> r.i, ra |-> "null"])
      BY <1>4, <2>3, <3>1
    <3>3. req' = r
      BY <2>3
    <3> HIDE DEF r, s
    <3>4. Going(r, s)
      BY <1>1, <1>2, <1>3, <2>1, <3>1, <3>2 DEF Going
    <3> QED
      BY <1>2, <2>3, <3>1, <3>2, <3>3, <3>4, GoesOn
  <2> QED
    BY <1>6, <2>2, <2>3 DEF InterfacesForwarding
<1> QED
  BY <1>5, <1>6

(* RouterAdvertisement: a plugin that fails does so because of trouble.    *)
LEMMA ApplyingInv ==
  ASSUME Inv, ApplyPlugin
  PROVE  Inv'
<1>1. At("apply")
  BY DEF ApplyPlugin
<1>2. req \in ReqType /\ req.i \in Ifaces /\ req.pc = "apply" /\ UnderWay
  BY <1>1, AtInterface DEF UnderWay
<1>3. Going(req, shown) /\ Knowing /\ Advertise(req.i)
  BY <1>2 DEF Inv, RequestInv, Going
<1>4. CASE req.k > Len(cfg[req.i].plugins)
  <2> DEFINE r == [req EXCEPT !.pc = "collect"]
  <2>1. /\ r \in ReqType /\ r.kind = req.kind /\ r.warm = req.warm
        /\ r.troubled = req.troubled /\ r.pc = "collect" /\ r.i = req.i
        /\ r.series = req.series /\ r.status = req.status
    BY <1>2 DEF ReqType
  <2>2. req' = r /\ shown' = shown /\ UNCHANGED <<cfg, kernelVars, advVars>>
    BY <1>4 DEF ApplyPlugin, Step
  <2> HIDE DEF r
  <2>3. \A x : SeriesOf(r, x) <=> SeriesOf(req, x)
    BY <2>1 DEF SeriesOf
  <2>4. Going(r, shown)
    BY <1>2, <1>3, <2>1, <2>3 DEF Going
  <2> QED
    BY <1>2, <2>1, <2>2, <2>4, GoesOn
<1>5. CASE ~(req.k > Len(cfg[req.i].plugins))
  <2>1. req.k \in DOMAIN cfg[req.i].plugins
    BY <1>2, <1>5, AdvertiserTypes DEF ReqType
  <2>2. /\ Apply(req.i, req.k) \in {"ok", "error", "panic"}
        /\ Apply(req.i, req.k) # "ok"
             => Trouble(req.i, "interface") \/ Trouble(req.i, "route")
        /\ served[req.i] # 0 /\ Apply(req.i, req.k) = "panic"
             => Trouble(req.i, "route")
    BY <1>2, <1>3, <2>1, ApplyOutcome
  <2>3. CASE Apply(req.i, req.k) = "ok"
    <3>1. PICK j \in Nat \ {0} : j = req.k + 1
      BY <1>2 DEF ReqType
    <3>2. PICK S \in SUBSET ({"prefix", "route", "rdnss", "dnssl"} \X (Nat \ {0})) :
            S = req.series \cup Series(req.i, req.k)
      <4>1. \A x \in Series(req.i, req.k) :
              /\ x = <<Label(cfg[req.i].plugins[req.k]), req.k>>
              /\ Label(cfg[req.i].plugins[req.k])
                   \in {"prefix", "route", "rdnss", "dnssl"}
        BY DEF Series, Label
      <4>2. req.k \in Nat \ {0}
            /\ req.series \in SUBSET ({"prefix", "route", "rdnss", "dnssl"} \X (Nat \ {0}))
        BY <1>2 DEF ReqType
      <4>3. \A a \in {"prefix", "route", "rdnss", "dnssl"} :
              <<a, req.k>> \in {"prefix", "route", "rdnss", "dnssl"} \X (Nat \ {0})
        BY <4>2
      <4> DEFINE P == {"prefix", "route", "rdnss", "dnssl"} \X (Nat \ {0})
      <4> HIDE DEF P
      <4>4. req.series \cup Series(req.i, req.k) \in SUBSET P
        BY <4>1, <4>2, <4>3 DEF P
      <4> QED
        BY <4>4 DEF P
    <3> DEFINE r == [req EXCEPT !.k = j, !.series = S]
    <3>3. /\ r \in ReqType /\ r.kind = req.kind /\ r.warm = req.warm
          /\ r.troubled = req.troubled /\ r.pc = "apply" /\ r.i = req.i
          /\ r.series = S /\ r.status = req.status
      BY <1>2 DEF ReqType
    <3>4. req' = r /\ shown' = shown /\ UNCHANGED <<cfg, kernelVars, advVars>>
      <4>1. Step([req EXCEPT !.k = req.k + 1,
                             !.series = req.series \cup Series(req.i, req.k)])
        BY <1>5, <2>3 DEF ApplyPlugin
      <4> QED
        BY <3>1, <3>2, <4>1 DEF Step
    <3> HIDE DEF r
    <3>5. ASSUME r.kind = "scrape", NEW x \in r.series PROVE SeriesOf(r, x)
      <4>1. SeriesOf(req, x)
        BY <1>2, <1>3, <2>1, <3>2, <3>3, <3>5, SeriesAdded DEF Going
      <4> QED
        BY <3>3, <4>1 DEF SeriesOf
    <3>6. Going(r, shown)
      BY <1>2, <1>3, <3>3, <3>5 DEF Going
    <3> QED
      BY <1>2, <3>3, <3>4, <3>6, GoesOn
  <2>4. CASE Apply(req.i, req.k) # "ok"
    <3>1. Fail(Apply(req.i, req.k))
      BY <1>5, <2>4 DEF ApplyPlugin
    <3>2. \A reason \in {"interface", "route"} :
            Trouble(req.i, reason) => reason \in req.troubled
      BY <1>2, <1>3 DEF Knowing, Troubles, Needed, Reasons
    <3>3. req.troubled # {}
      BY <2>2, <2>4, <3>2
    <3>4. Apply(req.i, req.k) = "panic" => ~req.warm \/ "route" \in req.troubled
      BY <1>2, <1>3, <2>2, <3>2 DEF Knowing
    <3>5. Apply(req.i, req.k) \in {"error", "panic"}
      BY <2>2, <2>4
    <3> QED
      BY <1>2, <3>1, <3>3, <3>4, <3>5, FailInv
  <2> QED
    BY <2>3, <2>4
<1> QED
  BY <1>4, <1>5

(* A scrape's report of an interface.                                      *)
LEMMA CollectingInv ==
  ASSUME Inv, collectMetrics
  PROVE  Inv'
<1>1. At("collect") /\ req.kind = "scrape"
  BY DEF collectMetrics
<1>2. req \in ReqType /\ req.i \in Ifaces /\ req.pc = "collect" /\ UnderWay
  BY <1>1, AtInterface DEF UnderWay
<1>3. Going(req, shown)
  BY <1>2 DEF Inv, RequestInv
<1>4. shown' = Answer(req.i)
  <2>1. shown = Answer(req.i - 1)
    BY <1>1, <1>3 DEF Going
  <2>2. shown' = Append(shown, [i |-> req.i,
                                ra |-> IF Advertise(req.i) THEN "built" ELSE "null"])
    BY DEF collectMetrics
  <2>3. Answer(req.i) =
          Append(Answer(req.i - 1),
                 [i |-> req.i, ra |-> IF Advertise(req.i) THEN "built" ELSE "null"])
    BY <1>2, ReportAt
  <2> QED
    BY <2>1, <2>2, <2>3, Zenon
<1>5. PICK st \in {"ok", "duplicate"} :
        st = IF Clash(req.series) THEN "duplicate" ELSE req.status
  BY <1>3 DEF Going
<1>6. st = "duplicate" => "series" \in req.troubled
  BY <1>1, <1>2, <1>3, <1>5, ClashKnown DEF Going
<1>7. /\ req' = [req EXCEPT !.pc = "interface", !.i = req.i + 1, !.k = 1,
                            !.series = {}, !.status = st]
      /\ UNCHANGED <<cfg, kernelVars, advVars>>
  BY <1>5, Zenon DEF collectMetrics
<1> QED
  BY <1>2, <1>4, <1>6, <1>7, GoesToNext

(* The API's, whose entry is there already.                                *)
LEMMA PackingInv ==
  ASSUME Inv, packRA
  PROVE  Inv'
<1>1. At("collect") /\ req.kind = "api"
  BY DEF packRA
<1>2. req \in ReqType /\ req.i \in Ifaces /\ req.pc = "collect" /\ UnderWay
  BY <1>1, AtInterface DEF UnderWay
<1>3. Going(req, shown) /\ Advertise(req.i)
  BY <1>1, <1>2 DEF Inv, RequestInv, Going
<1>4. CASE "pref64" \in ToSet(cfg[req.i].plugins)
  <2>1. Fail("panic") /\ Pref64Panic
    BY <1>1, <1>4 DEF packRA, Pref64Panic
  <2> QED
    BY <1>2, <2>1, FailInv
<1>5. CASE ~("pref64" \in ToSet(cfg[req.i].plugins))
  <2>1. NextInterface([shown EXCEPT ![req.i].ra = "built"])
    BY <1>5 DEF packRA
  <2>2. PICK m \in Nat : m = req.i - 1 /\ req.i = m + 1
    BY <1>2 DEF ReqType
  <2>3. shown = Append(Answer(m), [i |-> m + 1, ra |-> "null"])
    BY <1>1, <1>2, <1>3, <2>2 DEF Going
  <2>4. [shown EXCEPT ![m + 1].ra = "built"] = Answer(m + 1)
    BY <1>3, <2>2, <2>3, AnswerFilled
  <2>5. shown' = Answer(req.i) /\ UNCHANGED <<cfg, kernelVars, advVars>>
    <3>1. /\ shown' = [shown EXCEPT ![req.i].ra = "built"]
          /\ UNCHANGED <<cfg, kernelVars, advVars>>
      BY <2>1 DEF NextInterface
    <3> QED
      BY <2>2, <2>4, <3>1, Zenon
  <2>6. PICK st \in {"ok", "duplicate"} : st = req.status
    BY <1>3 DEF Going
  <2>7. req' = [req EXCEPT !.pc = "interface", !.i = req.i + 1, !.k = 1,
                           !.series = {}, !.status = st]
    BY <1>2, <2>1, <2>6 DEF NextInterface, ReqType
  <2>8. st = "duplicate" => "series" \in req.troubled
    BY <1>3, <2>6 DEF Going
  <2> QED
    BY <1>2, <2>5, <2>7, <2>8, GoesToNext
<1> QED
  BY <1>4, <1>5

(* A request ends, and the observer is idle again.                         *)
LEMMA EndingInv ==
  ASSUME Inv, RequestEnds \/ Respond
  PROVE  Inv'
<1>0. req \in ReqType /\ shown \in Seq([i : Nat, ra : {"null", "built"}])
  BY DEF Inv, TypeOK
<1>1. CASE RequestEnds
  <2>1. /\ req.pc = "interface" /\ req.i > Len(cfg)
        /\ UNCHANGED <<cfg, kernelVars, advVars, shown>>
    BY <1>1 DEF RequestEnds, Step
  <2>2. Going(req, shown)
    BY <2>1 DEF Inv, RequestInv, UnderWay
  <2>3. PICK st \in {"ok", "error"} :
          st = IF req.status = "duplicate" THEN "error" ELSE req.status
    BY <2>2 DEF Going
  <2>4. req' = [req EXCEPT !.pc = "done", !.status = st]
    BY <1>1, <2>3 DEF RequestEnds, Step
  <2>5. /\ req' \in ReqType /\ req'.pc = "done" /\ req'.status = st
        /\ req'.troubled = req.troubled
    BY <1>0, <2>4 DEF ReqType
  <2>6. st = "error" => req.troubled # {}
    BY <2>2, <2>3 DEF Going
  <2>7. AnswerMatchesConfig'
    <3>1. /\ Len(cfg) \in Nat /\ Ifaces = 1..Len(cfg)
      BY CfgType DEF Inv, TypeOK
    <3>2. req.i \in Nat /\ req.i <= Len(cfg) + 1
      BY <1>0, <2>2 DEF Going, ReqType
    <3>3. req.i - 1 = Len(cfg)
      BY <2>1, <3>1, <3>2
    <3>4. shown = Answer(Len(cfg))
      BY <2>1, <2>2, <3>3 DEF Going
    <3>5. Len(shown) = Len(cfg)
      BY <3>1, <3>4, AnswerNext
    <3>6. \A n \in Ifaces : /\ shown[n].i = n
                            /\ shown[n].ra = "built" <=> Advertise(n)
      BY <3>1, <3>4 DEF Answer
    <3>7. Ifaces' = Ifaces /\ \A n : Advertise(n)' <=> Advertise(n)
      BY <2>1, WorldSame
    <3> QED
      BY <2>1, <3>5, <3>6, <3>7 DEF AnswerMatchesConfig
  <2>8. RequestInv'
    BY <2>5, <2>6, <2>7 DEF RequestInv, UnderWay, ServedUnlessTroubled,
                            WarmPanicsOnlyOnRoute
  <2> QED
    BY <1>0, <2>1, <2>5, <2>8, ObserveFrame
<1>2. CASE Respond
  <2>1. req' = Idle /\ shown' = <<>> /\ UNCHANGED <<cfg, kernelVars, advVars>>
    BY <1>2 DEF Respond
  <2>2. Idle \in ReqType /\ Idle.pc = "idle"
    BY IdleType
  <2>3. RequestInv'
    BY <2>1, <2>2 DEF RequestInv, UnderWay, ServedUnlessTroubled,
                      WarmPanicsOnlyOnRoute, AnswerMatchesConfig
  <2> QED
    BY <2>1, <2>2, <2>3, ObserveFrame
<1> QED
  BY <1>1, <1>2

(* Inv holds when the daemon starts.                                       *)
LEMMA InitInv == Init => Inv
<1> SUFFICES ASSUME Init PROVE Inv
  OBVIOUS
<1>1. /\ cfg \in Configs /\ index = [n \in Ifaces |-> 0] /\ last = index
      /\ addrs = [n \in Ifaces |-> "none"]
      /\ apc = [n \in Ifaces |-> "dial"] /\ dialed = index
      /\ pos = [n \in Ifaces |-> 1] /\ served = index
      /\ prepared = [n \in Ifaces |-> [k \in DOMAIN cfg[n].plugins |-> 0]]
      /\ req = Idle /\ shown = <<>>
  BY DEF Init
<1>2. loRoutes \in {"none", "covers", "default"}
  BY DEF Init
<1>3. req \in ReqType /\ req.pc = "idle"
  BY <1>1, IdleType
<1>4. TypeOK
  BY <1>1, <1>2, <1>3, ObserversAssumption DEF TypeOK
<1>5. IndexInv
  BY <1>1 DEF IndexInv
<1>6. PreparedInv
  BY <1>1 DEF PreparedInv, PreparedAt
<1>7. RequestInv
  BY <1>1, <1>3 DEF RequestInv, UnderWay, ServedUnlessTroubled,
                    WarmPanicsOnlyOnRoute, AnswerMatchesConfig
<1> QED
  BY <1>4, <1>5, <1>6, <1>7 DEF Inv

(* A step that changes nothing keeps Inv.                                  *)
LEMMA StutterInv ==
  ASSUME Inv, UNCHANGED vars
  PROVE  Inv'
<1>1. UNCHANGED <<cfg, kernelVars, advVars, req, shown>>
  BY DEF vars
<1>2. /\ Ifaces' = Ifaces
      /\ \A n : Advertise(n)' <=> Advertise(n)
  BY <1>1, WorldSame
<1>3. CASE UnderWay
  <2>1. req \in ReqType /\ Going(req, shown)
    BY <1>3 DEF Inv, TypeOK, RequestInv
  <2> QED
    BY <1>1, <1>3, <2>1, GoesOn DEF UnderWay
<1>4. CASE ~UnderWay
  <2>1. /\ ServedUnlessTroubled' /\ WarmPanicsOnlyOnRoute'
        /\ (req.pc = "idle" => shown = <<>>)' /\ ~UnderWay'
    BY <1>1, <1>4 DEF Inv, RequestInv, UnderWay, ServedUnlessTroubled,
                      WarmPanicsOnlyOnRoute, Pref64Panic
  <2>2. AnswerMatchesConfig'
    BY <1>1, <1>2 DEF Inv, RequestInv, AnswerMatchesConfig
  <2>3. RequestInv'
    BY <2>1, <2>2 DEF RequestInv
  <2>4. /\ req' \in ReqType
        /\ shown' \in Seq([i : Nat, ra : {"null", "built"}])
    BY <1>1 DEF Inv, TypeOK
  <2> QED
    BY <1>1, <2>3, <2>4, ObserveFrame
<1> QED
  BY <1>3, <1>4

(* Inv is inductive.                                                       *)
LEMMA NextInv == Inv /\ [Next]_vars => Inv'
<1> SUFFICES ASSUME Inv, [Next]_vars PROVE Inv'
  OBVIOUS
<1>1. CASE Observe
  BY <1>1, RequestBegins, ScrapingInv, InterfacesInv, ApplyingInv,
     CollectingInv, PackingInv, EndingInv DEF Observe
<1>2. CASE UNCHANGED vars
  BY <1>2, StutterInv
<1>3. ASSUME NEW n \in Ifaces,
             \/ LinkCreated(n) \/ LinkRemoved(n) \/ AddrsChange(n)
             \/ Dial(n) \/ Prepare(n) \/ Initialized(n) \/ Redial(n)
      PROVE  Inv'
  BY <1>3, KernelInv, DialInv, PrepareInv, InitializedInv, RedialInv
<1>4. CASE LoopbackRouteChanges
  <2>1. PICK n \in Ifaces : Advertise(n)
    BY <1>4 DEF LoopbackRouteChanges
  <2> QED
    BY <1>4, <2>1, KernelInv
<1> QED
  BY <1>1, <1>2, <1>3, <1>4 DEF Next

(* The observers' inductive invariant.                                     *)
LEMMA Invariant == Spec => []Inv
BY InitInv, NextInv, PTL DEF Spec

-----------------------------------------------------------------------------
(* Every variable keeps its type: a plugin is prepared with an index that  *)
(* the kernel has given.                                                   *)
THEOREM ObserversTypeCorrect == Spec => []TypeOK
<1>1. Inv => TypeOK
  BY DEF Inv
<1> QED
  BY <1>1, Invariant, PTL

(* A request fails only for a known reason that it met under way (or on    *)
(* PREF64), for any interfaces and plugins and wherever the Advertisers    *)
(* are in dialing and preparing once more.                                 *)
THEOREM ObserversServed == Spec => []ServedUnlessTroubled
<1>1. Inv => ServedUnlessTroubled
  BY DEF Inv, RequestInv
<1> QED
  BY <1>1, Invariant, PTL

(* After every Advertiser was initialized once, a request panics only on a *)
(* default route on loopback where routes are automatic (or on PREF64),    *)
(* whatever becomes of the interfaces and the Advertisers.                 *)
THEOREM ObserversWarm == Spec => []WarmPanicsOnlyOnRoute
<1>1. Inv => WarmPanicsOnlyOnRoute
  BY DEF Inv, RequestInv
<1> QED
  BY <1>1, Invariant, PTL

(* A request that succeeds has reported every interface in its place, with *)
(* an RA exactly if it advertises.                                         *)
THEOREM ObserversAnswer == Spec => []AnswerMatchesConfig
<1>1. Inv => AnswerMatchesConfig
  BY DEF Inv, RequestInv
<1> QED
  BY <1>1, Invariant, PTL
==============================================================================
