----------------------------- MODULE Observers ------------------------------
(***************************************************************************)
(* The two observers of a running daemon, /_/api/interfaces of the debug   *)
(* HTTP server (internal/crhttp) and the scrape of the metrics             *)
(* (constScrape of internal/corerad/metrics.go).  Both go over the         *)
(* configured interfaces one by one, read the system's state and build the *)
(* RA of each, plugin by plugin, while Advertisers dial the interfaces and *)
(* prepare the same plugins, and while interfaces come, go and come back   *)
(* under another index.                                                    *)
(*                                                                         *)
(* Requests only read: one at a time is enough.  What the options hold is  *)
(* BuildRA's.                                                              *)
(***************************************************************************)
EXTENDS Naturals, SequencesExt

CONSTANTS
  Configs,    \* values of Config.Interfaces: a sequence of the mode of each
              \* interface, whether it is unicast-only, and its plugins
  MaxIndex    \* bound on the indices the kernel gives to an interface

(* Plugins, as Prepare, Apply and the metrics tell them apart: automatic   *)
(* prefixes, routes and RDNSS, which list addresses by the index they were *)
(* prepared with; deprecated ones, which read the clock; PREF64, which     *)
(* cannot be packed; an explicit prefix or route that an automatic one may *)
(* expand to as well; a DNSSL (an interface's DNSSLs have the same names,  *)
(* its automatic RDNSS no further servers); all others.                    *)
Kinds == {"prefix", "route", "rdnss", "deprecated", "pref64",
          "explicitPrefix", "explicitRoute", "dnssl", "static"}

ASSUME ObserversAssumption ==
  /\ MaxIndex \in Nat
  /\ Configs \subseteq Seq([mode : {"advertise", "monitor", "idle"},
                            unicast : BOOLEAN, plugins : Seq(Kinds)])

VARIABLES
  cfg,         \* Config.Interfaces
  index,       \* the interfaces' indices, 0 for one that is not there
  last,        \* the last index each was given; none is given twice
  addrs,       \* the best address each has: "none", "local" or "global"
  loRoutes,    \* the routes on loopback: "none", one that "covers" every
               \* global address, or a "default" route
  apc,         \* where each Advertiser is: "dial", "prepare" or "run"
  dialed,      \* the index each Advertiser has dialed
  pos,         \* the plugin that it prepares next
  prepared,    \* the index each plugin was prepared with, 0 for none
  served,      \* the index with which it last began to advertise, 0 for none
  req,         \* the request
  shown        \* what the request has reported so far

kernelVars == <<index, last, addrs, loRoutes>>
advVars == <<apc, dialed, pos, prepared, served>>
vars == <<cfg, kernelVars, advVars, req, shown>>

Ifaces == DOMAIN cfg
Advertise(n) == cfg[n].mode = "advertise"

(* Why a request may fail (Trouble, below).                                *)
Reasons == {"interface", "route", "series"}

ReqType ==
  [kind : {"none", "scrape", "api"},
   pc : {"idle", "interface", "forwarding", "apply", "collect", "done"},
   i : Nat \ {0}, k : Nat \ {0},
   series : SUBSET ({"prefix", "route", "rdnss", "dnssl"} \X (Nat \ {0})),
   status : {"ok", "duplicate", "error", "panic"},
   warm : BOOLEAN, troubled : SUBSET Reasons]

Idle == [kind |-> "none", pc |-> "idle", i |-> 1, k |-> 1, series |-> {},
         status |-> "ok", warm |-> FALSE, troubled |-> {}]

TypeOK ==
  /\ cfg \in Configs
  /\ index \in [Ifaces -> 0..MaxIndex] /\ last \in [Ifaces -> 0..MaxIndex]
  /\ addrs \in [Ifaces -> {"none", "local", "global"}]
  /\ loRoutes \in {"none", "covers", "default"}
  /\ apc \in [Ifaces -> {"dial", "prepare", "run"}]
  /\ dialed \in [Ifaces -> 0..MaxIndex] /\ served \in [Ifaces -> 0..MaxIndex]
  /\ pos \in [Ifaces -> Nat \ {0}]
  /\ DOMAIN prepared = Ifaces
  /\ \A n \in Ifaces :
       prepared[n] \in [DOMAIN cfg[n].plugins -> 0..MaxIndex]
  /\ req \in ReqType
  /\ shown \in Seq([i : Nat, ra : {"null", "built"}])

Init ==
  /\ cfg \in Configs
  /\ index = [n \in Ifaces |-> 0] /\ last = index
  /\ addrs = [n \in Ifaces |-> "none"]
  /\ loRoutes = "none"
  /\ apc = [n \in Ifaces |-> "dial"]
  /\ dialed = index
  /\ pos = [n \in Ifaces |-> 1]
  /\ prepared = [n \in Ifaces |-> [k \in DOMAIN cfg[n].plugins |-> 0]]
  /\ served = index
  /\ req = Idle /\ shown = <<>>

-----------------------------------------------------------------------------
(* Apply of the plugins, for one that was prepared with this index: what   *)
(* was nil before Prepare, and what the kernel answers to a request for    *)
(* the addresses of an index that is gone.                                 *)
PrefixApply(n, index0) ==
  CASE index0 = 0 -> "panic"
    [] index0 \notin {0, index[n]} -> "error"
    [] OTHER -> "ok"

(* A default route on loopback has no destination, on which listing the    *)
(* routes panics.  The addresses are listed afterwards.                    *)
RouteApply(n, index0) ==
  CASE index0 = 0 -> "error"
    [] index0 # 0 /\ loRoutes = "default" -> "panic"
    [] index0 \notin {0, index[n]} /\ loRoutes # "default" -> "error"
    [] OTHER -> "ok"

RDNSSApply(n, index0) ==
  CASE index0 = 0 -> "panic"
    [] index0 \notin {0, index[n]} -> "error"
    [] index0 # 0 /\ index0 = index[n] /\ addrs[n] = "none" -> "error"
    [] OTHER -> "ok"

(* The clock is nil too.                                                   *)
DeprecatedApply(index0) == IF index0 = 0 THEN "panic" ELSE "ok"

Apply(n, k) ==
  LET kind == cfg[n].plugins[k]
      index0 == prepared[n][k]
  IN CASE kind = "prefix" -> PrefixApply(n, index0)
       [] kind = "route" -> RouteApply(n, index0)
       [] kind = "rdnss" -> RDNSSApply(n, index0)
       [] kind = "deprecated" -> DeprecatedApply(index0)
       [] OTHER -> "ok"

(* The series that a plugin's option may share with another plugin's: its  *)
(* label, and what the interface must have for an automatic one to expand  *)
(* to it.                                                                  *)
Label(kind) ==
  CASE kind \in {"prefix", "explicitPrefix"} -> "prefix"
    [] kind \in {"route", "explicitRoute"} -> "route"
    [] kind \in {"rdnss", "dnssl"} -> kind
    [] OTHER -> "none"

Expands(n, kind) ==
  /\ kind = "prefix" => addrs[n] = "global"
  /\ kind = "route" => addrs[n] = "global" /\ loRoutes = "covers"
  /\ kind = "rdnss" => addrs[n] # "none"

Series(n, k) ==
  {x \in {<<Label(cfg[n].plugins[k]), k>>} :
     x[1] # "none" /\ Expands(n, cfg[n].plugins[k])}

(* Two plugins give the same series.                                       *)
Clash(series) == \E x, y \in series : x # y /\ x[1] = y[1]

(* What must not happen to an interface if a request is to succeed: it is  *)
(* not there, its Advertiser has not advertised since it came, or it has   *)
(* no address where the RA is to name one; a default route on loopback     *)
(* where routes are automatic; plugins that expand to the same.            *)
Trouble(n, reason) ==
  \/ /\ reason = "interface"
     /\ \/ index[n] = 0
        \/ Advertise(n) /\ served[n] # index[n]
        \/ Advertise(n) /\ "rdnss" \in ToSet(cfg[n].plugins) /\ addrs[n] = "none"
  \/ /\ reason = "route"
     /\ Advertise(n) /\ "route" \in ToSet(cfg[n].plugins)
     /\ loRoutes = "default"
  \/ /\ reason = "series"
     /\ Advertise(n) /\ Clash(UNION {Series(n, k) : k \in DOMAIN cfg[n].plugins})

(* The interfaces whose state a kind of request depends on, and the        *)
(* trouble there is for it.                                                *)
Needed(kind) == {n \in Ifaces : kind = "scrape" \/ Advertise(n)}

Troubles(kind) ==
  {reason \in Reasons : /\ reason = "series" => kind = "scrape"
                        /\ \E n \in Needed(kind) : Trouble(n, reason)}

(* A request that is under way remembers that there was trouble.           *)
Remember ==
  \E kind \in {req.kind} :
    req' = IF req.pc \in {"idle", "done"} THEN req
           ELSE [req EXCEPT !.troubled = @ \cup Troubles(kind)']

-----------------------------------------------------------------------------
(* The kernel.                                                             *)
LinkCreated(n) ==
  /\ index[n] = 0 /\ last[n] < MaxIndex
  /\ index' = [index EXCEPT ![n] = last[n] + 1]
  /\ last' = [last EXCEPT ![n] = @ + 1]
  /\ UNCHANGED <<cfg, addrs, loRoutes, advVars, shown>>
  /\ Remember

LinkRemoved(n) ==
  /\ index[n] # 0
  /\ index' = [index EXCEPT ![n] = 0]
  /\ addrs' = [addrs EXCEPT ![n] = "none"]
  /\ UNCHANGED <<cfg, last, loRoutes, advVars, shown>>
  /\ Remember

(* Only of interest where the outcome of a request depends on it.          *)
AddrsChange(n) ==
  /\ Advertise(n) /\ index[n] # 0
  /\ ToSet(cfg[n].plugins) \cap {"prefix", "route", "rdnss"} # {}
  /\ \E a \in {"none", "local", "global"} \ {addrs[n]} :
       addrs' = [addrs EXCEPT ![n] = a]
  /\ UNCHANGED <<cfg, index, last, loRoutes, advVars, shown>>
  /\ Remember

LoopbackRouteChanges ==
  /\ \E n \in Ifaces : Advertise(n) /\ "route" \in ToSet(cfg[n].plugins)
  /\ loRoutes' \in {"none", "covers", "default"} \ {loRoutes}
  /\ UNCHANGED <<cfg, index, last, addrs, advVars, shown>>
  /\ Remember

-----------------------------------------------------------------------------
(* Advertiser.Run: dial, prepare the plugins in order, send an initial RA  *)
(* (not if unicast-only), advertise, and all over again after an error     *)
(* that is worth it.  (Any other error ends the daemon.)                   *)
Dial(n) ==
  /\ Advertise(n) /\ apc[n] = "dial"
  /\ index[n] # 0
  /\ apc' = [apc EXCEPT ![n] = "prepare"]
  /\ dialed' = [dialed EXCEPT ![n] = index[n]]
  /\ pos' = [pos EXCEPT ![n] = 1]
  /\ UNCHANGED <<cfg, kernelVars, prepared, served, shown>>
  /\ Remember

(* A Prepare that keeps what it has.                                       *)
PrepareOnce(n) ==
  /\ apc[n] = "prepare" /\ pos[n] <= Len(cfg[n].plugins)
  /\ prepared' = [prepared EXCEPT ![n][pos[n]] = IF @ = 0 THEN dialed[n] ELSE @]
  /\ pos' = [pos EXCEPT ![n] = @ + 1]
  /\ UNCHANGED <<cfg, kernelVars, apc, dialed, served, shown>>
  /\ Remember

Prepare(n) ==
  /\ apc[n] = "prepare" /\ pos[n] <= Len(cfg[n].plugins)
  /\ prepared' = [prepared EXCEPT ![n][pos[n]] = dialed[n]]
  /\ pos' = [pos EXCEPT ![n] = @ + 1]
  /\ UNCHANGED <<cfg, kernelVars, apc, dialed, served, shown>>
  /\ Remember

Initialized(n) ==
  /\ apc[n] = "prepare" /\ pos[n] > Len(cfg[n].plugins)
  /\ \/ cfg[n].unicast
     \/ index[n] # 0 /\ \A k \in DOMAIN cfg[n].plugins : Apply(n, k) = "ok"
  /\ apc' = [apc EXCEPT ![n] = "run"]
  /\ served' = [served EXCEPT ![n] = dialed[n]]
  /\ UNCHANGED <<cfg, kernelVars, dialed, pos, prepared, shown>>
  /\ Remember

(* A Redial that forgets what the plugins were prepared with.              *)
RedialForgets(n) ==
  /\ apc[n] \in {"prepare", "run"}
  /\ apc' = [apc EXCEPT ![n] = "dial"]
  /\ prepared' = [prepared EXCEPT ![n] = [k \in DOMAIN @ |-> 0]]
  /\ UNCHANGED <<cfg, kernelVars, dialed, pos, served, shown>>
  /\ Remember

(* The link changed, or sending failed: the plugins stay as they are.      *)
Redial(n) ==
  /\ apc[n] \in {"prepare", "run"}
  /\ apc' = [apc EXCEPT ![n] = "dial"]
  /\ UNCHANGED <<cfg, kernelVars, dialed, pos, prepared, served, shown>>
  /\ Remember

-----------------------------------------------------------------------------
(* A request, of either kind.                                              *)
Request(kind) ==
  /\ req.pc = "idle"
  /\ req' = [Idle EXCEPT
               !.kind = kind, !.pc = "interface",
               !.warm = \A n \in Ifaces : Advertise(n) => served[n] # 0,
               !.troubled = Troubles(kind)]
  /\ UNCHANGED <<cfg, kernelVars, advVars, shown>>

At(pc) == req.pc = pc /\ req.i <= Len(cfg)

Step(r) == req' = r /\ UNCHANGED <<cfg, kernelVars, advVars, shown>>
Fail(how) == Step([req EXCEPT !.pc = "done", !.status = how])

(* On to the next interface.                                               *)
NextInterface(report) ==
  /\ shown' = report
  /\ req' = [req EXCEPT !.pc = "interface", !.i = @ + 1, !.k = 1, !.series = {}]
  /\ UNCHANGED <<cfg, kernelVars, advVars>>

(* constScrape reads the autoconfiguration switch of every interface ...   *)
ScrapeAutoconf ==
  /\ req.kind = "scrape" /\ At("interface")
  /\ \/ index[req.i] = 0 /\ Fail("error")
     \/ index[req.i] # 0 /\ Step([req EXCEPT !.pc = "forwarding"])

(* ... and the forwarding switch.                                          *)
ScrapeForwarding ==
  /\ req.kind = "scrape" /\ At("forwarding")
  /\ \/ index[req.i] = 0 /\ Fail("error")
     \/ /\ index[req.i] # 0
        /\ Step([req EXCEPT !.pc = IF Advertise(req.i) THEN "apply" ELSE "collect"])

(* interfaces that goes on before it has reported the interface.           *)
InterfacesSkips ==
  /\ req.kind = "api" /\ At("interface")
  /\ ~Advertise(req.i)
  /\ NextInterface(shown)

(* interfaces reports every interface, and goes on at once if there is no  *)
(* RA to show ...                                                          *)
InterfacesContinue ==
  /\ req.kind = "api" /\ At("interface")
  /\ ~Advertise(req.i)
  /\ NextInterface(Append(shown, [i |-> req.i, ra |-> "null"]))

(* ... or reads the forwarding switch.                                     *)
InterfacesForwarding ==
  /\ req.kind = "api" /\ At("interface")
  /\ Advertise(req.i)
  /\ \/ index[req.i] = 0 /\ Fail("error")
     \/ /\ index[req.i] # 0
        /\ shown' = Append(shown, [i |-> req.i, ra |-> "null"])
        /\ req' = [req EXCEPT !.pc = "apply"]
        /\ UNCHANGED <<cfg, kernelVars, advVars>>

(* Interface.RouterAdvertisement: Apply of the plugins in order.           *)
ApplyPlugin ==
  /\ At("apply")
  /\ IF req.k > Len(cfg[req.i].plugins) THEN Step([req EXCEPT !.pc = "collect"])
     ELSE IF Apply(req.i, req.k) = "ok"
     THEN Step([req EXCEPT !.k = @ + 1, !.series = @ \cup Series(req.i, req.k)])
     ELSE Fail(Apply(req.i, req.k))

(* The registry sees the same series twice and will say so at the end.     *)
collectMetrics ==
  /\ At("collect") /\ req.kind = "scrape"
  /\ shown' = Append(shown,
                     [i |-> req.i, ra |-> IF Advertise(req.i) THEN "built" ELSE "null"])
  /\ req' = [req EXCEPT !.pc = "interface", !.i = @ + 1, !.k = 1, !.series = {},
                        !.status = IF Clash(req.series) THEN "duplicate" ELSE @]
  /\ UNCHANGED <<cfg, kernelVars, advVars>>

(* The RA goes into the entry at the interface's position.                 *)
packRA ==
  /\ At("collect") /\ req.kind = "api"
  /\ IF "pref64" \in ToSet(cfg[req.i].plugins) THEN Fail("panic")
     ELSE NextInterface([shown EXCEPT ![req.i].ra = "built"])

(* The last interface is done.                                             *)
RequestEnds ==
  /\ req.pc = "interface" /\ req.i > Len(cfg)
  /\ Step([req EXCEPT !.pc = "done",
                     !.status = IF @ = "duplicate" THEN "error" ELSE @])

Respond ==
  /\ req.pc = "done"
  /\ req' = Idle /\ shown' = <<>>
  /\ UNCHANGED <<cfg, kernelVars, advVars>>

Observe ==
  \/ \E kind \in {"scrape", "api"} : Request(kind)
  \/ ScrapeAutoconf \/ ScrapeForwarding
  \/ InterfacesContinue \/ InterfacesForwarding
  \/ ApplyPlugin \/ collectMetrics \/ packRA
  \/ RequestEnds \/ Respond

Next ==
  \/ \E n \in Ifaces :
       \/ LinkCreated(n) \/ LinkRemoved(n) \/ AddrsChange(n)
       \/ Dial(n) \/ Prepare(n) \/ Initialized(n) \/ Redial(n)
  \/ LoopbackRouteChanges
  \/ Observe

Spec == Init /\ [][Next]_vars

-----------------------------------------------------------------------------
Pref64Panic == req.kind = "api" /\ "pref64" \in ToSet(cfg[req.i].plugins)

(* A request fails only for a known reason: while it was under way, an     *)
(* interface it is about was gone, had not been advertised on since it     *)
(* came or had no address to name; routes are automatic and there was a    *)
(* default route on loopback; or, for a scrape, two plugins expanded to    *)
(* the same (or packOptions panicked on PREF64).  In particular it does    *)
(* not fail because an Advertiser dials its interface once more and        *)
(* prepares its plugins again one by one, nor, if it is no scrape, because *)
(* of interfaces that do not advertise.                                    *)
ServedUnlessTroubled ==
  req.pc = "done" /\ req.status # "ok" => req.troubled # {} \/ Pref64Panic

(* A request that begins after every Advertiser was initialized once       *)
(* panics only on a default route on loopback (and on PREF64), whatever    *)
(* becomes of the interfaces and the Advertisers: a panic within a scrape  *)
(* is in a goroutine of the metrics registry, where the HTTP server does   *)
(* not recover it.                                                         *)
WarmPanicsOnlyOnRoute ==
  req.pc = "done" /\ req.status = "panic"
    => ~req.warm \/ "route" \in req.troubled \/ Pref64Panic

(* A request that succeeds has reported every configured interface once,   *)
(* in order, with an RA exactly if it advertises: no interface is left out *)
(* because it does not advertise, and no RA is shown for another one.      *)
AnswerMatchesConfig ==
  req.pc = "done" /\ req.status = "ok" =>
    /\ Len(shown) = Len(cfg)
    /\ \A n \in Ifaces : /\ shown[n].i = n
                         /\ shown[n].ra = "built" <=> Advertise(n)
=============================================================================
