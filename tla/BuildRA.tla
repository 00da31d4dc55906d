------------------------------ MODULE BuildRA -------------------------------
(***************************************************************************)
(* The daemon from its configuration file (Config) to the router           *)
(* advertisement of an interface: Interface.RouterAdvertisement            *)
(* (internal/config/config.go), the plugins (internal/plugin/plugin.go)    *)
(* and what they ask the kernel (internal/system/addresser_linux.go).      *)
(*                                                                         *)
(* An RA is built from scratch every time one is sent, and for every       *)
(* request of the debug HTTP server and every scrape of its metrics; those *)
(* come at any time, before the Advertiser has prepared the plugins too.   *)
(* So the properties are about the RA that would be built in each state.   *)
(* Here the kernel answers every request; Observers has the failures.      *)
(* Time counts from the epoch, the start of the daemon.                    *)
(***************************************************************************)
EXTENDS Config

CONSTANTS
  Served,       \* the files whose interfaces are followed further
  HardwareAddr, \* whether the interface has a link-layer address
  Addresses,    \* addresses an interface may have
  RouteTable,   \* routes of the main table, by device
  MaxAddrs,     \* bound on the addresses present
  Step,         \* how far the clock goes at once
  MaxNow        \* bound on the clock

Address ==
  [bits : [1..W -> {0, 1}], len : 0..W, scope : {"gua", "ula", "lla"},
   flags : SUBSET {"deprecated", "managetempaddr", "stable_privacy", "temporary",
                   "tentative"},
   forever : BOOLEAN, eui64 : BOOLEAN]

Destination == [prefix : {p \in Seq({0, 1}) : Len(p) <= W},
                loopback : BOOLEAN, up : BOOLEAN]

ASSUME BuildAssumption ==
  /\ Addresses \subseteq Address
  /\ RouteTable \subseteq Destination /\ IsFiniteSet(RouteTable)
  /\ Step \in Nat /\ MaxNow \in Nat /\ MaxAddrs \in Nat

VARIABLES
  advertiser,  \* which of Interfaces is followed, 0 before it is served
  prepared,    \* Prepare of every plugin has run
  addrs,       \* the addresses of the interface, as the kernel lists them
  routes,      \* the IPv6 routes of the main table
  forwarding,  \* IPv6Forwarding of the interface
  now          \* the clock

vars == <<parseVars, advertiser, prepared, addrs, routes, forwarding, now>>

ifi == Interfaces[advertiser]

(* What a plugin's Apply does: adds options, returns an error or panics.   *)
Ok(opts) == [status |-> "ok", opts |-> opts]
Fail(how) == [status |-> how, opts |-> <<>>]

(* netip.Addr.Less, on addresses and on the addresses of prefixes: bits    *)
(* that are not there are zero.                                            *)
Bit(p, i) == IF i <= Len(p) THEN p[i] ELSE 0
Less(p, q) ==
  \E i \in 1..W : /\ Bit(p, i) < Bit(q, i)
                  /\ \A j \in 1..(i - 1) : Bit(p, j) = Bit(q, j)

(* A set of addresses or prefixes in order.                                *)
Sort(S) ==
  CHOOSE s \in SetToSeqs(S) : \A i, j \in DOMAIN s : i < j => ~Less(s[j], s[i])

(* An address as AddressesByIndex returns it: the kernel's flags, and      *)
(* whether it is valid forever.  scope and eui64 are what the bits say.    *)
IP(a) ==
  [bits |-> a.bits, len |-> a.len, scope |-> a.scope, eui64 |-> a.eui64,
   deprecated |-> "deprecated" \in a.flags,
   manageTemporary |-> "managetempaddr" \in a.flags,
   stablePrivacy |-> "stable_privacy" \in a.flags,
   temporary |-> "temporary" \in a.flags,
   tentative |-> "tentative" \in a.flags,
   validForever |-> a.forever]

AddressesByIndex == [i \in DOMAIN addrs |-> IP(addrs[i])]

(* The routes on devices that are loopback interfaces and up.              *)
LoopbackRoutes == {rt \in routes : rt.loopback /\ rt.up}

(* routesByIndex panics on a route without a destination attribute, which  *)
(* is how the kernel lists a default route.                                *)
BadRoute == \E rt \in LoopbackRoutes : rt.prefix = <<>>

(* (The Addresser asks for IPv6 only: Is4 holds of none.)                  *)
usableAddr(a) == a.scope # "lla" /\ ~a.temporary /\ ~a.tentative

-----------------------------------------------------------------------------
(* Prefix.                                                                 *)

PrefixCurrent(p) ==
  Sort({SubSeq(a.bits, 1, a.len) :
          a \in {a \in ToSet(AddressesByIndex) :
                   usableAddr(a) /\ a.len = Len(p.prefix)}})

(* The lifetime left of a deadline d, or d itself if it does not count     *)
(* down.                                                                   *)
Remaining(plugin, d) ==
  IF ~plugin.deprecated THEN d ELSE IF now >= d THEN 0 ELSE d - now

(* A countdown of the preferred lifetime only.                             *)
PrefixOptionsFrozen(p, prefixes) ==
  [i \in DOMAIN prefixes |->
     [kind |-> "pi", prefix |-> prefixes[i], valid |-> p.valid,
      preferred |-> Remaining(p, p.preferred), from |-> p]]

PrefixOptions(p, prefixes) ==
  [i \in DOMAIN prefixes |->
     [kind |-> "pi", prefix |-> prefixes[i], valid |-> Remaining(p, p.valid),
      preferred |-> Remaining(p, p.preferred), from |-> p]]

(* An Apply that fails when there is nothing to advertise.                 *)
PrefixApplyNonempty(p) ==
  IF ~prepared /\ (p.auto \/ p.deprecated) THEN Fail("panic")
  ELSE IF p.auto /\ PrefixCurrent(p) = <<>> THEN Fail("error")
  ELSE Ok(PrefixOptions(p, IF p.auto THEN PrefixCurrent(p) ELSE <<p.prefix>>))

(* Before Prepare, the functions Addrs and TimeNow are nil.                *)
PrefixApply(p) ==
  IF ~prepared /\ (p.auto \/ p.deprecated) THEN Fail("panic")
  ELSE Ok(PrefixOptions(p, IF p.auto THEN PrefixCurrent(p) ELSE <<p.prefix>>))

-----------------------------------------------------------------------------
(* Route.                                                                  *)

coversUsableAddr(prefix) ==
  \E a \in ToSet(AddressesByIndex) : usableAddr(a) /\ IsPrefix(prefix, a.bits)

coveringRoutes ==
  {rt.prefix : rt \in {rt \in LoopbackRoutes :
                         /\ ~IsSingleIP(rt.prefix)
                         /\ coversUsableAddr(rt.prefix)}}

isCovered(prefix, prefixes) ==
  \E p \in prefixes : Len(p) < Len(prefix) /\ IsPrefix(p, prefix)

(* All of them, also the ones that a shorter one covers.                   *)
uncoveredPrefixesAll(prefixes) == prefixes

uncoveredPrefixes(prefixes) == {p \in prefixes : ~isCovered(p, prefixes)}

(* The routes and the addresses are read one after the other.  Here they   *)
(* vary independently of each other, so that every pair of lists the two   *)
(* reads can return is that of a state.                                    *)
RouteCurrent == Sort(uncoveredPrefixes(coveringRoutes))

RouteOptions(r, prefixes) ==
  [i \in DOMAIN prefixes |->
     [kind |-> "ri", prefix |-> prefixes[i], preference |-> r.preference,
      lifetime |-> Remaining(r, r.lifetime), from |-> r]]

(* current returns an error before Prepare; lifetime panics.               *)
RouteApply(r) ==
  IF ~prepared /\ r.auto THEN Fail("error")
  ELSE IF r.auto /\ BadRoute THEN Fail("panic")
  ELSE IF ~prepared /\ r.deprecated THEN Fail("panic")
  ELSE Ok(RouteOptions(r, IF r.auto THEN RouteCurrent ELSE <<r.prefix>>))

-----------------------------------------------------------------------------
(* RDNSS.                                                                  *)

isStable(a) ==
  a.validForever \/ a.manageTemporary \/ a.stablePrivacy \/ a.eui64

(* The comparisons of betterRDNSS in order: IsPrivate, IsGlobalUnicast     *)
(* (which unique local addresses satisfy too), IsLinkLocalUnicast.         *)
HasScope(a, i) ==
  a.scope \in CASE i = 1 -> {"ula"} [] i = 2 -> {"ula", "gua"} [] i = 3 -> {"lla"}

(* The zero address, which is not valid.                                   *)
NoIP == [bits |-> <<>>]
IsValid(a) == a.bits # <<>>

(* A betterRDNSS that keeps the best unless current is strictly better, and *)
(* forgets to break a tie by address.                                      *)
betterRDNSSNoTie(best, current) ==
  LET i == {i \in 1..3 : HasScope(best, i) # HasScope(current, i)}
  IN IF ~IsValid(best) THEN current
     ELSE IF isStable(current) # isStable(best)
     THEN IF isStable(current) THEN current ELSE best
     ELSE IF i # {} /\ HasScope(current, Min(i)) THEN current ELSE best

betterRDNSS(best, current) ==
  LET hits == {i \in 1..3 : HasScope(best, i) \/ HasScope(current, i)}
      differ == hits # {}
                /\ HasScope(best, Min(hits)) # HasScope(current, Min(hits))
  IN IF ~IsValid(best) THEN current
     ELSE IF isStable(current) # isStable(best)
     THEN IF isStable(current) THEN current ELSE best
     ELSE IF differ
     THEN IF HasScope(current, Min(hits)) THEN current ELSE best
     ELSE IF Less(current.bits, best.bits) THEN current ELSE best

isCandidate(a) == ~a.deprecated /\ ~a.temporary /\ ~a.tentative

(* The loop of RDNSS.current: the best of the first n addresses.           *)
RDNSSBest[n \in 0..Len(addrs)] ==
  IF n = 0 THEN NoIP
  ELSE IF isCandidate(AddressesByIndex[n])
  THEN betterRDNSS(RDNSSBest[n - 1], AddressesByIndex[n])
  ELSE RDNSSBest[n - 1]

RDNSSCurrent == RDNSSBest[Len(addrs)]

RDNSSOption(r, servers) ==
  Ok(<<[kind |-> "rdnss", servers |-> servers, lifetime |-> r.lifetime, from |-> r]>>)

RDNSSApply(r) ==
  LET static == Sort(r.servers)
  IN IF ~r.auto THEN RDNSSOption(r, static)
     ELSE IF ~prepared THEN Fail("panic")
     ELSE IF ~IsValid(RDNSSCurrent) THEN Fail("error")
     ELSE RDNSSOption(r, <<RDNSSCurrent.bits>> \o static)

-----------------------------------------------------------------------------
(* The plugins that do not fail.  LLA has an address once prepared, if the *)
(* interface has one.                                                      *)
DNSSLApply(d) ==
  Ok(<<[kind |-> "dnssl", names |-> d.names, lifetime |-> d.lifetime]>>)
MTUApply(m) == Ok(IF m = 0 THEN <<>> ELSE <<[kind |-> "mtu", mtu |-> m]>>)
LLAApply(lla) ==
  Ok(IF lla /\ prepared /\ HardwareAddr THEN <<[kind |-> "lla"]>> ELSE <<>>)
CaptivePortalApply(p) ==
  Ok(IF p = "" THEN <<>> ELSE <<[kind |-> "captive-portal", uri |-> p]>>)
PREF64Apply(p) ==
  Ok(<<[kind |-> "pref64", prefix |-> p.prefix, lifetime |-> p.lifetime]>>)

Apply(P(_), s) == [i \in DOMAIN s |-> P(s[i])]

(* The plugins' results, in order.                                         *)
ApplyAll ==
  LET p == ifi.plugins
  IN Apply(PrefixApply, p.prefixes) \o Apply(RouteApply, p.routes)
     \o Apply(RDNSSApply, p.rdnss) \o Apply(DNSSLApply, p.dnssl)
     \o <<MTUApply(p.mtu), LLAApply(p.lla), CaptivePortalApply(p.portal)>>
     \o Apply(PREF64Apply, p.pref64)

(* RouterAdvertisement: the plugins in order, up to the first that fails;  *)
(* then the router lifetime, which must be 0 unless the interface forwards. *)
(* The options are kept by the plugin that added them.                     *)
RouterAdvertisement ==
  LET applied == ApplyAll
      failed == {i \in DOMAIN applied : applied[i].status # "ok"}
      withdrawn == ifi.lifetime > 0 /\ ~forwarding
  IN IF failed # {} THEN applied[Min(failed)]
     ELSE [status |-> "ok", preference |-> ifi.preference,
           lifetime |-> IF withdrawn THEN 0 ELSE ifi.lifetime,
           misconfigured |-> withdrawn,
           opts |-> [i \in DOMAIN applied |-> applied[i].opts]]

(* The options of a kind, by place: which plugin's, and which of its.      *)
Opts(kind) ==
  IF advertiser = 0 THEN <<>>
  ELSE LET opts == RouterAdvertisement.opts
           Places == UNION {{i} \X DOMAIN opts[i] : i \in DOMAIN opts}
       IN [x \in {x \in Places : opts[x[1]][x[2]].kind = kind} |-> opts[x[1]][x[2]]]

(* preference and packOptions panic on what they do not know; packOptions  *)
(* does not know PREF64.                                                   *)
preference(p) == p \in {"low", "medium", "high"}
packOptions(opts) ==
  \A i \in DOMAIN opts : \A o \in ToSet(opts[i]) :
    /\ o.kind \in {"captive-portal", "dnssl", "lla", "mtu", "pi", "rdnss", "ri"}
    /\ o.kind = "ri" => preference(o.preference)

(* What becomes of a request for the RA: it is built and packed.           *)
packRA ==
  LET ra == RouterAdvertisement
  IN IF ra.status # "ok" THEN ra.status
     ELSE IF preference(ra.preference) /\ packOptions(ra.opts) THEN "ok"
     ELSE "panic"

-----------------------------------------------------------------------------
Init ==
  /\ ParseInit
  /\ advertiser = 0
  /\ prepared = FALSE
  /\ addrs = <<>> /\ routes = {}
  /\ forwarding = FALSE
  /\ now = 0

ParseConfig ==
  /\ Parse
  /\ UNCHANGED <<advertiser, prepared, addrs, routes, forwarding, now>>

(* main serves what Parse accepted: BuildTasks makes an Advertiser of      *)
(* every advertising interface.                                            *)
BuildTasks(i) ==
  /\ status = "ok" /\ file \in Served /\ advertiser = 0
  /\ Interfaces[i].mode = "advertise"
  /\ advertiser' = i
  /\ UNCHANGED <<parseVars, prepared, addrs, routes, forwarding, now>>

(* Advertiser.Run, once the interface is there to dial.                    *)
Prepare ==
  /\ advertiser # 0 /\ ~prepared
  /\ prepared' = TRUE
  /\ UNCHANGED <<parseVars, advertiser, addrs, routes, forwarding, now>>

AddrAdded(a) ==
  /\ advertiser # 0
  /\ Len(addrs) < MaxAddrs
  /\ \A i \in DOMAIN addrs : addrs[i].bits # a.bits
  /\ addrs' = Append(addrs, a)
  /\ UNCHANGED <<parseVars, advertiser, prepared, routes, forwarding, now>>

AddrRemoved(i) ==
  /\ advertiser # 0
  /\ addrs' = RemoveAt(addrs, i)
  /\ UNCHANGED <<parseVars, advertiser, prepared, routes, forwarding, now>>

RoutesChange(rt) ==
  /\ advertiser # 0
  /\ routes' = IF rt \in routes THEN routes \ {rt} ELSE routes \cup {rt}
  /\ UNCHANGED <<parseVars, advertiser, prepared, addrs, forwarding, now>>

ForwardingChanges ==
  /\ advertiser # 0
  /\ forwarding' = ~forwarding
  /\ UNCHANGED <<parseVars, advertiser, prepared, addrs, routes, now>>

Tick ==
  /\ advertiser # 0
  /\ now + Step <= MaxNow
  /\ now' = now + Step
  /\ UNCHANGED <<parseVars, advertiser, prepared, addrs, routes, forwarding>>

Next ==
  \/ ParseConfig
  \/ \E i \in DOMAIN Interfaces : BuildTasks(i)
  \/ Prepare
  \/ \E a \in Addresses : AddrAdded(a)
  \/ \E i \in DOMAIN addrs : AddrRemoved(i)
  \/ \E rt \in RouteTable : RoutesChange(rt)
  \/ ForwardingChanges
  \/ Tick

Spec == Init /\ [][Next]_vars

-----------------------------------------------------------------------------
(* A deprecated prefix or route is never advertised beyond its deadline,   *)
(* however late the RA is built, and a prefix is never preferred for       *)
(* longer than it is valid, although its two lifetimes count down          *)
(* separately.                                                             *)
LifetimesCountDown ==
  /\ \A o \in Range(Opts("pi")) :
       /\ o.preferred <= o.valid
       /\ o.from.deprecated /\ o.valid # 0 => now + o.valid <= o.from.valid
  /\ \A o \in Range(Opts("ri")) :
       o.from.deprecated /\ o.lifetime # 0 => now + o.lifetime <= o.from.lifetime

(* Two prefix options of an RA overlap only when the automatic stanza and  *)
(* a static one produced them, and two routes only when an automatic       *)
(* stanza produced one: parsePlugins compares what is configured, and an   *)
(* automatic stanza becomes something else whenever the addresses change.  *)
(* (Two options with the same prefix are also two metrics with the same    *)
(* labels.)                                                                *)
OverlapOnlyMixed ==
  LET pis == Opts("pi")
      ris == Opts("ri")
  IN /\ \A i, j \in DOMAIN pis :
          i # j /\ Overlaps(pis[i].prefix, pis[j].prefix)
            => pis[i].from.auto # pis[j].from.auto
     /\ \A i, j \in DOMAIN ris :
          i # j /\ Overlaps(ris[i].prefix, ris[j].prefix)
            => ris[i].from.auto \/ ris[j].from.auto

(* The routes an automatic Route announces cover exactly the usable        *)
(* addresses of the interface that some IPv6 route on loopback covers, and *)
(* no two routes of one Route overlap.                                     *)
AutoRoutesExact ==
  LET autos == {r \in ToSet(ifi.plugins.routes) : r.auto}
      auto(r) == {o.prefix : o \in {o \in Range(Opts("ri")) : o.from = r}}
      real == {rt \in routes : rt.loopback /\ rt.up /\ ~IsSingleIP(rt.prefix)}
      usable == {a.bits : a \in {a \in ToSet(AddressesByIndex) : usableAddr(a)}}
  IN advertiser # 0 /\ RouterAdvertisement.status = "ok"
       => \A r \in autos :
            /\ \A p, q \in auto(r) : p # q => ~IsPrefix(p, q)
            /\ \A p \in auto(r) : \E b \in usable : IsPrefix(p, b)
            /\ \A b \in usable :
                 (\E rt \in real : IsPrefix(rt.prefix, b))
                   => \E p \in auto(r) : IsPrefix(p, b)

(* Strictly better as a DNS server: stable first, then unique local before *)
(* global before link-local addresses, then the lesser address.            *)
Rank(a) == CASE a.scope = "ula" -> 1 [] a.scope = "gua" -> 2
             [] a.scope = "lla" -> 3 [] OTHER -> 4
Better(a, b) ==
  \/ isStable(a) /\ ~isStable(b)
  \/ /\ isStable(a) = isStable(b)
     /\ \/ Rank(a) < Rank(b)
        \/ Rank(a) = Rank(b) /\ Less(a.bits, b.bits)

Candidates == {a \in ToSet(AddressesByIndex) : isCandidate(a)}

(* The automatic DNS server is the best of the interface's addresses, in   *)
(* whatever order the kernel lists them: two RAs in a row announce the     *)
(* same server.                                                            *)
BestServer ==
  \A o \in Range(Opts("rdnss")) :
    o.from.auto
      => \E a \in Candidates :
           /\ a.bits = o.servers[1]
           /\ \A b \in Candidates : ~Better(b, a)

(* Once the plugins are prepared, the addresses and routes the kernel has  *)
(* at the moment never keep an RA from being built and shown, but for an   *)
(* automatic DNS server without an address to name (an error), a PREF64    *)
(* option (on which packOptions panics) and an automatic route while a     *)
(* default route points to loopback (on which routesByIndex panics).       *)
ServedOncePrepared ==
  prepared =>
    \/ packRA = "ok"
    \/ /\ packRA = "error" /\ Candidates = {}
       /\ \E i \in DOMAIN ifi.plugins.rdnss : ifi.plugins.rdnss[i].auto
    \/ /\ packRA = "panic"
       /\ \/ ifi.plugins.pref64 # <<>>
          \/ /\ \E rt \in routes : rt.loopback /\ rt.up /\ rt.prefix = <<>>
             /\ \E i \in DOMAIN ifi.plugins.routes : ifi.plugins.routes[i].auto
=============================================================================
