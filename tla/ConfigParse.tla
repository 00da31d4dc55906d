---------------------------- MODULE ConfigParse -----------------------------
(***************************************************************************)
(* Parsing of a stanza of the configuration file (internal/config): which  *)
(* ones are accepted, and the interfaces they configure.                   *)
(*                                                                         *)
(* Durations are milliseconds.  A duration in the file is [k |-> "num",    *)
(* ms |-> n] or one of Unset, Empty, AutoText, Infinite and Bad (text that *)
(* time.ParseDuration refuses).  A prefix is the sequence of its bits, W   *)
(* of them for a single address; a prefix in the file may also be empty or *)
(* text parseIPPrefix refuses, and so may an address.  A parser returns    *)
(* the set of its results: one, or none if it fails.  What is passed on as *)
(* it is written (flags, the text of a portal) is left out.                *)
(***************************************************************************)
EXTENDS Naturals, Integers, SequencesExt

CONSTANTS
  W,        \* bits of an address, 128 in the code
  P64,      \* the length that stands for /64
  Infinity  \* ndp.Infinity, longer than every other duration

ASSUME ConfigAssumption ==
  /\ W \in Nat /\ P64 \in 1..(W - 1)
  /\ Infinity \in Nat

sec == 1000
hour == 3600 * sec
Num(ms)  == [k |-> "num", ms |-> ms]
Unset    == [k |-> "unset"]
Empty    == [k |-> "empty"]
AutoText == [k |-> "auto"]
Infinite == [k |-> "infinite"]
Bad      == [k |-> "bad"]

(* What a stanza of the file holds.                                        *)
RawDuration == [k : {"num"}, ms : Int] \cup {Unset, Empty, AutoText, Infinite, Bad}
RawIP == [k : {"prefix"}, bits : Seq({0, 1})] \cup {Empty, Bad}
RawInterface ==
  [name : STRING, names : Seq(STRING), monitor : BOOLEAN, advertise : BOOLEAN,
   max : RawDuration, min : RawDuration, reachable : RawDuration,
   retrans : RawDuration, hop : [k : {"num"}, ms : Int] \cup {Unset},
   lifetime : RawDuration,
   preference : STRING,
   prefixes : Seq([prefix : RawIP, valid : RawDuration, preferred : RawDuration,
                   deprecated : BOOLEAN]),
   routes : Seq([prefix : RawIP, lifetime : RawDuration, preference : STRING,
                 deprecated : BOOLEAN]),
   rdnss : Seq([servers : Seq(RawIP \ {Empty}), lifetime : RawDuration]),
   dnssl : Seq([names : Seq(STRING), lifetime : RawDuration]),
   pref64 : Seq(RawIP \cup {Unset}), mtu : Int, lla : STRING, portal : STRING]

Truncate(d) == d - (d % sec)
Round(d) == Truncate(d + 500)

ParseDuration(s) == IF s.k = "num" THEN {s.ms} ELSE {}

parseDuration(s, def) ==
  CASE s.k \in {"unset", "auto"} -> {def}
    [] s.k = "infinite" -> {Infinity}
    [] s.k = "empty" -> {0}
    [] OTHER -> ParseDuration(s)

(* A key that is left out or empty has the default; no special values.     *)
parsePlain(s, def, lo, hi) ==
  {d \in IF s.k \in {"unset", "empty"} THEN {def} ELSE ParseDuration(s) :
     lo <= d /\ d <= hi}

-----------------------------------------------------------------------------
(* The timing parameters of an interface.                                  *)

(* A parseMinInterval without its upper bound.                             *)
parseMinIntervalUnbounded(s, max) ==
  IF s.k \in {"unset", "empty", "auto"}
  THEN {IF max >= 9 * sec THEN Truncate((33 * max) \div 100) ELSE max}
  ELSE {d \in ParseDuration(s) : 3 * sec <= d}

parseMinInterval(s, max) ==
  IF s.k \in {"unset", "empty", "auto"}
  THEN {IF max >= 9 * sec THEN Truncate((33 * max) \div 100) ELSE max}
  ELSE {d \in ParseDuration(s) :
          3 * sec <= d /\ d <= Truncate((3 * max) \div 4)}

(* A parseDefaultLifetime without its lower bound.                         *)
parseDefaultLifetimeUnchecked(s, max) ==
  {lt \in parseDuration(s, 3 * max) : lt <= 9000 * sec}

parseDefaultLifetime(s, max) ==
  {lt \in parseDuration(s, 3 * max) :
     lt # 0 => max <= lt /\ lt <= 9000 * sec}

parseHopLimit(s) ==
  {h \in {IF s.k = "unset" THEN 64 ELSE s.ms} : 0 <= h /\ h <= 255}

parsePreference(s) ==
  CASE s \in {"", "medium"} -> {"medium"}
    [] s \in {"low", "high"} -> {s}
    [] OTHER -> {}

-----------------------------------------------------------------------------
(* Prefixes and routes.                                                    *)

IsSingleIP(p) == Len(p) = W
IsUnspecified(p) == \A i \in DOMAIN p : p[i] = 0
Overlaps(p, q) == IsPrefix(p, q) \/ IsPrefix(q, p)

autoPrefix == [i \in 1..P64 |-> 0]
autoRoute == <<>>

(* parseIPPrefix, and what stands for an empty prefix.                     *)
parseIPPrefix(s, auto) ==
  CASE s.k = "empty" -> {auto}
    [] s.k = "bad" -> {}
    [] OTHER -> {s.bits}

parsePrefix(p) ==
  {x \in {[prefix |-> pfx, auto |-> pfx = autoPrefix, valid |-> v,
           preferred |-> q, deprecated |-> p.deprecated] :
            pfx \in parseIPPrefix(p.prefix, autoPrefix),
            v \in parseDuration(p.valid, 24 * hour),
            q \in parseDuration(p.preferred, 4 * hour)} :
     /\ ~IsSingleIP(x.prefix)
     /\ IsUnspecified(x.prefix) => Len(x.prefix) = P64
     /\ x.valid # 0 /\ x.preferred # 0
     /\ x.preferred <= x.valid
     /\ p.deprecated => x.valid # Infinity /\ x.preferred # Infinity}

parseRoute(r) ==
  {x \in {[prefix |-> pfx, auto |-> pfx = autoRoute, lifetime |-> lt,
           preference |-> pref, deprecated |-> r.deprecated] :
            pfx \in parseIPPrefix(r.prefix, autoRoute),
            lt \in parseDuration(r.lifetime, 24 * hour),
            pref \in parsePreference(r.preference)} :
     /\ IsUnspecified(x.prefix) => x.prefix = autoRoute
     /\ x.lifetime # 0
     /\ r.deprecated => x.lifetime # Infinity}

(* A list parses if every element does: the sequence of their results.     *)
parseAll(results) ==
  IF {} \in ToSet(results) THEN {}
  ELSE {[i \in DOMAIN results |-> CHOOSE x \in results[i] : TRUE]}

parseEach(Parse(_), s) == parseAll([i \in DOMAIN s |-> Parse(s[i])])

(* A NoOverlap that makes the exception that routes have.                  *)
NoOverlapButAuto(s) ==
  \A i, j \in DOMAIN s :
    \/ i = j \/ s[i].auto \/ s[j].auto
    \/ ~Overlaps(s[i].prefix, s[j].prefix)

(* "configured prefixes on a given interface must not overlap"             *)
NoOverlap(s) ==
  \A i, j \in DOMAIN s : i # j => ~Overlaps(s[i].prefix, s[j].prefix)

NoRouteOverlap(s) ==
  \A i, j \in DOMAIN s :
    \/ i = j \/ s[i].prefix = autoRoute \/ s[j].prefix = autoRoute
    \/ ~Overlaps(s[i].prefix, s[j].prefix)

-----------------------------------------------------------------------------
(* RDNSS: the servers, without the :: that asks for an automatic one.      *)
Wildcard == [i \in 1..W |-> 0]

parseRDNSS(d, max) ==
  LET ips == {s.bits : s \in ToSet(d.servers) \ {Bad}}
  IN {[auto |-> ips = {} \/ Wildcard \in ips, servers |-> ips \ {Wildcard},
       lifetime |-> lt] :
        lt \in {x \in parseDuration(d.lifetime, 3 * max) :
                  Bad \notin ToSet(d.servers) /\ IsInjective(d.servers)}}

parseDNSSL(d, max) ==
  {[names |-> d.names, lifetime |-> lt] :
     lt \in {x \in parseDuration(d.lifetime, 3 * max) :
               d.names # <<>> /\ IsInjective(d.names)}}

(* NewPREF64 with the lifetime rounded down.                               *)
NewPREF64Down(max) ==
  LET three == 3 * (max \div sec)
      most == 8191 * 8
  IN IF three < most THEN three - (three % 8) ELSE most

(* NewPREF64: three times the interval, in units of eight seconds.         *)
NewPREF64(max) ==
  LET three == 3 * (max \div sec)
      most == 8191 * 8
  IN IF three < most THEN three + ((8 - (three % 8)) % 8) ELSE most

defaultPREF64Prefix == [k |-> "well-known"]

parsePREF64(s, max) ==
  {[prefix |-> p, lifetime |-> NewPREF64(max)] :
     p \in (IF s.k \in {"unset", "empty"} THEN {defaultPREF64Prefix} ELSE {s})
           \ {Bad}}

(* The plugins by kind; an MTU of 0 and an empty portal are no plugins.    *)
parsePlugins(raw, max) ==
  {x \in {[prefixes |-> p, routes |-> r, rdnss |-> s, dnssl |-> d, pref64 |-> q,
           mtu |-> raw.mtu, lla |-> raw.lla # "false", portal |-> raw.portal] :
            p \in parseEach(parsePrefix, raw.prefixes),
            r \in parseEach(parseRoute, raw.routes),
            s \in parseEach(LAMBDA e : parseRDNSS(e, max), raw.rdnss),
            d \in parseEach(LAMBDA e : parseDNSSL(e, max), raw.dnssl),
            q \in parseEach(LAMBDA e : parsePREF64(e, max), raw.pref64)} :
     /\ NoOverlap(x.prefixes) /\ NoRouteOverlap(x.routes)
     /\ 0 <= x.mtu /\ x.mtu <= 65536
     /\ x.portal # "bad"}

MonitorInterface(name) == [name |-> name, mode |-> "monitor"]

parseInterface(name, raw) ==
  IF raw.monitor /\ raw.advertise THEN {}
  ELSE IF raw.monitor THEN {MonitorInterface(name)}
  ELSE UNION {
    {[name |-> name, mode |-> IF raw.advertise THEN "advertise" ELSE "idle",
      min |-> min, max |-> max, reachable |-> reach, retrans |-> retrans,
      hop |-> hop, lifetime |-> lt, preference |-> pref, plugins |-> p] :
       min \in parseMinInterval(raw.min, max),
       reach \in parsePlain(raw.reachable, 0, 0, hour),
       retrans \in parsePlain(raw.retrans, 0, 0, hour),
       hop \in parseHopLimit(raw.hop),
       lt \in parseDefaultLifetime(raw.lifetime, max),
       pref \in parsePreference(raw.preference),
       p \in parsePlugins(raw, max)} :
    max \in parsePlain(raw.max, 600 * sec, 4 * sec, 1800 * sec)}

(* One of name and names; every name gets an interface of its own.         *)
parseInterfaces(raw) ==
  IF (raw.name = "") = (raw.names = <<>>) THEN {}
  ELSE LET names == IF raw.name = "" THEN raw.names ELSE <<raw.name>>
       IN parseAll([i \in DOMAIN names |-> parseInterface(names[i], raw)])
=============================================================================
