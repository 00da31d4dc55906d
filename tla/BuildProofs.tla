---------------------------- MODULE BuildProofs -----------------------------
(***************************************************************************)
(* Proofs about Config and BuildRA.                                        *)
(***************************************************************************)
EXTENDS BuildRA, FiniteSetTheorems, SequenceTheorems, WellFoundedInduction, TLAPS

-----------------------------------------------------------------------------
(* Sequences.                                                              *)

IsSeq(s) == s \in Seq(ToSet(s))

(* What has the positions 1 to n is a sequence.                            *)
LEMMA FunctionIsSeq ==
  ASSUME NEW s, NEW n \in Nat, s = [i \in 1..n |-> s[i]]
  PROVE  IsSeq(s) /\ DOMAIN s = 1..n
<1>1. DOMAIN s = 1..n
  OBVIOUS
<1>2. s \in [1..n -> ToSet(s)]
  BY <1>1 DEF ToSet
<1> QED
  BY <1>1, <1>2, SeqDef DEF IsSeq

(* A concatenation has the elements of both, and no others.                *)
LEMMA Concat ==
  ASSUME NEW s, NEW t, IsSeq(s), IsSeq(t)
  PROVE  /\ IsSeq(s \o t)
         /\ \A i \in DOMAIN (s \o t) :
              \/ \E j \in DOMAIN s : (s \o t)[i] = s[j]
              \/ \E j \in DOMAIN t : (s \o t)[i] = t[j]
<1> DEFINE S == ToSet(s) \cup ToSet(t)
<1>1. s \in Seq(S) /\ t \in Seq(S)
  BY SeqMonotonic DEF IsSeq
<1> HIDE DEF S
<1>2. /\ s \o t \in Seq(S) /\ Len(s \o t) = Len(s) + Len(t)
      /\ \A i \in 1 .. Len(s) + Len(t) :
           (s \o t)[i] = IF i <= Len(s) THEN s[i] ELSE t[i - Len(s)]
  BY <1>1, ConcatProperties
<1>3. /\ Len(s) \in Nat /\ DOMAIN s = 1..Len(s)
      /\ Len(t) \in Nat /\ DOMAIN t = 1..Len(t)
      /\ DOMAIN (s \o t) = 1..(Len(s) + Len(t))
  BY <1>1, <1>2, LenProperties
<1>4. s \o t = [i \in 1..(Len(s) + Len(t)) |-> (s \o t)[i]]
  BY <1>2, LenProperties
<1>5. IsSeq(s \o t)
  <2> DEFINE u == s \o t
             n == Len(s) + Len(t)
  <2>1. u = [i \in 1..n |-> u[i]] /\ n \in Nat
    BY <1>3, <1>4
  <2> HIDE DEF u, n
  <2>2. IsSeq(u)
    BY ONLY <2>1, FunctionIsSeq
  <2> QED
    BY <2>2 DEF u
<1>6. ASSUME NEW i \in DOMAIN (s \o t)
      PROVE  \/ \E j \in DOMAIN s : (s \o t)[i] = s[j]
             \/ \E j \in DOMAIN t : (s \o t)[i] = t[j]
  <2>1. CASE i <= Len(s)
    BY <1>2, <1>3, <2>1
  <2>2. CASE ~(i <= Len(s))
    <3>1. i - Len(s) \in DOMAIN t /\ (s \o t)[i] = t[i - Len(s)]
      BY <1>2, <1>3, <2>2
    <3> QED
      BY <3>1
  <2> QED
    BY <2>1, <2>2
<1> QED
  BY <1>5, <1>6

(* The places of a concatenation.                                          *)
LEMMA ConcatAt ==
  ASSUME NEW s, NEW t, IsSeq(s), IsSeq(t)
  PROVE  /\ IsSeq(s \o t) /\ Len(s) \in Nat /\ Len(t) \in Nat
         /\ DOMAIN s = 1..Len(s) /\ DOMAIN t = 1..Len(t)
         /\ DOMAIN (s \o t) = 1..(Len(s) + Len(t))
         /\ \A i \in DOMAIN s : (s \o t)[i] = s[i]
         /\ \A i \in DOMAIN (s \o t) :
              i \notin DOMAIN s => i - Len(s) \in DOMAIN t /\ (s \o t)[i] = t[i - Len(s)]
<1> DEFINE S == ToSet(s) \cup ToSet(t)
<1>1. s \in Seq(S) /\ t \in Seq(S)
  BY SeqMonotonic DEF IsSeq
<1> HIDE DEF S
<1>2. /\ s \o t \in Seq(S) /\ Len(s \o t) = Len(s) + Len(t)
      /\ \A i \in 1 .. Len(s) + Len(t) :
           (s \o t)[i] = IF i <= Len(s) THEN s[i] ELSE t[i - Len(s)]
  BY <1>1, ConcatProperties
<1>3. /\ Len(s) \in Nat /\ DOMAIN s = 1..Len(s)
      /\ Len(t) \in Nat /\ DOMAIN t = 1..Len(t)
      /\ DOMAIN (s \o t) = 1..(Len(s) + Len(t))
  BY <1>1, <1>2, LenProperties
<1>4. IsSeq(s \o t)
  BY Concat
<1>5. \A i \in DOMAIN s : (s \o t)[i] = s[i]
  BY <1>2, <1>3
<1>6. ASSUME NEW i \in DOMAIN (s \o t), i \notin DOMAIN s
      PROVE  i - Len(s) \in DOMAIN t /\ (s \o t)[i] = t[i - Len(s)]
  BY <1>2, <1>3, <1>6
<1> QED
  BY <1>3, <1>4, <1>5, <1>6

(* Whatever holds the elements of both holds those of the concatenation.   *)
LEMMA ConcatWithin ==
  ASSUME NEW s, NEW t, IsSeq(s), IsSeq(t),
         NEW S, ToSet(s) \subseteq S, ToSet(t) \subseteq S
  PROVE  IsSeq(s \o t) /\ ToSet(s \o t) \subseteq S
<1>1. IsSeq(s \o t)
  BY Concat
<1>2. ASSUME NEW x \in ToSet(s \o t)
      PROVE  x \in S
  <2>1. PICK i \in DOMAIN (s \o t) : x = (s \o t)[i]
    BY DEF ToSet
  <2>2. \/ \E j \in DOMAIN s : x = s[j]
        \/ \E j \in DOMAIN t : x = t[j]
    BY <2>1, Concat
  <2> QED
    BY <2>2 DEF ToSet
<1> QED
  BY <1>1, <1>2

(* A triple is a sequence of three.                                        *)
LEMMA Triple ==
  ASSUME NEW x, NEW y, NEW z
  PROVE  IsSeq(<<x, y, z>>) /\ ToSet(<<x, y, z>>) = {x, y, z}
<1>1. ToSet(<<x, y, z>>) = {x, y, z}
  BY DEF ToSet
<1>2. <<x, y, z>> \in Seq({x, y, z})
  OBVIOUS
<1> QED
  BY <1>1, <1>2 DEF IsSeq

(* What a finite set indexes is finite.                                    *)
LEMMA Indexed ==
  ASSUME NEW S, IsFiniteSet(S), NEW T, NEW f, \A t \in T : \E s \in S : t = f[s]
  PROVE  IsFiniteSet(T)
<1> DEFINE D == {s \in S : f[s] \in T}
           g == [s \in D |-> f[s]]
<1>1. IsFiniteSet(D)
  <2>1. D \in SUBSET S
    OBVIOUS
  <2> HIDE DEF D
  <2> QED
    BY <2>1, FS_Subset
<1>2. g \in Surjection(D, T)
  BY DEF Surjection
<1> HIDE DEF D, g
<1> QED
  BY <1>1, <1>2, FS_Surjection

-----------------------------------------------------------------------------
(* The parsers of lists.                                                   *)

(* A list that parses has a result of every element.                       *)
LEMMA ParseAll ==
  ASSUME NEW results, NEW n \in Nat, DOMAIN results = 1..n,
         NEW x \in parseAll(results)
  PROVE  IsSeq(x) /\ DOMAIN x = 1..n /\ \A i \in 1..n : x[i] \in results[i]
<1>1. {} \notin ToSet(results)
      /\ x = [i \in 1..n |-> CHOOSE y \in results[i] : TRUE]
  BY DEF parseAll
<1>2. \A i \in 1..n : results[i] # {}
  BY <1>1 DEF ToSet
<1>3. \A i \in 1..n : x[i] \in results[i]
  <2> TAKE i \in 1..n
  <2> DEFINE R == results[i]
  <2>1. R # {} /\ x[i] = CHOOSE y \in R : TRUE
    BY <1>1, <1>2
  <2> HIDE DEF R
  <2>2. x[i] \in R
    BY <2>1
  <2> QED
    BY <2>2 DEF R
<1>4. x = [i \in 1..n |-> x[i]]
  BY <1>1
<1> QED
  BY <1>3, <1>4, FunctionIsSeq

(* A duration that parses is a number.                                     *)
LEMMA ParseDurationInt ==
  ASSUME NEW s \in RawDuration, NEW def \in Int, NEW d \in parseDuration(s, def)
  PROVE  d \in Int
<1>1. s.k \in {"num", "unset", "empty", "auto", "infinite", "bad"}
      /\ (s.k = "num" => s.ms \in Int)
  BY DEF RawDuration, Unset, Empty, AutoText, Infinite, Bad
<1>2. CASE s.k \in {"unset", "auto"}
  <2>1. parseDuration(s, def) = {def}
    BY <1>2 DEF parseDuration
  <2> QED
    BY <2>1
<1>3. CASE s.k = "infinite"
  <2>1. parseDuration(s, def) = {Infinity}
    BY <1>3 DEF parseDuration
  <2> QED
    BY <2>1, ConfigAssumption
<1>4. CASE s.k = "empty"
  <2>1. parseDuration(s, def) = {0}
    BY <1>4 DEF parseDuration
  <2> QED
    BY <2>1
<1>5. CASE s.k \in {"num", "bad"}
  <2>1. parseDuration(s, def) = ParseDuration(s)
    BY <1>5 DEF parseDuration
  <2> QED
    BY <1>1, <1>5, <2>1 DEF ParseDuration
<1> QED
  BY <1>1, <1>2, <1>3, <1>4, <1>5

(* A preference that parses is one that RAs have.                          *)
LEMMA ParsePreference ==
  ASSUME NEW s, NEW x \in parsePreference(s)
  PROVE  x \in {"low", "medium", "high"}
<1>1. CASE s \in {"", "medium"}
  <2>1. parsePreference(s) = {"medium"}
    BY <1>1 DEF parsePreference
  <2> QED
    BY <2>1
<1>2. CASE s \in {"low", "high"}
  <2>1. parsePreference(s) = {s}
    BY <1>2 DEF parsePreference
  <2> QED
    BY <1>2, <2>1
<1>3. CASE s \notin {"", "medium", "low", "high"}
  <2>1. parsePreference(s) = {}
    BY <1>3 DEF parsePreference
  <2> QED
    BY <2>1
<1> QED
  BY <1>1, <1>2, <1>3

(* An address that parses is a sequence of bits.                           *)
LEMMA ParseIPPrefix ==
  ASSUME NEW s \in RawIP, NEW auto \in Seq({0, 1}), NEW x \in parseIPPrefix(s, auto)
  PROVE  x \in Seq({0, 1})
<1>1. s.k \in {"prefix", "empty", "bad"} /\ (s.k = "prefix" => s.bits \in Seq({0, 1}))
  BY DEF RawIP, Empty, Bad
<1>2. CASE s.k = "empty"
  <2>1. parseIPPrefix(s, auto) = {auto}
    BY <1>2 DEF parseIPPrefix
  <2> QED
    BY <2>1
<1>3. CASE s.k = "bad"
  <2>1. parseIPPrefix(s, auto) = {}
    BY <1>3 DEF parseIPPrefix
  <2> QED
    BY <2>1
<1>4. CASE s.k = "prefix"
  <2>1. parseIPPrefix(s, auto) = {s.bits}
    BY <1>4 DEF parseIPPrefix
  <2> QED
    BY <1>1, <1>4, <2>1
<1> QED
  BY <1>1, <1>2, <1>3, <1>4

(* What stands for an automatic prefix or route is one too.                *)
LEMMA AutoBits == autoPrefix \in Seq({0, 1}) /\ autoRoute \in Seq({0, 1})
<1>1. P64 \in Nat /\ autoPrefix \in [1..P64 -> {0, 1}]
  BY ConfigAssumption DEF autoPrefix
<1>2. autoPrefix \in Seq({0, 1})
  BY <1>1, SeqDef
<1> QED
  BY <1>2 DEF autoRoute

(* A prefix that parses is preferred for no longer than it is valid, its   *)
(* deadlines are numbers, and it is automatic if it is the one that stands *)
(* for that.                                                               *)
LEMMA ParsePrefix ==
  ASSUME NEW p, NEW x \in parsePrefix(p), p.prefix \in RawIP,
         p.valid \in RawDuration, p.preferred \in RawDuration
  PROVE  /\ x.valid \in Int /\ x.preferred \in Int /\ x.preferred <= x.valid
         /\ x.prefix \in Seq({0, 1}) /\ x.auto = (x.prefix = autoPrefix)
<1>1. PICK pfx \in parseIPPrefix(p.prefix, autoPrefix),
           v \in parseDuration(p.valid, 24 * hour),
           q \in parseDuration(p.preferred, 4 * hour) :
        x = [prefix |-> pfx, auto |-> pfx = autoPrefix, valid |-> v,
             preferred |-> q, deprecated |-> p.deprecated]
  BY DEF parsePrefix
<1>2. PICK b : b = (pfx = autoPrefix)
  BY Zenon
<1>3. x = [prefix |-> pfx, auto |-> b, valid |-> v,
           preferred |-> q, deprecated |-> p.deprecated]
  BY <1>1, <1>2, Zenon
<1>4. x.valid = v /\ x.preferred = q /\ x.prefix = pfx /\ x.auto = b
  BY <1>3
<1>5. v \in Int /\ q \in Int
  BY ParseDurationInt DEF hour, sec
<1>6. x.preferred <= x.valid
  BY DEF parsePrefix
<1>7. x.prefix \in Seq({0, 1})
  BY <1>4, ParseIPPrefix, AutoBits
<1>8. x.auto = (x.prefix = autoPrefix)
  BY <1>2, <1>4, Zenon
<1> QED
  BY <1>4, <1>5, <1>6, <1>7, <1>8, Zenon

(* So it is with routes, and a preference is one of three.                 *)
LEMMA ParseRoute ==
  ASSUME NEW r, NEW x \in parseRoute(r), r.prefix \in RawIP,
         r.lifetime \in RawDuration
  PROVE  /\ x.lifetime \in Int /\ x.preference \in {"low", "medium", "high"}
         /\ x.prefix \in Seq({0, 1}) /\ x.auto = (x.prefix = autoRoute)
<1>1. PICK pfx \in parseIPPrefix(r.prefix, autoRoute),
           lt \in parseDuration(r.lifetime, 24 * hour),
           pref \in parsePreference(r.preference) :
        x = [prefix |-> pfx, auto |-> pfx = autoRoute, lifetime |-> lt,
             preference |-> pref, deprecated |-> r.deprecated]
  BY DEF parseRoute
<1>2. PICK b : b = (pfx = autoRoute)
  BY Zenon
<1>3. x = [prefix |-> pfx, auto |-> b, lifetime |-> lt,
           preference |-> pref, deprecated |-> r.deprecated]
  BY <1>1, <1>2, Zenon
<1>4. x.lifetime = lt /\ x.preference = pref /\ x.prefix = pfx /\ x.auto = b
  BY <1>3
<1>5. lt \in Int
  BY ParseDurationInt DEF hour, sec
<1>6. pref \in {"low", "medium", "high"}
  BY ParsePreference
<1>7. x.prefix \in Seq({0, 1})
  BY <1>4, ParseIPPrefix, AutoBits
<1>8. x.auto = (x.prefix = autoRoute)
  BY <1>2, <1>4, Zenon
<1> QED
  BY <1>4, <1>5, <1>6, <1>7, <1>8, Zenon

(* The servers that parse are finitely many addresses.                     *)
LEMMA ParseRDNSS ==
  ASSUME NEW d, d.servers \in Seq(RawIP \ {Empty}), NEW max, NEW x \in parseRDNSS(d, max)
  PROVE  IsFiniteSet(x.servers) /\ x.servers \subseteq Seq({0, 1})
<1> DEFINE s == d.servers
           ips == {e.bits : e \in ToSet(s) \ {Bad}}
           auto == ips = {} \/ Wildcard \in ips
           f == [i \in 1..Len(s) |-> s[i].bits]
<1>1. x.servers = ips \ {Wildcard}
  <2>1. parseRDNSS(d, max) =
          {[auto |-> auto, servers |-> ips \ {Wildcard}, lifetime |-> lt] :
             lt \in {y \in parseDuration(d.lifetime, 3 * max) :
                       Bad \notin ToSet(d.servers) /\ IsInjective(d.servers)}}
    BY DEF parseRDNSS
  <2> HIDE DEF ips, auto
  <2> QED
    BY <2>1
<1>2. Len(s) \in Nat /\ DOMAIN s = 1..Len(s)
  OBVIOUS
<1>3. \A ip \in ips : \E i \in 1..Len(s) : ip = f[i]
  BY <1>2 DEF ToSet
<1>4. ips \subseteq Seq({0, 1})
  <2>1. \A e \in (RawIP \ {Empty}) \ {Bad} : e.bits \in Seq({0, 1})
    BY DEF RawIP
  <2>2. ToSet(s) \subseteq RawIP \ {Empty}
    BY <1>2 DEF ToSet
  <2> QED
    BY <2>1, <2>2
<1>5. IsFiniteSet(1..Len(s))
  BY <1>2, FS_Interval
<1> HIDE DEF ips, f
<1>6. IsFiniteSet(ips)
  BY <1>3, <1>5, Indexed
<1>7. ips \ {Wildcard} \in SUBSET ips
  OBVIOUS
<1> QED
  BY <1>1, <1>4, <1>6, <1>7, FS_Subset

(* What is known of the plugins of an interface with a certain maximum     *)
(* interval.                                                               *)
PluginsParsed(p, max) ==
  /\ IsSeq(p.prefixes) /\ IsSeq(p.routes) /\ IsSeq(p.rdnss) /\ IsSeq(p.dnssl)
  /\ IsSeq(p.pref64)
  /\ \A i \in DOMAIN p.prefixes :
       /\ p.prefixes[i].valid \in Int /\ p.prefixes[i].preferred \in Int
       /\ p.prefixes[i].preferred <= p.prefixes[i].valid
       /\ p.prefixes[i].prefix \in Seq({0, 1})
       /\ p.prefixes[i].auto = (p.prefixes[i].prefix = autoPrefix)
  /\ \A i \in DOMAIN p.routes :
       /\ p.routes[i].lifetime \in Int
       /\ p.routes[i].preference \in {"low", "medium", "high"}
       /\ p.routes[i].prefix \in Seq({0, 1})
       /\ p.routes[i].auto = (p.routes[i].prefix = autoRoute)
  /\ NoOverlap(p.prefixes) /\ NoRouteOverlap(p.routes)
  /\ \A i \in DOMAIN p.rdnss :
       IsFiniteSet(p.rdnss[i].servers) /\ p.rdnss[i].servers \subseteq Seq({0, 1})
  /\ \A i \in DOMAIN p.pref64 : p.pref64[i].lifetime = NewPREF64(max)

(* Plugins that parse are as PluginsParsed says.                           *)
LEMMA ParsePlugins ==
  ASSUME NEW raw \in RawInterface, NEW max, NEW p \in parsePlugins(raw, max)
  PROVE  PluginsParsed(p, max)
<1> DEFINE A == parseEach(parsePrefix, raw.prefixes)
           B == parseEach(parseRoute, raw.routes)
           C == parseEach(LAMBDA d : parseRDNSS(d, max), raw.rdnss)
           D == parseEach(LAMBDA d : parseDNSSL(d, max), raw.dnssl)
           E == parseEach(LAMBDA q : parsePREF64(q, max), raw.pref64)
           lla == raw.lla # "false"
<1>0. parsePlugins(raw, max) =
        {x \in {[prefixes |-> a, routes |-> b, rdnss |-> c, dnssl |-> d, pref64 |-> e,
                 mtu |-> raw.mtu, lla |-> lla, portal |-> raw.portal] :
                  a \in A, b \in B, c \in C, d \in D, e \in E} :
           /\ NoOverlap(x.prefixes) /\ NoRouteOverlap(x.routes)
           /\ 0 <= x.mtu /\ x.mtu <= 65536
           /\ x.portal # "bad"}
  BY DEF parsePlugins
<1> HIDE DEF A, B, C, D, E, lla
<1>1. PICK a \in A, b \in B, c \in C, d \in D, e \in E :
        p = [prefixes |-> a, routes |-> b, rdnss |-> c, dnssl |-> d, pref64 |-> e,
             mtu |-> raw.mtu, lla |-> lla, portal |-> raw.portal]
  BY <1>0
<1>2. /\ p.prefixes = a /\ p.routes = b /\ p.rdnss = c /\ p.dnssl = d
      /\ p.pref64 = e
  BY <1>1
<1>3. /\ raw.prefixes \in Seq([prefix : RawIP, valid : RawDuration,
                               preferred : RawDuration, deprecated : BOOLEAN])
      /\ raw.routes \in Seq([prefix : RawIP, lifetime : RawDuration,
                             preference : STRING, deprecated : BOOLEAN])
      /\ raw.rdnss \in Seq([servers : Seq(RawIP \ {Empty}), lifetime : RawDuration])
      /\ raw.dnssl \in Seq([names : Seq(STRING), lifetime : RawDuration])
      /\ raw.pref64 \in Seq(RawIP \cup {Unset})
  BY DEF RawInterface
<1>4. /\ IsSeq(a)
      /\ \A i \in DOMAIN a :
           /\ a[i].valid \in Int /\ a[i].preferred \in Int
           /\ a[i].preferred <= a[i].valid
           /\ a[i].prefix \in Seq({0, 1}) /\ a[i].auto = (a[i].prefix = autoPrefix)
  <2>1. A = parseAll([i \in DOMAIN raw.prefixes |-> parsePrefix(raw.prefixes[i])])
    BY DEF A, parseEach
  <2>2. /\ Len(raw.prefixes) \in Nat /\ DOMAIN raw.prefixes = 1..Len(raw.prefixes)
        /\ \A i \in DOMAIN raw.prefixes :
             /\ raw.prefixes[i].valid \in RawDuration
             /\ raw.prefixes[i].preferred \in RawDuration
             /\ raw.prefixes[i].prefix \in RawIP
    <3> DEFINE S == [prefix : RawIP, valid : RawDuration,
                     preferred : RawDuration, deprecated : BOOLEAN]
    <3>1. raw.prefixes \in Seq(S)
      BY <1>3
    <3>2. \A x \in S : /\ x.valid \in RawDuration /\ x.preferred \in RawDuration
                       /\ x.prefix \in RawIP
      OBVIOUS
    <3> HIDE DEF S
    <3> QED
      BY <3>1, <3>2
  <2>3. /\ IsSeq(a) /\ DOMAIN a = DOMAIN raw.prefixes
        /\ \A i \in DOMAIN a : a[i] \in parsePrefix(raw.prefixes[i])
    BY <2>1, <2>2, ParseAll
  <2> QED
    BY <2>2, <2>3, ParsePrefix
<1>5. /\ IsSeq(b)
      /\ \A i \in DOMAIN b :
           /\ b[i].lifetime \in Int /\ b[i].preference \in {"low", "medium", "high"}
           /\ b[i].prefix \in Seq({0, 1}) /\ b[i].auto = (b[i].prefix = autoRoute)
  <2>1. B = parseAll([i \in DOMAIN raw.routes |-> parseRoute(raw.routes[i])])
    BY DEF B, parseEach
  <2>2. /\ Len(raw.routes) \in Nat /\ DOMAIN raw.routes = 1..Len(raw.routes)
        /\ \A i \in DOMAIN raw.routes : /\ raw.routes[i].lifetime \in RawDuration
                                        /\ raw.routes[i].prefix \in RawIP
    <3> DEFINE S == [prefix : RawIP, lifetime : RawDuration,
                     preference : STRING, deprecated : BOOLEAN]
    <3>1. raw.routes \in Seq(S)
      BY <1>3
    <3>2. \A x \in S : x.lifetime \in RawDuration /\ x.prefix \in RawIP
      OBVIOUS
    <3> HIDE DEF S
    <3> QED
      BY <3>1, <3>2
  <2>3. /\ IsSeq(b) /\ DOMAIN b = DOMAIN raw.routes
        /\ \A i \in DOMAIN b : b[i] \in parseRoute(raw.routes[i])
    BY <2>1, <2>2, ParseAll
  <2> QED
    BY <2>2, <2>3, ParseRoute
<1>6. /\ IsSeq(c)
      /\ \A i \in DOMAIN c : IsFiniteSet(c[i].servers) /\ c[i].servers \subseteq Seq({0, 1})
  <2>1. C = parseAll([i \in DOMAIN raw.rdnss |-> parseRDNSS(raw.rdnss[i], max)])
    BY DEF C, parseEach
  <2>2. /\ Len(raw.rdnss) \in Nat /\ DOMAIN raw.rdnss = 1..Len(raw.rdnss)
        /\ \A i \in DOMAIN raw.rdnss : raw.rdnss[i].servers \in Seq(RawIP \ {Empty})
    <3> DEFINE S == [servers : Seq(RawIP \ {Empty}), lifetime : RawDuration]
    <3>1. raw.rdnss \in Seq(S)
      BY <1>3
    <3>2. \A x \in S : x.servers \in Seq(RawIP \ {Empty})
      OBVIOUS
    <3> HIDE DEF S
    <3> QED
      BY <3>1, <3>2
  <2>3. /\ IsSeq(c) /\ DOMAIN c = DOMAIN raw.rdnss
        /\ \A i \in DOMAIN c : c[i] \in parseRDNSS(raw.rdnss[i], max)
    BY <2>1, <2>2, ParseAll
  <2> QED
    BY <2>2, <2>3, ParseRDNSS
<1>7. IsSeq(d)
  <2>1. D = parseAll([i \in DOMAIN raw.dnssl |-> parseDNSSL(raw.dnssl[i], max)])
    BY DEF D, parseEach
  <2>2. Len(raw.dnssl) \in Nat /\ DOMAIN raw.dnssl = 1..Len(raw.dnssl)
    BY <1>3
  <2> QED
    BY <2>1, <2>2, ParseAll
<1>8. IsSeq(e) /\ \A i \in DOMAIN e : e[i].lifetime = NewPREF64(max)
  <2>1. E = parseAll([i \in DOMAIN raw.pref64 |-> parsePREF64(raw.pref64[i], max)])
    BY DEF E, parseEach
  <2>2. Len(raw.pref64) \in Nat /\ DOMAIN raw.pref64 = 1..Len(raw.pref64)
    BY <1>3
  <2>3. /\ IsSeq(e) /\ DOMAIN e = DOMAIN raw.pref64
        /\ \A i \in DOMAIN e : e[i] \in parsePREF64(raw.pref64[i], max)
    BY <2>1, <2>2, ParseAll
  <2> QED
    BY <2>3 DEF parsePREF64
<1>9. NoOverlap(p.prefixes) /\ NoRouteOverlap(p.routes)
  BY <1>0
<1> QED
  BY <1>2, <1>4, <1>5, <1>6, <1>7, <1>8, <1>9, Zenon DEF PluginsParsed

-----------------------------------------------------------------------------
(* The parsers of a stanza.                                                *)

(* A plain duration that parses is a number within its limits.             *)
LEMMA ParsePlain ==
  ASSUME NEW s \in RawDuration, NEW def \in Int, NEW lo \in Int, NEW hi \in Int,
         NEW d \in parsePlain(s, def, lo, hi)
  PROVE  d \in lo..hi
<1>1. s.k = "num" => s.ms \in Int
  BY DEF RawDuration, Unset, Empty, AutoText, Infinite, Bad
<1> QED
  BY <1>1 DEF parsePlain, ParseDuration

(* A minimum interval is positive, and no longer than the maximum.         *)
LEMMA ParseMinInterval ==
  ASSUME NEW s \in RawDuration, NEW max \in Int, 4 * sec <= max,
         NEW d \in parseMinInterval(s, max)
  PROVE  d \in Int /\ 0 < d /\ d <= max
<1>1. s.k = "num" => s.ms \in Int
  BY DEF RawDuration, Unset, Empty, AutoText, Infinite, Bad
<1>2. CASE s.k \in {"unset", "empty", "auto"}
  BY <1>2 DEF parseMinInterval, Truncate, sec
<1>3. CASE ~(s.k \in {"unset", "empty", "auto"})
  BY <1>1, <1>3 DEF parseMinInterval, ParseDuration, Truncate, sec
<1> QED
  BY <1>2, <1>3

(* A router lifetime is 0 or no shorter than the maximum interval.         *)
LEMMA ParseDefaultLifetime ==
  ASSUME NEW s \in RawDuration, NEW max \in Int,
         NEW lt \in parseDefaultLifetime(s, max)
  PROVE  lt \in Int /\ (lt # 0 => max <= lt)
<1>1. lt \in parseDuration(s, 3 * max) /\ (lt # 0 => max <= lt)
  BY DEF parseDefaultLifetime
<1> QED
  BY <1>1, ParseDurationInt

(* What is known of an interface that is to be advertised on.              *)
Parsed(c) ==
  c.mode = "advertise" =>
    /\ c.min \in Int /\ c.max \in Int /\ c.lifetime \in Int
    /\ 4 * sec <= c.max /\ c.max <= 1800 * sec
    /\ 0 < c.min /\ c.min <= c.max
    /\ c.lifetime # 0 => c.max <= c.lifetime
    /\ c.preference \in {"low", "medium", "high"}
    /\ PluginsParsed(c.plugins, c.max)

(* An interface that parses is as Parsed says.                             *)
LEMMA ParseInterface ==
  ASSUME NEW raw \in RawInterface, NEW name, NEW x \in parseInterface(name, raw)
  PROVE  Parsed(x)
<1>1. CASE raw.monitor
  <2>1. x = MonitorInterface(name)
    BY <1>1 DEF parseInterface
  <2> QED
    BY <2>1 DEF MonitorInterface, Parsed
<1>2. CASE ~raw.monitor
  <2> DEFINE mode == IF raw.advertise THEN "advertise" ELSE "idle"
             Of(max) ==
               {[name |-> name, mode |-> mode, min |-> min, max |-> max,
                 reachable |-> reach, retrans |-> retrans, hop |-> hop,
                 lifetime |-> lt, preference |-> pref, plugins |-> p] :
                  min \in parseMinInterval(raw.min, max),
                  reach \in parsePlain(raw.reachable, 0, 0, hour),
                  retrans \in parsePlain(raw.retrans, 0, 0, hour),
                  hop \in parseHopLimit(raw.hop),
                  lt \in parseDefaultLifetime(raw.lifetime, max),
                  pref \in parsePreference(raw.preference),
                  p \in parsePlugins(raw, max)}
             Every == UNION {Of(max) :
                               max \in parsePlain(raw.max, 600 * sec, 4 * sec,
                                                  1800 * sec)}
  <2>0. parseInterface(name, raw) =
          IF raw.monitor /\ raw.advertise THEN {}
          ELSE IF raw.monitor THEN {MonitorInterface(name)} ELSE Every
    BY DEF parseInterface
  <2> HIDE DEF mode, Every
  <2>1. x \in Every
    BY <1>2, <2>0
  <2>2. PICK max \in parsePlain(raw.max, 600 * sec, 4 * sec, 1800 * sec) :
          x \in Of(max)
    <3> HIDE DEF Of
    <3> QED
      BY <2>1 DEF Every
  <2>3. PICK min \in parseMinInterval(raw.min, max),
             reach \in parsePlain(raw.reachable, 0, 0, hour),
             retrans \in parsePlain(raw.retrans, 0, 0, hour),
             hop \in parseHopLimit(raw.hop),
             lt \in parseDefaultLifetime(raw.lifetime, max),
             pref \in parsePreference(raw.preference),
             p \in parsePlugins(raw, max) :
          x = [name |-> name, mode |-> mode, min |-> min, max |-> max,
               reachable |-> reach, retrans |-> retrans, hop |-> hop,
               lifetime |-> lt, preference |-> pref, plugins |-> p]
    BY <2>2
  <2>4. /\ raw.max \in RawDuration /\ raw.min \in RawDuration
        /\ raw.lifetime \in RawDuration
    BY DEF RawInterface
  <2>5. max \in Int /\ 4 * sec <= max /\ max <= 1800 * sec
    <3> DEFINE def == 600 * sec
               lo == 4 * sec
               hi == 1800 * sec
               s == raw.max
    <3>1. def \in Int /\ lo \in Int /\ hi \in Int
      BY DEF sec
    <3>2. s \in RawDuration /\ max \in parsePlain(s, def, lo, hi)
      BY <2>4
    <3> HIDE DEF def, lo, hi, s
    <3>3. max \in lo..hi
      BY ONLY <3>1, <3>2, ParsePlain
    <3> QED
      BY ONLY <3>1, <3>3 DEF lo, hi
  <2>6. min \in Int /\ 0 < min /\ min <= max
    BY <2>4, <2>5, ParseMinInterval
  <2>7. lt \in Int /\ (lt # 0 => max <= lt)
    BY <2>4, <2>5, ParseDefaultLifetime
  <2>8. pref \in {"low", "medium", "high"}
    BY ParsePreference
  <2>9. PluginsParsed(p, max)
    BY ParsePlugins
  <2>10. /\ x.min = min /\ x.max = max /\ x.lifetime = lt /\ x.preference = pref
         /\ x.plugins = p
    BY <2>3
  <2> QED
    BY <2>5, <2>6, <2>7, <2>8, <2>9, <2>10 DEF Parsed
<1> QED
  BY <1>1, <1>2

(* So are the interfaces of a stanza that parses.                          *)
LEMMA ParseInterfaces ==
  ASSUME NEW raw \in RawInterface, NEW parsed \in parseInterfaces(raw)
  PROVE  IsSeq(parsed) /\ \A i \in DOMAIN parsed : Parsed(parsed[i])
<1> DEFINE names == IF raw.name = "" THEN raw.names ELSE <<raw.name>>
           results == [i \in DOMAIN names |-> parseInterface(names[i], raw)]
<1>1. parsed \in parseAll(results)
  BY DEF parseInterfaces
<1>2. raw.names \in Seq(STRING) /\ raw.name \in STRING
  BY DEF RawInterface
<1>3. names \in Seq(STRING)
  <2>1. <<raw.name>> \in Seq(STRING)
    BY <1>2
  <2> QED
    BY <1>2, <2>1, Zenon
<1> HIDE DEF names
<1>4. Len(names) \in Nat /\ DOMAIN names = 1..Len(names)
  BY <1>3
<1>5. IsSeq(parsed) /\ DOMAIN parsed = DOMAIN names
      /\ \A i \in DOMAIN parsed : parsed[i] \in results[i]
  BY <1>1, <1>4, ParseAll
<1> QED
  BY <1>5, ParseInterface

-----------------------------------------------------------------------------
(* The loop over the names of a stanza: those it has passed are in seen,   *)
(* differ from each other and from all names of earlier stanzas.           *)
NamesInv ==
  /\ IsSeq(ifis) /\ \A k \in DOMAIN ifis : Parsed(ifis[k])
  /\ \A k \in DOMAIN ifis : k < at =>
       /\ ifis[k].name \in seen
       /\ \A i \in DOMAIN Interfaces : Interfaces[i].name # ifis[k].name
       /\ \A l \in DOMAIN ifis : l < k => ifis[l].name # ifis[k].name

(* The invariant of the daemon from its file to its RAs: the interfaces    *)
(* parsed so far have names of their own, which seen holds, and are as     *)
(* Parsed says, and the one that is followed is one of those that          *)
(* advertise.                                                              *)
ParseInv ==
  /\ file \in Files /\ stanza \in Nat \ {0} /\ at \in Nat
  /\ IsSeq(Interfaces) /\ IsInjective(Names(Interfaces))
  /\ \A i \in DOMAIN Interfaces : /\ Parsed(Interfaces[i])
                                  /\ Interfaces[i].name \in seen
  /\ status = "names" => NamesInv

ServeInv ==
  /\ now \in Nat /\ prepared \in BOOLEAN
  /\ prepared => advertiser # 0
  /\ advertiser # 0 =>
       /\ status = "ok" /\ advertiser \in DOMAIN Interfaces
       /\ ifi.mode = "advertise"

KernelInv == addrs \in Seq(Addresses) /\ routes \subseteq RouteTable

Inv == ParseInv /\ ServeInv /\ KernelInv

(* A sequence without one of its elements is a sequence.                   *)
LEMMA RemoveAtSeq ==
  ASSUME NEW S, NEW s \in Seq(S), NEW i \in DOMAIN s
  PROVE  RemoveAt(s, i) \in Seq(S)
<1>1. Len(s) \in Nat /\ i \in 1..Len(s) /\ \A j \in 1..Len(s) : s[j] \in S
  OBVIOUS
<1>2. SubSeq(s, 1, i - 1) \in Seq(S) /\ SubSeq(s, i + 1, Len(s)) \in Seq(S)
  BY <1>1, SubSeqProperties
<1> QED
  BY <1>2, ConcatProperties DEF RemoveAt

(* The stanza that is parsed next is one.                                  *)
LEMMA PendingStanza ==
  ASSUME ParseInv, Pending
  PROVE  file.stanzas[stanza] \in RawInterface
<1>1. file.stanzas \in Seq(RawInterface)
  BY FilesAssumption DEF ParseInv
<1>2. stanza \in 1..Len(file.stanzas)
  BY <1>1 DEF ParseInv, Pending
<1> QED
  BY <1>1, <1>2, ElementOfSeq

(* The invariant holds to begin with.                                      *)
LEMMA InvInit == Init => Inv
<1> SUFFICES ASSUME Init PROVE Inv
  OBVIOUS
<1>1. /\ file \in Files /\ stanza = 1 /\ Interfaces = <<>> /\ at = 1
      /\ status = "decode"
      /\ now = 0 /\ prepared = FALSE /\ advertiser = 0
      /\ addrs = <<>> /\ routes = {}
  BY DEF Init, ParseInit
<1>2. IsSeq(Interfaces)
  BY <1>1 DEF IsSeq
<1>3. /\ IsInjective(Names(Interfaces))
      /\ \A i \in DOMAIN Interfaces : Parsed(Interfaces[i]) /\ Interfaces[i].name \in seen
  BY <1>1 DEF IsInjective, Names
<1> QED
  <2>1. ParseInv
    BY <1>1, <1>2, <1>3 DEF ParseInv
  <2>2. now \in Nat
    BY <1>1
  <2>3. ServeInv
    BY <1>1, <2>2, Zenon DEF ServeInv
  <2>4. KernelInv
    BY <1>1 DEF KernelInv
  <2> QED
    BY <2>1, <2>3, <2>4 DEF Inv

(* Names that differ within each of two sequences, and between them,       *)
(* differ within both together.                                            *)
LEMMA NamesInjective ==
  ASSUME NEW s, NEW t, IsSeq(s), IsSeq(t), IsInjective(Names(s)),
         \A k, l \in DOMAIN t : l < k => t[l].name # t[k].name,
         \A i \in DOMAIN s, k \in DOMAIN t : s[i].name # t[k].name
  PROVE  IsInjective(Names(s \o t))
<1> DEFINE u == s \o t
<1>1. /\ Len(s) \in Nat /\ Len(t) \in Nat
      /\ DOMAIN s = 1..Len(s) /\ DOMAIN t = 1..Len(t) /\ DOMAIN u = 1..(Len(s) + Len(t))
      /\ \A i \in DOMAIN s : u[i] = s[i]
      /\ \A i \in DOMAIN u : i \notin DOMAIN s => i - Len(s) \in DOMAIN t /\ u[i] = t[i - Len(s)]
  BY ConcatAt
<1> HIDE DEF u
<1>2. \A i, j \in DOMAIN s : s[i].name = s[j].name => i = j
  BY DEF IsInjective, Names
<1>3. ASSUME NEW i \in DOMAIN u, NEW j \in DOMAIN u, u[i].name = u[j].name, i < j
      PROVE  FALSE
  <2>1. CASE j \in DOMAIN s
    <3>1. i \in DOMAIN s
      BY <1>1, <1>3, <2>1
    <3> QED
      BY <1>1, <1>2, <1>3, <2>1, <3>1
  <2>2. CASE j \notin DOMAIN s /\ i \in DOMAIN s
    BY <1>1, <1>3, <2>2
  <2>3. CASE j \notin DOMAIN s /\ i \notin DOMAIN s
    <3>1. /\ i - Len(s) \in DOMAIN t /\ u[i] = t[i - Len(s)]
          /\ j - Len(s) \in DOMAIN t /\ u[j] = t[j - Len(s)]
      BY <1>1, <2>3
    <3>2. i - Len(s) < j - Len(s)
      BY <1>1, <1>3
    <3> QED
      BY <1>3, <3>1, <3>2
  <2> QED
    BY <2>1, <2>2, <2>3
<1>4. \A i, j \in DOMAIN u : i = j \/ i < j \/ j < i
  BY <1>1
<1>5. \A i, j \in DOMAIN u : u[i].name = u[j].name => i = j
  BY <1>3, <1>4
<1> QED
  BY <1>5 DEF IsInjective, Names, u

(* A name that is new leaves the loop with one more that it has passed.    *)
LEMMA CheckNameKeeps ==
  ASSUME ParseInv, CheckName
  PROVE  ParseInv'
<1>1. /\ Checking /\ ifis[at].name \notin seen
      /\ seen' = seen \cup {ifis[at].name} /\ at' = at + 1
      /\ UNCHANGED <<file, stanza, ifis, Interfaces, Debug, status>>
  BY DEF CheckName
<1>2. NamesInv /\ at \in Nat
  BY <1>1 DEF ParseInv, Checking
<1>3. DOMAIN ifis = 1..Len(ifis) /\ Len(ifis) \in Nat
  BY <1>2, LenProperties DEF NamesInv, IsSeq
<1>4. ASSUME NEW k \in DOMAIN ifis, k < at + 1
      PROVE  /\ ifis[k].name \in seen'
             /\ \A i \in DOMAIN Interfaces : Interfaces[i].name # ifis[k].name
             /\ \A l \in DOMAIN ifis : l < k => ifis[l].name # ifis[k].name
  <2>1. CASE k = at
    <3>1. ASSUME NEW l \in DOMAIN ifis, l < k PROVE ifis[l].name # ifis[k].name
      BY <1>1, <1>2, <2>1, <3>1 DEF NamesInv
    <3>2. \A i \in DOMAIN Interfaces : Interfaces[i].name # ifis[k].name
      BY <1>1, <2>1 DEF ParseInv
    <3> QED
      BY <1>1, <2>1, <3>1, <3>2
  <2>2. CASE k # at
    <3>1. k < at
      BY <1>2, <1>3, <1>4, <2>2
    <3> QED
      BY <1>1, <1>2, <3>1 DEF NamesInv
  <2> QED
    BY <2>1, <2>2
<1>5. NamesInv'
  <2>1. IsSeq(ifis)' /\ \A k \in DOMAIN ifis' : Parsed(ifis'[k])
    BY <1>1, <1>2 DEF NamesInv
  <2> QED
    BY <1>1, <1>4, <2>1 DEF NamesInv
<1>6. \A i \in DOMAIN Interfaces' : Parsed(Interfaces'[i]) /\ Interfaces'[i].name \in seen'
  BY <1>1 DEF ParseInv
<1> QED
  BY <1>1, <1>2, <1>5, <1>6 DEF ParseInv

(* After the last name, the stanza's interfaces join the others.           *)
LEMMA AppendStanzaKeeps ==
  ASSUME ParseInv, AppendStanza
  PROVE  ParseInv'
<1>1. /\ status = "names" /\ ~(at <= Len(ifis)) /\ Interfaces' = Interfaces \o ifis
      /\ status' = "parse" /\ UNCHANGED <<file, stanza, seen, ifis, at, Debug>>
  BY DEF AppendStanza, Checking
<1>2. NamesInv /\ at \in Nat /\ IsSeq(Interfaces) /\ IsInjective(Names(Interfaces))
  BY <1>1 DEF ParseInv
<1>3. DOMAIN ifis = 1..Len(ifis) /\ Len(ifis) \in Nat
  BY <1>2, LenProperties DEF NamesInv, IsSeq
<1>4. \A k \in DOMAIN ifis : k < at
  BY <1>1, <1>2, <1>3
<1>5. /\ IsSeq(ifis) /\ \A k \in DOMAIN ifis : Parsed(ifis[k]) /\ ifis[k].name \in seen
      /\ \A k, l \in DOMAIN ifis : l < k => ifis[l].name # ifis[k].name
      /\ \A i \in DOMAIN Interfaces, k \in DOMAIN ifis : Interfaces[i].name # ifis[k].name
  BY <1>2, <1>4 DEF NamesInv
<1>6. IsInjective(Names(Interfaces \o ifis))
  BY <1>2, <1>5, NamesInjective
<1>7. IsSeq(Interfaces \o ifis)
  BY <1>2, <1>5, Concat
<1>8. \A i \in DOMAIN (Interfaces \o ifis) :
        Parsed((Interfaces \o ifis)[i]) /\ (Interfaces \o ifis)[i].name \in seen
  <2> DEFINE S == {x \in ToSet(Interfaces) \cup ToSet(ifis) : Parsed(x) /\ x.name \in seen}
  <2>1. ToSet(Interfaces) \subseteq S
    BY DEF ParseInv, ToSet
  <2>2. ToSet(ifis) \subseteq S
    BY <1>5 DEF ToSet
  <2>3. \A x \in S : Parsed(x) /\ x.name \in seen
    OBVIOUS
  <2> HIDE DEF S
  <2>4. ToSet(Interfaces \o ifis) \subseteq S
    BY <1>2, <1>5, <2>1, <2>2, ConcatWithin
  <2> QED
    BY <2>3, <2>4 DEF ToSet
<1> QED
  BY <1>1, <1>6, <1>7, <1>8 DEF ParseInv

(* Parsing preserves the invariant.                                        *)
LEMMA ParseKeepsInv ==
  ASSUME Inv, ParseConfig
  PROVE  Inv'
<1>1. UNCHANGED <<advertiser, prepared, now, addrs, routes>> /\ Parse /\ ParseInv
  BY DEF ParseConfig, Inv
<1>2. status # "ok"
  BY <1>1 DEF Parse, RejectFile, Decode, ParseStanza, RejectStanza, CheckName, RejectName,
     AppendStanza, Accept, Pending, Checking
<1>3. ServeInv' /\ KernelInv'
  BY <1>1, <1>2 DEF Inv, ServeInv, KernelInv
<1>4. CASE ParseStanza
  <2>1. /\ ifis' \in parseInterfaces(file.stanzas[stanza]) /\ at' = 1 /\ stanza' = stanza + 1
        /\ UNCHANGED <<file, seen, Interfaces, Debug>>
    BY <1>4 DEF ParseStanza
  <2>2. IsSeq(ifis') /\ \A k \in DOMAIN ifis' : Parsed(ifis'[k])
    BY <1>1, <1>4, <2>1, PendingStanza, ParseInterfaces DEF ParseStanza
  <2>3. \A k \in DOMAIN ifis' : ~(k < at')
    <3>1. DOMAIN ifis' = 1..Len(ifis')
      BY <2>2, LenProperties DEF IsSeq
    <3> QED
      BY <2>1, <3>1
  <2>4. NamesInv'
    BY <2>2, <2>3 DEF NamesInv
  <2> QED
    BY <1>1, <1>3, <2>1, <2>4 DEF Inv, ParseInv
<1>5. CASE RejectFile \/ Decode \/ RejectStanza \/ RejectName \/ Accept
  <2>1. UNCHANGED <<file, stanza, seen, ifis, at, Interfaces>> /\ status' # "names"
    BY <1>5 DEF RejectFile, Decode, RejectStanza, RejectName, Accept
  <2> QED
    BY <1>1, <1>3, <2>1 DEF Inv, ParseInv
<1> QED
  BY <1>1, <1>3, <1>4, <1>5, CheckNameKeeps, AppendStanzaKeeps DEF Parse, Inv

(* So does everything that happens later.                                  *)
LEMMA InvStep ==
  ASSUME Inv, [Next]_vars
  PROVE  Inv'
<1>1. CASE ParseConfig
  BY <1>1, ParseKeepsInv
<1>2. CASE \E i \in DOMAIN Interfaces : BuildTasks(i)
  BY <1>2 DEF BuildTasks, parseVars, Inv, ParseInv, NamesInv, ServeInv, KernelInv, ifi
<1>3. CASE Prepare
  BY <1>3 DEF Prepare, parseVars, Inv, ParseInv, NamesInv, ServeInv, KernelInv, ifi
<1>4. CASE Tick
  BY <1>4, BuildAssumption
     DEF Tick, parseVars, Inv, ParseInv, NamesInv, ServeInv, KernelInv, ifi
<1>5. CASE \/ \E a \in Addresses : AddrAdded(a)
           \/ \E i \in DOMAIN addrs : AddrRemoved(i)
           \/ \E rt \in RouteTable : RoutesChange(rt)
           \/ ForwardingChanges
           \/ UNCHANGED vars
  <2>1. UNCHANGED <<parseVars, advertiser, prepared, now>>
    BY <1>5 DEF AddrAdded, AddrRemoved, RoutesChange, ForwardingChanges, vars
  <2>2. (ParseInv /\ ServeInv)'
    BY <2>1 DEF parseVars, Inv, ParseInv, NamesInv, ServeInv, ifi
  <2>3. addrs \in Seq(Addresses) /\ routes \subseteq RouteTable
    BY DEF Inv, KernelInv
  <2>4. CASE \E a \in Addresses : AddrAdded(a)
    <3>1. PICK a \in Addresses : addrs' = Append(addrs, a) /\ routes' = routes
      BY <2>4 DEF AddrAdded
    <3>2. addrs' \in Seq(Addresses)
      BY <2>3, <3>1
    <3> QED
      BY <2>2, <2>3, <3>1, <3>2 DEF Inv, KernelInv
  <2>5. CASE \E i \in DOMAIN addrs : AddrRemoved(i)
    <3>1. PICK i \in DOMAIN addrs : addrs' = RemoveAt(addrs, i) /\ routes' = routes
      BY <2>5 DEF AddrRemoved
    <3>2. addrs' \in Seq(Addresses)
      BY <2>3, <3>1, RemoveAtSeq
    <3> QED
      BY <2>2, <2>3, <3>1, <3>2 DEF Inv, KernelInv
  <2>6. CASE \E rt \in RouteTable : RoutesChange(rt)
    BY <2>2, <2>3, <2>6 DEF RoutesChange, Inv, KernelInv
  <2>7. CASE ForwardingChanges \/ UNCHANGED vars
    BY <2>2, <2>3, <2>7 DEF ForwardingChanges, vars, Inv, KernelInv
  <2> QED
    BY <1>5, <2>4, <2>5, <2>6, <2>7
<1> QED
  BY <1>1, <1>2, <1>3, <1>4, <1>5 DEF Next

(* It is an invariant.                                                     *)
LEMMA InvHolds == Spec => []Inv
  BY InvInit, InvStep, PTL DEF Spec

-----------------------------------------------------------------------------
(* Every file, of any number of stanzas and with groups of any size: the   *)
(* loop of Parse over the names it has seen lets no interface through      *)
(* twice.                                                                  *)
THEOREM ConfigOneTask == Spec => []OneTaskPerInterface
<1>1. Inv => OneTaskPerInterface
  BY DEF Inv, ParseInv, OneTaskPerInterface
<1> QED
  BY <1>1, InvHolds, PTL

(* An accepted interface that advertises is as Parsed says.                *)
LEMMA AdvertisingParsed ==
  ASSUME Inv, NEW c \in Advertising
  PROVE  /\ c.min \in Int /\ c.max \in Int /\ c.lifetime \in Int
         /\ 4 * sec <= c.max /\ c.max <= 1800 * sec
         /\ 0 < c.min /\ c.min <= c.max
         /\ c.lifetime # 0 => c.max <= c.lifetime
         /\ PluginsParsed(c.plugins, c.max)
<1>1. PICK i \in DOMAIN Interfaces : c = Interfaces[i]
  BY DEF Advertising, Accepted, ToSet
<1>2. c.mode = "advertise"
  BY DEF Advertising
<1> QED
  BY <1>1, <1>2 DEF Inv, ParseInv, Parsed

(* The lifetime NewPREF64 computes, for the intervals parseInterface       *)
(* allows.                                                                 *)
LEMMA NewPREF64Fits ==
  ASSUME NEW max \in Int, 4 * sec <= max, max <= 1800 * sec
  PROVE  /\ NewPREF64(max) % 8 = 0 /\ NewPREF64(max) \div 8 < 2^13
         /\ NewPREF64(max) * sec > 3 * (max - sec)
         /\ max % sec = 0 => NewPREF64(max) * sec >= 3 * max
<1> DEFINE q == max \div sec
           three == 3 * q
<1>1. /\ q \in 4..1800 /\ max < (q + 1) * sec
      /\ max % sec = 0 => max = q * sec
  BY DEF sec
<1> HIDE DEF q
<1>2. three \in 12..5400
  BY <1>1
<1>3. NewPREF64(max) = IF three < 8191 * 8 THEN three + ((8 - (three % 8)) % 8)
                       ELSE 8191 * 8
  BY DEF NewPREF64, q
<1>4. 2^13 = 8192
  OBVIOUS
<1>5. three = 3 * q
  OBVIOUS
<1> DEFINE up == (8 - (three % 8)) % 8
<1> HIDE DEF three
<1>6. NewPREF64(max) = three + up
  <2>1. three < 8191 * 8
    BY <1>2
  <2> QED
    BY <1>3, <2>1
<1>7. up \in 0..7 /\ (three + up) % 8 = 0
  <2> DEFINE r == three % 8
             d == three \div 8
  <2>1. r \in 0..7 /\ d \in Int /\ three = 8 * d + r
    BY <1>2, SMTT(20)
  <2>2. up = (8 - r) % 8
    OBVIOUS
  <2> HIDE DEF r, d, up
  <2>3. CASE r = 0
    BY <2>1, <2>2, <2>3
  <2>4. CASE r # 0
    <3>1. up = 8 - r
      BY <2>1, <2>2, <2>4
    <3>2. three + up = 8 * (d + 1)
      BY <2>1, <3>1
    <3> QED
      BY <2>1, <2>4, <3>1, <3>2
  <2> QED
    BY <2>3, <2>4
<1> HIDE DEF up
<1>8. (three + up) \div 8 < 8192
  BY <1>2, <1>7
<1>9. (three + up) * sec >= 3 * (q * sec)
  BY <1>1, <1>2, <1>5, <1>7 DEF sec
<1>10. 3 * (max - sec) < 3 * (q * sec)
  BY <1>1 DEF sec
<1>11. /\ (three + up) * sec > 3 * (max - sec)
       /\ max % sec = 0 => (three + up) * sec >= 3 * max
  <2>1. (three + up) * sec \in Int /\ 3 * (max - sec) \in Int
    BY <1>2, <1>7 DEF sec
  <2> QED
    BY <1>1, <1>9, <1>10, <2>1 DEF sec
<1> QED
  BY <1>4, <1>6, <1>7, <1>8, <1>11

(* Every file: multicastDelay can draw from the intervals of an accepted   *)
(* configuration (parseInterface and parseMinInterval).                    *)
THEOREM ConfigIntervalUsable == Spec => []IntervalUsable
<1>1. Inv => IntervalUsable
  BY AdvertisingParsed DEF IntervalUsable
<1> QED
  BY <1>1, InvHolds, PTL

(* Every file: with whole seconds, a default router's lifetime of at least *)
(* six seconds outlasts any time between two multicast RAs                 *)
(* (parseDefaultLifetime, multicastDelay and schedule's delay).            *)
THEOREM ConfigLifetimeOutlasts == Spec => []LifetimeOutlastsGaps
<1>1. Inv => LifetimeOutlastsGaps
  <2> SUFFICES ASSUME Inv, NEW c \in Advertising, c.max % sec = 0,
                      c.lifetime >= 2 * minDelayBetweenRAs, NEW d \in Gaps(c)
               PROVE  d <= c.lifetime
    BY DEF LifetimeOutlastsGaps
  <2>1. c.lifetime \in Int
    BY AdvertisingParsed
  <2>2. c.lifetime # 0
    BY <2>1 DEF minDelayBetweenRAs, sec
  <2>3. /\ c.min \in Int /\ c.max \in Int
        /\ 0 < c.min /\ c.min <= c.max /\ c.max <= c.lifetime
    BY <2>2, AdvertisingParsed
  <2>4. CASE d \in Delays(c)
    <3>1. PICK x \in {c.min, (c.min + c.max) \div 2,
                      IF c.min = c.max THEN c.max ELSE c.max - 1} : d = Round(x)
      BY <2>4 DEF Delays
    <3>2. x \in Int /\ x <= c.max
      BY <2>3, <3>1
    <3> QED
      BY <2>1, <2>3, <3>1, <3>2 DEF Round, Truncate, sec
  <2> QED
    BY <2>4 DEF Gaps
<1> QED
  BY <1>1, InvHolds, PTL

(* Every file: the lifetimes NewPREF64 computes fit their 13 bits and      *)
(* cover three intervals, or all but three seconds of them.                *)
THEOREM ConfigPref64Lifetime == Spec => []Pref64LifetimeFits
<1>1. Inv => Pref64LifetimeFits
  BY AdvertisingParsed, NewPREF64Fits DEF Pref64LifetimeFits, PluginsParsed
<1> QED
  BY <1>1, InvHolds, PTL

-----------------------------------------------------------------------------
(* The results of the plugins.                                             *)

(* A set of natural numbers that is not empty has a least one.             *)
LEMMA LeastExists ==
  ASSUME NEW S, S \subseteq Nat, S # {}
  PROVE  \E x \in S : \A y \in S : x <= y
<1>1. PICK x \in S : \A y \in S : ~(<<y, x>> \in OpToRel(<, Nat))
  <2> DEFINE R == OpToRel(<, Nat)
  <2>1. IsWellFoundedOn(R, Nat)
    BY NatLessThanWellFounded
  <2> HIDE DEF R
  <2>2. \E x \in S : \A y \in S : ~(<<y, x>> \in R)
    BY <2>1, WFMin
  <2> QED
    BY <2>2 DEF R
<1>2. OpToRel(<, Nat) = {ss \in Nat \X Nat : ss[1] < ss[2]}
  BY DEF OpToRel
<1>3. ASSUME NEW y \in S PROVE x <= y
  <2>1. x \in Nat /\ y \in Nat
    OBVIOUS
  <2>2. ~(<<y, x>> \in {ss \in Nat \X Nat : ss[1] < ss[2]})
    BY <1>1, <1>2
  <2> QED
    BY <2>1, <2>2
<1> QED
  BY <1>3

(* Min is one of the set's elements.                                       *)
LEMMA MinInSet ==
  ASSUME NEW S, S \subseteq Nat, S # {}
  PROVE  Min(S) \in S
  BY LeastExists DEF Min

(* A list of results has a result for every element.                       *)
LEMMA ApplyIsSeq ==
  ASSUME NEW s, IsSeq(s), NEW r, DOMAIN r = DOMAIN s, r = [i \in DOMAIN r |-> r[i]]
  PROVE  IsSeq(r)
<1>1. Len(s) \in Nat /\ DOMAIN s = 1..Len(s)
  BY DEF IsSeq
<1> QED
  BY <1>1, FunctionIsSeq

(* Where a result comes from.                                              *)
FromOther(p, r) ==
  \/ \E j \in DOMAIN p.rdnss : r = RDNSSApply(p.rdnss[j])
  \/ \E j \in DOMAIN p.dnssl : r = DNSSLApply(p.dnssl[j])
  \/ r \in {MTUApply(p.mtu), LLAApply(p.lla), CaptivePortalApply(p.portal)}
  \/ \E j \in DOMAIN p.pref64 : r = PREF64Apply(p.pref64[j])

FromPlugin(p, r) ==
  \/ \E j \in DOMAIN p.prefixes : r = PrefixApply(p.prefixes[j])
  \/ \E j \in DOMAIN p.routes : r = RouteApply(p.routes[j])
  \/ FromOther(p, r)

(* The results are those of the plugins.                                   *)
LEMMA ApplyAllFrom ==
  ASSUME NEW max, PluginsParsed(ifi.plugins, max)
  PROVE  /\ IsSeq(ApplyAll)
         /\ \A i \in DOMAIN ApplyAll : FromPlugin(ifi.plugins, ApplyAll[i])
<1> DEFINE p == ifi.plugins
           a == [i \in DOMAIN p.prefixes |-> PrefixApply(p.prefixes[i])]
           b == [i \in DOMAIN p.routes |-> RouteApply(p.routes[i])]
           c == [i \in DOMAIN p.rdnss |-> RDNSSApply(p.rdnss[i])]
           d == [i \in DOMAIN p.dnssl |-> DNSSLApply(p.dnssl[i])]
           e == <<MTUApply(p.mtu), LLAApply(p.lla), CaptivePortalApply(p.portal)>>
           f == [i \in DOMAIN p.pref64 |-> PREF64Apply(p.pref64[i])]
<1>1. ApplyAll = a \o b \o c \o d \o e \o f
  BY DEF ApplyAll, Apply
<1>2. IsSeq(a) /\ IsSeq(b) /\ IsSeq(c) /\ IsSeq(d) /\ IsSeq(e) /\ IsSeq(f)
  <2>1. IsSeq(a)
    BY ApplyIsSeq DEF PluginsParsed
  <2>2. IsSeq(b)
    BY ApplyIsSeq DEF PluginsParsed
  <2>3. IsSeq(c)
    BY ApplyIsSeq DEF PluginsParsed
  <2>4. IsSeq(d)
    BY ApplyIsSeq DEF PluginsParsed
  <2>5. IsSeq(e)
    BY Triple
  <2>6. IsSeq(f)
    BY ApplyIsSeq DEF PluginsParsed
  <2> QED
    BY <2>1, <2>2, <2>3, <2>4, <2>5, <2>6
<1> DEFINE S == ToSet(a) \cup ToSet(b) \cup ToSet(c) \cup ToSet(d) \cup ToSet(e)
                  \cup ToSet(f)
<1>3. \A r \in ToSet(a) : FromPlugin(p, r)
  BY Zenon DEF FromPlugin, FromOther, ToSet
<1>4. \A r \in ToSet(b) : FromPlugin(p, r)
  BY Zenon DEF FromPlugin, FromOther, ToSet
<1>5. \A r \in ToSet(c) : FromPlugin(p, r)
  BY Zenon DEF FromPlugin, FromOther, ToSet
<1>6. \A r \in ToSet(d) : FromPlugin(p, r)
  BY Zenon DEF FromPlugin, FromOther, ToSet
<1>7. \A r \in ToSet(e) : FromPlugin(p, r)
  BY Triple, Zenon DEF FromPlugin, FromOther
<1>8. \A r \in ToSet(f) : FromPlugin(p, r)
  BY Zenon DEF FromPlugin, FromOther, ToSet
<1> HIDE DEF p, a, b, c, d, e, f
<1>9. \A r \in S : FromPlugin(p, r)
  BY <1>3, <1>4, <1>5, <1>6, <1>7, <1>8
<1>10. /\ ToSet(a) \subseteq S /\ ToSet(b) \subseteq S /\ ToSet(c) \subseteq S
       /\ ToSet(d) \subseteq S /\ ToSet(e) \subseteq S /\ ToSet(f) \subseteq S
  OBVIOUS
<1> HIDE DEF S
<1>11. IsSeq(a \o b) /\ ToSet(a \o b) \subseteq S
  BY <1>2, <1>10, ConcatWithin, Zenon
<1>12. IsSeq(a \o b \o c) /\ ToSet(a \o b \o c) \subseteq S
  BY <1>2, <1>10, <1>11, ConcatWithin, Zenon
<1>13. IsSeq(a \o b \o c \o d) /\ ToSet(a \o b \o c \o d) \subseteq S
  BY <1>2, <1>10, <1>12, ConcatWithin, Zenon
<1>14. IsSeq(a \o b \o c \o d \o e) /\ ToSet(a \o b \o c \o d \o e) \subseteq S
  BY <1>2, <1>10, <1>13, ConcatWithin, Zenon
<1>15. IsSeq(ApplyAll) /\ ToSet(ApplyAll) \subseteq S
  BY <1>1, <1>2, <1>10, <1>14, ConcatWithin, Zenon
<1>16. \A i \in DOMAIN ApplyAll : ApplyAll[i] \in S
  BY <1>15 DEF ToSet
<1> QED
  BY <1>9, <1>15, <1>16 DEF p

(* Where an option comes from.                                             *)
OtherOption(p, o) ==
  \/ o.kind \in {"rdnss", "dnssl", "mtu", "lla", "captive-portal"}
  \/ o.kind = "pref64" /\ DOMAIN p.pref64 # {}

OptionFrom(p, o) ==
  \/ /\ o.kind = "pi"
     /\ \E j \in DOMAIN p.prefixes :
          /\ o.from = p.prefixes[j]
          /\ o.valid = Remaining(p.prefixes[j], p.prefixes[j].valid)
          /\ o.preferred = Remaining(p.prefixes[j], p.prefixes[j].preferred)
  \/ /\ o.kind = "ri"
     /\ \E j \in DOMAIN p.routes :
          /\ o.from = p.routes[j] /\ o.preference = p.routes[j].preference
          /\ o.lifetime = Remaining(p.routes[j], p.routes[j].lifetime)
  \/ OtherOption(p, o)

(* A result is an error or a panic without options, or it has options.     *)
LEMMA Results ==
  /\ \A opts : Ok(opts).status = "ok" /\ Ok(opts).opts = opts
  /\ \A how : Fail(how).status = how /\ Fail(how).opts = <<>>
  BY DEF Ok, Fail

(* The fields of a prefix and of a route option.                           *)
LEMMA OptionFields ==
  ASSUME NEW o, NEW x, NEW v, NEW w, NEW f
  PROVE  /\ o = [kind |-> "pi", prefix |-> x, valid |-> v, preferred |-> w, from |-> f]
              => /\ o.kind = "pi" /\ o.prefix = x /\ o.valid = v
                 /\ o.preferred = w /\ o.from = f
         /\ o = [kind |-> "ri", prefix |-> x, preference |-> v, lifetime |-> w,
                 from |-> f]
              => /\ o.kind = "ri" /\ o.prefix = x /\ o.preference = v
                 /\ o.lifetime = w /\ o.from = f
  OBVIOUS

(* The options of the plugins that are neither prefixes nor routes.        *)
LEMMA OtherOptions ==
  ASSUME NEW p, NEW r, FromOther(p, r)
  PROVE  /\ r.status \in {"ok", "error", "panic"}
         /\ r.status # "ok" => r.opts = <<>>
         /\ \A k \in DOMAIN r.opts : OtherOption(p, r.opts[k])
<1> DEFINE Good == /\ r.status \in {"ok", "error", "panic"}
                   /\ r.status # "ok" => r.opts = <<>>
                   /\ \A k \in DOMAIN r.opts : OtherOption(p, r.opts[k])
<1>0. ASSUME NEW how \in {"error", "panic"}, r = Fail(how)
      PROVE  Good
  BY <1>0, Results
<1>1. ASSUME NEW o, o.kind \in {"rdnss", "dnssl", "mtu", "lla", "captive-portal"},
             r = Ok(<<o>>) \/ r = Ok(<<>>)
      PROVE  Good
  <2>1. r.status = "ok" /\ (r.opts = <<o>> \/ r.opts = <<>>)
    BY <1>1, Results
  <2> QED
    BY <1>1, <2>1 DEF OtherOption
<1>2. ASSUME NEW j \in DOMAIN p.rdnss, r = RDNSSApply(p.rdnss[j])
      PROVE  Good
  <2>1. \/ r = Fail("panic") \/ r = Fail("error")
        \/ \E q : r = RDNSSOption(p.rdnss[j], q)
    BY <1>2, Zenon DEF RDNSSApply
  <2>2. ASSUME NEW q, r = RDNSSOption(p.rdnss[j], q)
        PROVE  Good
    <3> DEFINE o == [kind |-> "rdnss", servers |-> q, lifetime |-> p.rdnss[j].lifetime,
                     from |-> p.rdnss[j]]
    <3>1. o.kind = "rdnss" /\ r = Ok(<<o>>)
      BY <2>2 DEF RDNSSOption
    <3> HIDE DEF o, Good
    <3> QED
      BY <1>1, <3>1
  <2> QED
    BY <1>0, <2>1, <2>2
<1>3. ASSUME NEW j \in DOMAIN p.dnssl, r = DNSSLApply(p.dnssl[j])
      PROVE  Good
  <2> DEFINE o == [kind |-> "dnssl", names |-> p.dnssl[j].names,
                   lifetime |-> p.dnssl[j].lifetime]
  <2>1. o.kind = "dnssl" /\ r = Ok(<<o>>)
    BY <1>3 DEF DNSSLApply
  <2> HIDE DEF o, Good
  <2> QED
    BY <1>1, <2>1
<1>4. ASSUME r \in {MTUApply(p.mtu), LLAApply(p.lla), CaptivePortalApply(p.portal)}
      PROVE  Good
  <2> DEFINE m == [kind |-> "mtu", mtu |-> p.mtu]
             l == [kind |-> "lla"]
             c == [kind |-> "captive-portal", uri |-> p.portal]
  <2>1. m.kind = "mtu" /\ l.kind = "lla" /\ c.kind = "captive-portal"
    OBVIOUS
  <2>2. r = Ok(<<>>) \/ r = Ok(<<m>>) \/ r = Ok(<<l>>) \/ r = Ok(<<c>>)
    BY <1>4, Zenon DEF MTUApply, LLAApply, CaptivePortalApply
  <2> HIDE DEF m, l, c, Good
  <2> QED
    BY <1>1, <2>1, <2>2
<1>5. ASSUME NEW j \in DOMAIN p.pref64, r = PREF64Apply(p.pref64[j])
      PROVE  Good
  <2> DEFINE o == [kind |-> "pref64", prefix |-> p.pref64[j].prefix,
                   lifetime |-> p.pref64[j].lifetime]
  <2>1. o.kind = "pref64" /\ r = Ok(<<o>>)
    BY <1>5 DEF PREF64Apply
  <2> HIDE DEF o
  <2>2. r.status = "ok" /\ r.opts = <<o>>
    BY <2>1, Results
  <2> QED
    BY <1>5, <2>1, <2>2 DEF OtherOption
<1> HIDE DEF Good
<1>6. Good
  BY <1>2, <1>3, <1>4, <1>5 DEF FromOther
<1> QED
  BY <1>6 DEF Good

(* The options a plugin adds.                                              *)
LEMMA ResultOptions ==
  ASSUME NEW p, NEW r, FromPlugin(p, r)
  PROVE  /\ r.status \in {"ok", "error", "panic"}
         /\ r.status # "ok" => r.opts = <<>>
         /\ \A k \in DOMAIN r.opts : OptionFrom(p, r.opts[k])
<1> DEFINE Good == /\ r.status \in {"ok", "error", "panic"}
                   /\ r.status # "ok" => r.opts = <<>>
                   /\ \A k \in DOMAIN r.opts : OptionFrom(p, r.opts[k])
<1>0. ASSUME NEW how \in {"error", "panic"}, r = Fail(how)
      PROVE  Good
  BY <1>0, Results
<1>1. ASSUME NEW j \in DOMAIN p.prefixes, r = PrefixApply(p.prefixes[j])
      PROVE  Good
  <2>1. r = Fail("panic") \/ \E q : r = Ok(PrefixOptions(p.prefixes[j], q))
    BY <1>1, Zenon DEF PrefixApply
  <2>2. ASSUME NEW q, r = Ok(PrefixOptions(p.prefixes[j], q))
        PROVE  Good
    <3>1. r.status = "ok" /\ r.opts = PrefixOptions(p.prefixes[j], q)
      BY <2>2, Results
    <3>2. \A k \in DOMAIN r.opts :
            r.opts[k] = [kind |-> "pi", prefix |-> q[k],
                         valid |-> Remaining(p.prefixes[j], p.prefixes[j].valid),
                         preferred |-> Remaining(p.prefixes[j], p.prefixes[j].preferred),
                         from |-> p.prefixes[j]]
      BY <3>1, Zenon DEF PrefixOptions
    <3>3. \A k \in DOMAIN r.opts : OptionFrom(p, r.opts[k])
      <4> TAKE k \in DOMAIN r.opts
      <4> DEFINE o == r.opts[k]
             v == Remaining(p.prefixes[j], p.prefixes[j].valid)
             w == Remaining(p.prefixes[j], p.prefixes[j].preferred)
             f == p.prefixes[j]
      <4>0. o = [kind |-> "pi", prefix |-> q[k], valid |-> v, preferred |-> w,
                 from |-> f]
        BY <3>2, Zenon
      <4> HIDE DEF o, v, w, f
      <4>1. o.kind = "pi" /\ o.from = f /\ o.valid = v /\ o.preferred = w
        BY <4>0, OptionFields
      <4>2. OptionFrom(p, o)
        BY <4>1, <1>1, Zenon DEF OptionFrom, v, w, f
      <4> QED
        BY <4>2 DEF o
    <3> QED
      BY <3>1, <3>3
  <2> QED
    BY <1>0, <2>1, <2>2
<1>2. ASSUME NEW j \in DOMAIN p.routes, r = RouteApply(p.routes[j])
      PROVE  Good
  <2>1. \/ r = Fail("panic") \/ r = Fail("error")
        \/ \E q : r = Ok(RouteOptions(p.routes[j], q))
    BY <1>2, Zenon DEF RouteApply
  <2>2. ASSUME NEW q, r = Ok(RouteOptions(p.routes[j], q))
        PROVE  Good
    <3>1. r.status = "ok" /\ r.opts = RouteOptions(p.routes[j], q)
      BY <2>2, Results
    <3>2. \A k \in DOMAIN r.opts :
            r.opts[k] = [kind |-> "ri", prefix |-> q[k],
                         preference |-> p.routes[j].preference,
                         lifetime |-> Remaining(p.routes[j], p.routes[j].lifetime),
                         from |-> p.routes[j]]
      BY <3>1, Zenon DEF RouteOptions
    <3>3. \A k \in DOMAIN r.opts : OptionFrom(p, r.opts[k])
      <4> TAKE k \in DOMAIN r.opts
      <4> DEFINE o == r.opts[k]
             v == p.routes[j].preference
             w == Remaining(p.routes[j], p.routes[j].lifetime)
             f == p.routes[j]
      <4>0. o = [kind |-> "ri", prefix |-> q[k], preference |-> v, lifetime |-> w,
                 from |-> f]
        BY <3>2, Zenon
      <4> HIDE DEF o, v, w, f
      <4>1. o.kind = "ri" /\ o.from = f /\ o.preference = v /\ o.lifetime = w
        BY <4>0, OptionFields
      <4>2. OptionFrom(p, o)
        BY <4>1, <1>2, Zenon DEF OptionFrom, v, w, f
      <4> QED
        BY <4>2 DEF o
    <3> QED
      BY <3>1, <3>3
  <2> QED
    BY <1>0, <2>1, <2>2
<1>3. ASSUME FromOther(p, r)
      PROVE  Good
  BY <1>3, OtherOptions DEF OptionFrom
<1> HIDE DEF Good
<1>4. Good
  BY <1>1, <1>2, <1>3 DEF FromPlugin
<1> QED
  BY <1>4 DEF Good

-----------------------------------------------------------------------------
(* The RA.                                                                 *)

(* The interface that is followed is as Parsed says.                       *)
LEMMA Followed ==
  ASSUME Inv, advertiser # 0
  PROVE  /\ PluginsParsed(ifi.plugins, ifi.max)
         /\ ifi.preference \in {"low", "medium", "high"}
  BY DEF Inv, ParseInv, ServeInv, Parsed, ifi

(* The RA is the first result that failed, or has the options of all.      *)
LEMMA RACases ==
  ASSUME Inv, advertiser # 0
  PROVE  \/ \E i \in DOMAIN ApplyAll :
              ApplyAll[i].status # "ok" /\ RouterAdvertisement = ApplyAll[i]
         \/ /\ \A i \in DOMAIN ApplyAll : ApplyAll[i].status = "ok"
            /\ RouterAdvertisement.status = "ok"
            /\ RouterAdvertisement.preference = ifi.preference
            /\ RouterAdvertisement.opts = [i \in DOMAIN ApplyAll |-> ApplyAll[i].opts]
<1> DEFINE failed == {i \in DOMAIN ApplyAll : ApplyAll[i].status # "ok"}
           withdrawn == ifi.lifetime > 0 /\ ~forwarding
           lt == IF withdrawn THEN 0 ELSE ifi.lifetime
           opts == [i \in DOMAIN ApplyAll |-> ApplyAll[i].opts]
<1>1. RouterAdvertisement =
        IF failed # {} THEN ApplyAll[Min(failed)]
        ELSE [status |-> "ok", preference |-> ifi.preference, lifetime |-> lt,
              misconfigured |-> withdrawn, opts |-> opts]
  BY DEF RouterAdvertisement
<1> HIDE DEF withdrawn, lt
<1>2. IsSeq(ApplyAll)
  BY Followed, ApplyAllFrom
<1>3. failed \subseteq Nat
  BY <1>2 DEF IsSeq
<1>4. CASE failed # {}
  <2>1. Min(failed) \in failed
    <3> HIDE DEF failed
    <3> QED
      BY <1>3, <1>4, MinInSet
  <2> QED
    BY <1>1, <1>4, <2>1
<1>5. CASE failed = {}
  <2>1. \A i \in DOMAIN ApplyAll : ApplyAll[i].status = "ok"
    BY <1>5
  <2> HIDE DEF failed, opts
  <2>2. RouterAdvertisement =
          [status |-> "ok", preference |-> ifi.preference, lifetime |-> lt,
           misconfigured |-> withdrawn, opts |-> opts]
    BY <1>1, <1>5, Zenon
  <2>3. /\ RouterAdvertisement.status = "ok"
        /\ RouterAdvertisement.preference = ifi.preference
        /\ RouterAdvertisement.opts = opts
    BY <2>2
  <2> QED
    BY <2>1, <2>3 DEF opts
<1> QED
  BY <1>4, <1>5

(* The places of the options of a kind.                                    *)
LEMMA OptsAt ==
  ASSUME Inv, NEW kind, NEW x \in DOMAIN Opts(kind)
  PROVE  /\ advertiser # 0
         /\ \E i \in DOMAIN ApplyAll : \E k \in DOMAIN ApplyAll[i].opts :
              /\ x = <<i, k>>
              /\ Opts(kind)[x] = ApplyAll[i].opts[k]
              /\ ApplyAll[i].opts[k].kind = kind
<1> DEFINE opts == RouterAdvertisement.opts
           Places == UNION {{i} \X DOMAIN opts[i] : i \in DOMAIN opts}
           Kind == {y \in Places : opts[y[1]][y[2]].kind = kind}
<1>1. advertiser # 0
  <2>1. SUFFICES ASSUME advertiser = 0 PROVE FALSE
    OBVIOUS
  <2>2. Opts(kind) = <<>>
    BY <2>1, Zenon DEF Opts
  <2> QED
    BY <2>2
<1>2. Opts(kind) = [y \in Kind |-> opts[y[1]][y[2]]]
  BY <1>1 DEF Opts
<1>3. x \in Places /\ Opts(kind)[x] = opts[x[1]][x[2]] /\ opts[x[1]][x[2]].kind = kind
  <2> HIDE DEF Places, opts
  <2> QED
    BY <1>2
<1>4. PICK i \in DOMAIN opts : \E k \in DOMAIN opts[i] : x = <<i, k>>
  BY <1>3
<1>5. PICK k \in DOMAIN opts[i] : x = <<i, k>>
  BY <1>4
<1>6. Opts(kind)[x] = opts[i][k] /\ opts[i][k].kind = kind
  <2> HIDE DEF Places, opts
  <2> QED
    BY <1>3, <1>5
<1>7. \A n \in DOMAIN ApplyAll : ApplyAll[n].status # "ok" => ApplyAll[n].opts = <<>>
  BY <1>1, Followed, ApplyAllFrom, ResultOptions
<1>8. opts = [n \in DOMAIN ApplyAll |-> ApplyAll[n].opts]
  <2>1. opts # <<>>
    BY <1>4
  <2> QED
    BY <1>1, <1>7, <2>1, RACases
<1> HIDE DEF opts
<1>9. i \in DOMAIN ApplyAll /\ opts[i] = ApplyAll[i].opts
  BY <1>8
<1> QED
  BY <1>1, <1>5, <1>6, <1>9

(* Every option of the RA comes from a plugin.                             *)
LEMMA OptsFrom ==
  ASSUME Inv, NEW kind, NEW o \in Range(Opts(kind))
  PROVE  advertiser # 0 /\ o.kind = kind /\ OptionFrom(ifi.plugins, o)
<1>1. PICK x \in DOMAIN Opts(kind) : o = Opts(kind)[x]
  BY Zenon DEF Range
<1>2. /\ advertiser # 0
      /\ \E i \in DOMAIN ApplyAll : \E k \in DOMAIN ApplyAll[i].opts :
           o = ApplyAll[i].opts[k] /\ o.kind = kind
  <2>1. /\ advertiser # 0
        /\ \E i \in DOMAIN ApplyAll : \E k \in DOMAIN ApplyAll[i].opts :
              /\ x = <<i, k>>
              /\ Opts(kind)[x] = ApplyAll[i].opts[k]
              /\ ApplyAll[i].opts[k].kind = kind
    BY OptsAt
  <2> QED
    BY <1>1, <2>1, Zenon
<1>3. \A n \in DOMAIN ApplyAll : \A m \in DOMAIN ApplyAll[n].opts :
        OptionFrom(ifi.plugins, ApplyAll[n].opts[m])
  BY <1>2, Followed, ApplyAllFrom, ResultOptions
<1> QED
  BY <1>2, <1>3, Zenon

(* Every file, every address and route, and every clock: no lifetime       *)
(* outlasts its deadline and none is preferred beyond its validity         *)
(* (Prefix.lifetimes, Route.lifetime).                                     *)
THEOREM BuildCountsDown == Spec => []LifetimesCountDown
<1>1. Inv => LifetimesCountDown
  <2> SUFFICES ASSUME Inv PROVE LifetimesCountDown
    OBVIOUS
  <2>1. ASSUME NEW o \in Range(Opts("pi"))
        PROVE  /\ o.preferred <= o.valid
               /\ o.from.deprecated /\ o.valid # 0 => now + o.valid <= o.from.valid
    <3>1. advertiser # 0 /\ o.kind = "pi" /\ OptionFrom(ifi.plugins, o)
      BY OptsFrom
    <3>2. PICK j \in DOMAIN ifi.plugins.prefixes :
            /\ o.from = ifi.plugins.prefixes[j]
            /\ o.valid = Remaining(o.from, o.from.valid)
            /\ o.preferred = Remaining(o.from, o.from.preferred)
      BY <3>1 DEF OptionFrom, OtherOption
    <3>3. /\ o.from.valid \in Int /\ o.from.preferred \in Int
          /\ o.from.preferred <= o.from.valid
      BY <3>1, <3>2, Followed DEF PluginsParsed
    <3>4. now \in Nat
      BY DEF Inv, ServeInv
    <3> QED
      BY <3>2, <3>3, <3>4 DEF Remaining
  <2>2. ASSUME NEW o \in Range(Opts("ri"))
        PROVE  o.from.deprecated /\ o.lifetime # 0 => now + o.lifetime <= o.from.lifetime
    <3>1. advertiser # 0 /\ o.kind = "ri" /\ OptionFrom(ifi.plugins, o)
      BY OptsFrom
    <3>2. PICK j \in DOMAIN ifi.plugins.routes :
            /\ o.from = ifi.plugins.routes[j]
            /\ o.lifetime = Remaining(o.from, o.from.lifetime)
      BY <3>1 DEF OptionFrom, OtherOption
    <3>3. o.from.lifetime \in Int
      BY <3>1, <3>2, Followed DEF PluginsParsed
    <3>4. now \in Nat
      BY DEF Inv, ServeInv
    <3> QED
      BY <3>2, <3>3, <3>4 DEF Remaining
  <2> QED
    BY <2>1, <2>2 DEF LifetimesCountDown
<1> QED
  BY <1>1, InvHolds, PTL

-----------------------------------------------------------------------------
(* Sorting.                                                                *)

(* A finite set with a strict total order has a sequence in that order:    *)
(* each element at the place that counts the lesser ones.                  *)
LEMMA OrderedSeq ==
  ASSUME NEW S, IsFiniteSet(S), NEW R,
         \A x \in S : <<x, x>> \notin R,
         \A x, y, z \in S : <<x, y>> \in R /\ <<y, z>> \in R => <<x, z>> \in R,
         \A x, y \in S : x = y \/ <<x, y>> \in R \/ <<y, x>> \in R
  PROVE  \E s \in SetToSeqs(S) :
           \A i, j \in 1..Cardinality(S) : i < j => <<s[i], s[j]>> \in R
<1> DEFINE n == Cardinality(S)
           Below(x) == {y \in S : <<y, x>> \in R}
           rank == [x \in S |-> Cardinality(Below(x)) + 1]
<1>1. n \in Nat
  BY FS_CardinalityType
<1>2. \A x \in S : /\ IsFiniteSet(Below(x)) /\ Cardinality(Below(x)) \in Nat
                   /\ Cardinality(Below(x)) < n
  <2> TAKE x \in S
  <2>1. Below(x) \in SUBSET S /\ Below(x) # S
    OBVIOUS
  <2> HIDE DEF Below
  <2> QED
    BY <1>1, <2>1, FS_Subset, FS_CardinalityType
<1>3. \A x, y \in S : <<x, y>> \in R => Cardinality(Below(x)) < Cardinality(Below(y))
  <2> SUFFICES ASSUME NEW x \in S, NEW y \in S, <<x, y>> \in R
               PROVE  Cardinality(Below(x)) < Cardinality(Below(y))
    OBVIOUS
  <2>1. Below(x) \in SUBSET Below(y) /\ Below(x) # Below(y)
    OBVIOUS
  <2>2. /\ IsFiniteSet(Below(y)) /\ Cardinality(Below(x)) \in Nat
        /\ Cardinality(Below(y)) \in Nat
    BY <1>2
  <2> HIDE DEF Below
  <2> QED
    BY <2>1, <2>2, FS_Subset
<1> HIDE DEF Below
<1>4. \A x, y \in S : <<x, y>> \in R => rank[x] < rank[y]
  BY <1>2, <1>3
<1>5. rank \in [S -> 1..n]
  BY <1>1, <1>2
<1> HIDE DEF rank, n
<1>6. \A x, y \in S : rank[x] = rank[y] => x = y
  <2> SUFFICES ASSUME NEW x \in S, NEW y \in S, rank[x] = rank[y]
               PROVE  x = y
    OBVIOUS
  <2>1. rank[x] \in Int /\ ~(rank[x] < rank[y]) /\ ~(rank[y] < rank[x])
    BY <1>1, <1>5
  <2>2. <<x, y>> \notin R /\ <<y, x>> \notin R
    BY <1>4, <2>1
  <2> QED
    BY <2>2
<1>7. rank \in Injection(S, 1..n)
  BY <1>5, <1>6 DEF Injection, IsInjective
<1>8. IsFiniteSet(1..n) /\ Cardinality(1..n) = n
  BY <1>1, FS_Interval
<1>9. rank \in Surjection(S, 1..n)
  BY <1>7, <1>8, FS_Injection DEF n
<1>10. \A i \in 1..n : \E x \in S : rank[x] = i
  BY <1>9 DEF Surjection
<1> DEFINE s == [i \in 1..n |-> CHOOSE x \in S : rank[x] = i]
<1>11. \A i \in 1..n : s[i] \in S /\ rank[s[i]] = i
  BY <1>10
<1>12. s \in [1..n -> S]
  BY <1>11
<1> HIDE DEF s
<1>13. s \in SetToSeqs(S)
  BY <1>11, <1>12 DEF SetToSeqs, n
<1>14. \A i, j \in 1..n : i < j => <<s[i], s[j]>> \in R
  <2> SUFFICES ASSUME NEW i \in 1..n, NEW j \in 1..n, i < j
               PROVE  <<s[i], s[j]>> \in R
    OBVIOUS
  <2>1. s[i] \in S /\ s[j] \in S /\ rank[s[i]] = i /\ rank[s[j]] = j
    BY <1>11
  <2>2. s[i] # s[j] /\ <<s[j], s[i]>> \notin R
    BY <1>1, <1>4, <2>1
  <2> QED
    BY <2>1, <2>2
<1> QED
  BY <1>13, <1>14 DEF n

(* Addresses and prefixes that Less does not tell apart.                   *)
Same(p, q) == \A i \in 1..W : Bit(p, i) = Bit(q, i)

(* A bit is a bit.                                                         *)
LEMMA BitType ==
  ASSUME NEW p \in Seq({0, 1}), NEW i \in 1..W
  PROVE  Bit(p, i) \in {0, 1}
  BY ConfigAssumption DEF Bit

(* Less tells any two apart that differ in a bit: the first one decides.   *)
LEMMA LessTotal ==
  ASSUME NEW p \in Seq({0, 1}), NEW q \in Seq({0, 1})
  PROVE  Less(p, q) \/ Less(q, p) \/ Same(p, q)
<1> DEFINE D == {i \in 1..W : Bit(p, i) # Bit(q, i)}
<1>1. CASE D = {}
  BY <1>1 DEF Same
<1>2. CASE D # {}
  <2>1. PICK i \in D : \A j \in D : i <= j
    <3>1. D \subseteq Nat
      OBVIOUS
    <3> HIDE DEF D
    <3> QED
      BY <1>2, <3>1, LeastExists
  <2>2. \A j \in 1..(i - 1) : Bit(p, j) = Bit(q, j)
    BY <2>1, ConfigAssumption
  <2>3. Bit(p, i) \in {0, 1} /\ Bit(q, i) \in {0, 1} /\ Bit(p, i) # Bit(q, i)
    BY <2>1, BitType
  <2>4. Bit(p, i) < Bit(q, i) \/ Bit(q, i) < Bit(p, i)
    BY <2>3
  <2> QED
    BY <2>2, <2>4 DEF Less
<1> QED
  BY <1>1, <1>2

(* Less is a strict order, and Same fits to it.                            *)
LEMMA LessOrder ==
  ASSUME NEW p \in Seq({0, 1}), NEW q \in Seq({0, 1}), NEW r \in Seq({0, 1})
  PROVE  /\ ~Less(p, p)
         /\ Less(p, q) /\ Less(q, r) => Less(p, r)
         /\ Less(p, q) => ~Same(p, q) /\ ~Same(q, p) /\ ~Less(q, p)
         /\ Same(p, q) /\ Less(q, r) => Less(p, r)
         /\ Less(p, q) /\ Same(q, r) => Less(p, r)
         /\ Same(p, q) /\ Same(q, r) => Same(p, r)
<1>1. \A i \in 1..W : Bit(p, i) \in Int /\ Bit(q, i) \in Int /\ Bit(r, i) \in Int
  BY BitType
<1>2. W \in Nat
  BY ConfigAssumption
<1>3. ~Less(p, p)
  BY <1>1 DEF Less
<1>4. ASSUME Less(p, q), Less(q, r)
      PROVE  Less(p, r)
  <2>1. PICK i \in 1..W : /\ Bit(p, i) < Bit(q, i)
                          /\ \A j \in 1..(i - 1) : Bit(p, j) = Bit(q, j)
    BY <1>4 DEF Less
  <2>2. PICK k \in 1..W : /\ Bit(q, k) < Bit(r, k)
                          /\ \A j \in 1..(k - 1) : Bit(q, j) = Bit(r, j)
    BY <1>4 DEF Less
  <2>3. CASE i <= k
    <3>1. Bit(p, i) < Bit(r, i)
      BY <1>1, <1>2, <2>1, <2>2, <2>3
    <3>2. \A j \in 1..(i - 1) : Bit(p, j) = Bit(r, j)
      BY <1>2, <2>1, <2>2, <2>3
    <3> QED
      BY <3>1, <3>2 DEF Less
  <2>4. CASE k < i
    <3>1. Bit(p, k) < Bit(r, k)
      BY <1>1, <1>2, <2>1, <2>2, <2>4
    <3>2. \A j \in 1..(k - 1) : Bit(p, j) = Bit(r, j)
      BY <1>2, <2>1, <2>2, <2>4
    <3> QED
      BY <3>1, <3>2 DEF Less
  <2> QED
    BY <1>2, <2>3, <2>4
<1>5. Less(p, q) => ~Same(p, q) /\ ~Same(q, p)
  BY <1>1 DEF Less, Same
<1>6. ASSUME Less(p, q), Less(q, p)
      PROVE  FALSE
  <2>1. PICK i \in 1..W : /\ Bit(p, i) < Bit(q, i)
                          /\ \A j \in 1..(i - 1) : Bit(p, j) = Bit(q, j)
    BY <1>6 DEF Less
  <2>2. PICK k \in 1..W : /\ Bit(q, k) < Bit(p, k)
                          /\ \A j \in 1..(k - 1) : Bit(q, j) = Bit(p, j)
    BY <1>6 DEF Less
  <2> QED
    BY <1>1, <1>2, <2>1, <2>2
<1>7. Same(p, q) /\ Less(q, r) => Less(p, r)
  BY <1>2 DEF Less, Same
<1>8. Less(p, q) /\ Same(q, r) => Less(p, r)
  BY <1>2 DEF Less, Same
<1>9. Same(p, q) /\ Same(q, r) => Same(p, r)
  BY DEF Same
<1> QED
  BY <1>3, <1>4, <1>5, <1>6, <1>7, <1>8, <1>9

(* What is not told apart has some order of its own, so that a sequence in *)
(* order exists: Sort sorts every finite set.                              *)
LEMMA SortSorts ==
  ASSUME NEW S, IsFiniteSet(S), S \subseteq Seq({0, 1})
  PROVE  Sort(S) \in SetToSeqs(S)
<1>1. PICK f \in Bijection(1..Cardinality(S), S) : TRUE
  BY FS_CardinalityType DEF ExistsBijection
<1>2. PICK g \in [S -> Nat] : \A x, y \in S : g[x] = g[y] => x = y
  <2>1. /\ Cardinality(S) \in Nat
        /\ \A x \in S : \E i \in 1..Cardinality(S) : f[i] = x
    BY FS_CardinalityType DEF Bijection, Surjection
  <2> DEFINE h == [x \in S |-> CHOOSE i \in 1..Cardinality(S) : f[i] = x]
  <2>2. \A x \in S : h[x] \in 1..Cardinality(S) /\ f[h[x]] = x
    BY <2>1
  <2>3. h \in [S -> Nat]
    BY <2>1, <2>2
  <2> HIDE DEF h
  <2>4. \A x, y \in S : h[x] = h[y] => x = y
    BY <2>2
  <2> QED
    BY <2>3, <2>4
<1> DEFINE In(x, y) == Less(x, y) \/ (Same(x, y) /\ g[x] < g[y])
           R == {t \in S \X S : In(t[1], t[2])}
<1>3. \A x, y \in S : <<x, y>> \in R <=> In(x, y)
  <2> HIDE DEF In
  <2> QED
    OBVIOUS
<1>4. \A x \in S : ~In(x, x)
  BY LessOrder
<1>5. \A x, y, z \in S : In(x, y) /\ In(y, z) => In(x, z)
  <2> SUFFICES ASSUME NEW x \in S, NEW y \in S, NEW z \in S, In(x, y), In(y, z)
               PROVE  In(x, z)
    OBVIOUS
  <2>1. g[x] < g[y] /\ g[y] < g[z] => g[x] < g[z]
    OBVIOUS
  <2> QED
    BY <2>1, LessOrder
<1>6. \A x, y \in S : x = y \/ In(x, y) \/ In(y, x)
  <2> SUFFICES ASSUME NEW x \in S, NEW y \in S, x # y
               PROVE  In(x, y) \/ In(y, x)
    OBVIOUS
  <2>1. g[x] < g[y] \/ g[y] < g[x]
    BY <1>2
  <2>2. Same(x, y) => Same(y, x)
    BY DEF Same
  <2>3. Less(x, y) \/ Less(y, x) \/ Same(x, y)
    BY LessTotal
  <2> QED
    BY <2>1, <2>2, <2>3
<1> HIDE DEF R, In
<1>7. PICK s \in SetToSeqs(S) :
        \A i, j \in 1..Cardinality(S) : i < j => <<s[i], s[j]>> \in R
  BY <1>3, <1>4, <1>5, <1>6, OrderedSeq
<1>8. DOMAIN s = 1..Cardinality(S) /\ \A i \in DOMAIN s : s[i] \in S
  BY DEF SetToSeqs
<1>9. \A i, j \in DOMAIN s : i < j => ~Less(s[j], s[i])
  <2> SUFFICES ASSUME NEW i \in DOMAIN s, NEW j \in DOMAIN s, i < j
               PROVE  ~Less(s[j], s[i])
    OBVIOUS
  <2>1. In(s[i], s[j]) /\ s[i] \in S /\ s[j] \in S
    BY <1>3, <1>7, <1>8
  <2> QED
    BY <2>1, LessOrder DEF In
<1> DEFINE T == {t \in SetToSeqs(S) :
                   \A i, j \in DOMAIN t : i < j => ~Less(t[j], t[i])}
<1>10. s \in T
  BY <1>9
<1>11. Sort(S) = CHOOSE t \in SetToSeqs(S) :
                   \A i, j \in DOMAIN t : i < j => ~Less(t[j], t[i])
  BY DEF Sort
<1> QED
  BY <1>9, <1>11

(* So it has every element of the set once, and no other.                  *)
LEMMA SortElements ==
  ASSUME NEW S, IsFiniteSet(S), S \subseteq Seq({0, 1})
  PROVE  /\ ToSet(Sort(S)) = S
         /\ \A i, j \in DOMAIN Sort(S) : i # j => Sort(S)[i] # Sort(S)[j]
<1> DEFINE s == Sort(S)
           n == Cardinality(S)
<1>1. s \in SetToSeqs(S)
  BY SortSorts
<1> HIDE DEF s
<1>2. s \in [1..n -> S] /\ \A i, j \in 1..n : i # j => s[i] # s[j]
  BY <1>1 DEF SetToSeqs
<1>3. n \in Nat
  BY FS_CardinalityType
<1>4. s \in Injection(1..n, S)
  BY <1>2 DEF Injection, IsInjective
<1>5. IsFiniteSet(1..n) /\ Cardinality(1..n) = n
  BY <1>3, FS_Interval
<1>6. s \in Surjection(1..n, S)
  BY <1>4, <1>5, FS_Injection
<1>7. \A x \in S : \E i \in 1..n : s[i] = x
  BY <1>6 DEF Surjection
<1>8. ToSet(s) = S
  BY <1>2, <1>7 DEF ToSet
<1> QED
  BY <1>2, <1>8 DEF s

-----------------------------------------------------------------------------
(* Which plugin an option comes from, and which of its options it is.      *)

(* u goes on where s ends, with elements of T.                             *)
GoesOn(u, s, T) ==
  /\ IsSeq(u) /\ DOMAIN s \subseteq DOMAIN u
  /\ \A i \in DOMAIN s : u[i] = s[i]
  /\ \A i \in DOMAIN u : i \in DOMAIN s \/ u[i] \in T

(* More elements of T at the end.                                          *)
LEMMA GoesFurther ==
  ASSUME NEW u, NEW s, NEW T, GoesOn(u, s, T), NEW t, IsSeq(t), ToSet(t) \subseteq T
  PROVE  GoesOn(u \o t, s, T)
<1>1. /\ IsSeq(u \o t) /\ DOMAIN u \subseteq DOMAIN (u \o t)
      /\ \A i \in DOMAIN u : (u \o t)[i] = u[i]
      /\ \A i \in DOMAIN (u \o t) :
           i \notin DOMAIN u => i - Len(u) \in DOMAIN t /\ (u \o t)[i] = t[i - Len(u)]
  <2>1. IsSeq(u) /\ IsSeq(t)
    BY DEF GoesOn
  <2>2. /\ IsSeq(u \o t) /\ Len(u) \in Nat /\ Len(t) \in Nat
        /\ DOMAIN u = 1..Len(u) /\ DOMAIN (u \o t) = 1..(Len(u) + Len(t))
        /\ \A i \in DOMAIN u : (u \o t)[i] = u[i]
        /\ \A i \in DOMAIN (u \o t) :
             i \notin DOMAIN u =>
               i - Len(u) \in DOMAIN t /\ (u \o t)[i] = t[i - Len(u)]
    BY ONLY <2>1, ConcatAt, Zenon
  <2>3. 1..Len(u) \subseteq 1..(Len(u) + Len(t))
    BY ONLY <2>2
  <2> QED
    BY ONLY <2>2, <2>3, Zenon
<1>2. \A i \in DOMAIN (u \o t) : i \notin DOMAIN u => (u \o t)[i] \in T
  BY <1>1 DEF ToSet
<1> QED
  BY <1>1, <1>2 DEF GoesOn

(* The results, place by place: first the prefixes', then the routes'.     *)
LEMMA ApplyAllAt ==
  ASSUME NEW max, PluginsParsed(ifi.plugins, max)
  PROVE  /\ \A i \in DOMAIN ApplyAll :
              \/ /\ i \in DOMAIN ifi.plugins.prefixes
                 /\ ApplyAll[i] = PrefixApply(ifi.plugins.prefixes[i])
              \/ \E j \in DOMAIN ifi.plugins.routes :
                   /\ i = Len(ifi.plugins.prefixes) + j
                   /\ ApplyAll[i] = RouteApply(ifi.plugins.routes[j])
              \/ FromOther(ifi.plugins, ApplyAll[i])
         /\ \A j \in DOMAIN ifi.plugins.routes :
              /\ Len(ifi.plugins.prefixes) + j \in DOMAIN ApplyAll
              /\ ApplyAll[Len(ifi.plugins.prefixes) + j]
                   = RouteApply(ifi.plugins.routes[j])
<1> DEFINE p == ifi.plugins
           a == [k \in DOMAIN p.prefixes |-> PrefixApply(p.prefixes[k])]
           b == [k \in DOMAIN p.routes |-> RouteApply(p.routes[k])]
           c == [k \in DOMAIN p.rdnss |-> RDNSSApply(p.rdnss[k])]
           d == [k \in DOMAIN p.dnssl |-> DNSSLApply(p.dnssl[k])]
           e == <<MTUApply(p.mtu), LLAApply(p.lla), CaptivePortalApply(p.portal)>>
           f == [k \in DOMAIN p.pref64 |-> PREF64Apply(p.pref64[k])]
           T == ToSet(c) \cup ToSet(d) \cup ToSet(e) \cup ToSet(f)
<1>1. ApplyAll = a \o b \o c \o d \o e \o f
  BY DEF ApplyAll, Apply
<1>2. IsSeq(a) /\ IsSeq(b)
  BY ApplyIsSeq DEF PluginsParsed
<1>3. IsSeq(c) /\ IsSeq(d) /\ IsSeq(e) /\ IsSeq(f)
  BY ApplyIsSeq, Triple DEF PluginsParsed
<1>4. \A r \in ToSet(c) : FromOther(p, r)
  BY Zenon DEF FromOther, ToSet
<1>5. \A r \in ToSet(d) : FromOther(p, r)
  BY Zenon DEF FromOther, ToSet
<1>6. \A r \in ToSet(e) : FromOther(p, r)
  BY Triple, Zenon DEF FromOther
<1>7. \A r \in ToSet(f) : FromOther(p, r)
  BY Zenon DEF FromOther, ToSet
<1>8. /\ DOMAIN a = DOMAIN p.prefixes /\ DOMAIN b = DOMAIN p.routes
      /\ \A k \in DOMAIN a : a[k] = PrefixApply(p.prefixes[k])
      /\ \A k \in DOMAIN b : b[k] = RouteApply(p.routes[k])
  BY Zenon
<1> HIDE DEF a, b, c, d, e, f
<1>9. \A r \in T : FromOther(p, r)
  BY <1>4, <1>5, <1>6, <1>7, Zenon
<1>10. /\ ToSet(c) \subseteq T /\ ToSet(d) \subseteq T /\ ToSet(e) \subseteq T
       /\ ToSet(f) \subseteq T
  BY Zenon
<1> HIDE DEF T
<1>11. GoesOn(a \o b, a \o b, T)
  BY <1>2, Concat DEF GoesOn
<1>12. GoesOn(a \o b \o c, a \o b, T)
  BY <1>3, <1>10, <1>11, GoesFurther, Zenon
<1>13. GoesOn(a \o b \o c \o d, a \o b, T)
  BY <1>3, <1>10, <1>12, GoesFurther, Zenon
<1>14. GoesOn(a \o b \o c \o d \o e, a \o b, T)
  BY <1>3, <1>10, <1>13, GoesFurther, Zenon
<1>15. GoesOn(ApplyAll, a \o b, T)
  BY <1>1, <1>3, <1>10, <1>14, GoesFurther, Zenon
<1>16. /\ Len(a) \in Nat /\ Len(b) \in Nat /\ DOMAIN a = 1..Len(a)
       /\ DOMAIN b = 1..Len(b) /\ DOMAIN (a \o b) = 1..(Len(a) + Len(b))
       /\ \A i \in DOMAIN a : (a \o b)[i] = a[i]
       /\ \A i \in DOMAIN (a \o b) :
            i \notin DOMAIN a => i - Len(a) \in DOMAIN b /\ (a \o b)[i] = b[i - Len(a)]
  BY <1>2, ConcatAt
<1>17. Len(a) = Len(p.prefixes)
  <2>1. Len(p.prefixes) \in Nat /\ DOMAIN p.prefixes = 1..Len(p.prefixes)
    BY DEF PluginsParsed, IsSeq
  <2>2. 1..Len(a) = 1..Len(p.prefixes)
    BY <1>8, <1>16, <2>1
  <2>3. \A m, n \in Nat : 1..m = 1..n => m = n
    OBVIOUS
  <2> QED
    BY <1>16, <2>1, <2>2, <2>3
<1>18. ASSUME NEW i \in DOMAIN ApplyAll
       PROVE  \/ i \in DOMAIN p.prefixes /\ ApplyAll[i] = PrefixApply(p.prefixes[i])
              \/ \E j \in DOMAIN p.routes : /\ i = Len(p.prefixes) + j
                                            /\ ApplyAll[i] = RouteApply(p.routes[j])
              \/ FromOther(p, ApplyAll[i])
  <2>1. CASE i \in DOMAIN a
    BY <1>8, <1>15, <1>16, <2>1 DEF GoesOn
  <2>2. CASE i \in DOMAIN (a \o b) /\ i \notin DOMAIN a
    <3>1. i - Len(a) \in DOMAIN b /\ ApplyAll[i] = b[i - Len(a)]
      BY <1>15, <1>16, <2>2 DEF GoesOn
    <3>2. i = Len(p.prefixes) + (i - Len(a))
      BY <1>16, <1>17, <2>2
    <3> QED
      BY <1>8, <3>1, <3>2
  <2>3. CASE i \notin DOMAIN (a \o b)
    <3>1. ApplyAll[i] \in T
      BY <1>15, <2>3 DEF GoesOn
    <3> QED
      BY <1>9, <3>1
  <2> QED
    BY <2>1, <2>2, <2>3
<1>19. ASSUME NEW j \in DOMAIN p.routes
       PROVE  /\ Len(p.prefixes) + j \in DOMAIN ApplyAll
              /\ ApplyAll[Len(p.prefixes) + j] = RouteApply(p.routes[j])
  <2> DEFINE i == Len(a) + j
  <2>1. i \in DOMAIN (a \o b) /\ i \notin DOMAIN a /\ i - Len(a) = j
    BY <1>8, <1>16
  <2> HIDE DEF i
  <2>2. (a \o b)[i] = RouteApply(p.routes[j])
    BY <1>8, <1>16, <2>1
  <2>3. i \in DOMAIN ApplyAll /\ ApplyAll[i] = (a \o b)[i]
    BY <1>15, <2>1 DEF GoesOn
  <2> QED
    BY <1>17, <2>2, <2>3 DEF i
<1> QED
  BY <1>18, <1>19

(* The prefixes of a prefix plugin and of a route plugin.                  *)
PrefixesOf(p) == IF p.auto THEN PrefixCurrent(p) ELSE <<p.prefix>>
RoutesOf(r) == IF r.auto THEN RouteCurrent ELSE <<r.prefix>>

(* The options of a prefix.                                                *)
LEMMA PrefixResult ==
  ASSUME NEW p, NEW k \in DOMAIN PrefixApply(p).opts
  PROVE  /\ k \in DOMAIN PrefixesOf(p) /\ PrefixApply(p).opts[k].kind = "pi"
         /\ PrefixApply(p).opts[k].prefix = PrefixesOf(p)[k]
         /\ PrefixApply(p).opts[k].from = p
<1> DEFINE q == PrefixesOf(p)
           r == PrefixApply(p)
           v == Remaining(p, p.valid)
           w == Remaining(p, p.preferred)
<1>1. r = Fail("panic") \/ r = Ok(PrefixOptions(p, q))
  BY Zenon DEF PrefixApply, PrefixesOf
<1>2. r.opts # <<>>
  OBVIOUS
<1> HIDE DEF q, r
<1>3. r.opts = PrefixOptions(p, q)
  BY <1>1, <1>2, Results
<1>4. k \in DOMAIN r.opts
  BY DEF r
<1>5. /\ k \in DOMAIN q
      /\ r.opts[k] = [kind |-> "pi", prefix |-> q[k], valid |-> v, preferred |-> w,
                      from |-> p]
  BY <1>3, <1>4, Zenon DEF PrefixOptions
<1>6. r.opts[k].kind = "pi" /\ r.opts[k].prefix = q[k] /\ r.opts[k].from = p
  <2> HIDE DEF v, w
  <2> QED
    BY <1>5, OptionFields
<1> QED
  BY <1>5, <1>6 DEF q, r

(* The options of a route.                                                 *)
LEMMA RouteResult ==
  ASSUME NEW p, NEW k \in DOMAIN RouteApply(p).opts
  PROVE  /\ k \in DOMAIN RoutesOf(p) /\ RouteApply(p).opts[k].kind = "ri"
         /\ RouteApply(p).opts[k].prefix = RoutesOf(p)[k]
         /\ RouteApply(p).opts[k].from = p
<1> DEFINE q == RoutesOf(p)
           r == RouteApply(p)
           v == p.preference
           w == Remaining(p, p.lifetime)
<1>1. r = Fail("panic") \/ r = Fail("error") \/ r = Ok(RouteOptions(p, q))
  BY Zenon DEF RouteApply, RoutesOf
<1>2. r.opts # <<>>
  OBVIOUS
<1> HIDE DEF q, r
<1>3. r.opts = RouteOptions(p, q)
  BY <1>1, <1>2, Results
<1>4. k \in DOMAIN r.opts
  BY DEF r
<1>5. /\ k \in DOMAIN q
      /\ r.opts[k] = [kind |-> "ri", prefix |-> q[k], preference |-> v, lifetime |-> w,
                      from |-> p]
  BY <1>3, <1>4, Zenon DEF RouteOptions
<1>6. r.opts[k].kind = "ri" /\ r.opts[k].prefix = q[k] /\ r.opts[k].from = p
  <2> HIDE DEF v, w
  <2> QED
    BY <1>5, OptionFields
<1> QED
  BY <1>5, <1>6 DEF q, r

(* A prefix option: the plugin and the prefix it is for.                   *)
LEMMA PrefixPlace ==
  ASSUME Inv, NEW x \in DOMAIN Opts("pi")
  PROVE  \E i \in DOMAIN ifi.plugins.prefixes :
           \E k \in DOMAIN PrefixesOf(ifi.plugins.prefixes[i]) :
             /\ x = <<i, k>>
             /\ Opts("pi")[x].prefix = PrefixesOf(ifi.plugins.prefixes[i])[k]
             /\ Opts("pi")[x].from = ifi.plugins.prefixes[i]
<1>1. advertiser # 0
  BY OptsAt
<1>2. PICK i \in DOMAIN ApplyAll : \E k \in DOMAIN ApplyAll[i].opts :
        /\ x = <<i, k>> /\ Opts("pi")[x] = ApplyAll[i].opts[k]
        /\ ApplyAll[i].opts[k].kind = "pi"
  BY OptsAt
<1>3. PICK k \in DOMAIN ApplyAll[i].opts :
        /\ x = <<i, k>> /\ Opts("pi")[x] = ApplyAll[i].opts[k]
        /\ ApplyAll[i].opts[k].kind = "pi"
  BY <1>2
<1>4. PluginsParsed(ifi.plugins, ifi.max)
  BY <1>1, Followed
<1>5. ~FromOther(ifi.plugins, ApplyAll[i])
  BY <1>3, OtherOptions DEF OtherOption
<1>6. ASSUME NEW j \in DOMAIN ifi.plugins.routes,
             ApplyAll[i] = RouteApply(ifi.plugins.routes[j])
      PROVE  FALSE
  BY <1>3, <1>6, RouteResult
<1>7. /\ i \in DOMAIN ifi.plugins.prefixes
      /\ ApplyAll[i] = PrefixApply(ifi.plugins.prefixes[i])
  BY <1>4, <1>5, <1>6, ApplyAllAt
<1>8. /\ k \in DOMAIN PrefixesOf(ifi.plugins.prefixes[i])
      /\ ApplyAll[i].opts[k].prefix = PrefixesOf(ifi.plugins.prefixes[i])[k]
      /\ ApplyAll[i].opts[k].from = ifi.plugins.prefixes[i]
  <2>1. k \in DOMAIN PrefixApply(ifi.plugins.prefixes[i]).opts
    BY <1>3, <1>7, Zenon
  <2> DEFINE p == ifi.plugins.prefixes[i]
  <2>2. ApplyAll[i] = PrefixApply(p)
    BY <1>7
  <2> HIDE DEF p
  <2>3. /\ k \in DOMAIN PrefixesOf(p) /\ PrefixApply(p).opts[k].prefix = PrefixesOf(p)[k]
        /\ PrefixApply(p).opts[k].from = p
    BY <2>1, PrefixResult DEF p
  <2> QED
    BY <2>2, <2>3, Zenon DEF p
<1> QED
  BY <1>3, <1>7, <1>8, Zenon

(* A route option: the plugin and the prefix it is for.                    *)
LEMMA RoutePlace ==
  ASSUME Inv, NEW x \in DOMAIN Opts("ri")
  PROVE  \E j \in DOMAIN ifi.plugins.routes :
           \E k \in DOMAIN RoutesOf(ifi.plugins.routes[j]) :
             /\ x = <<Len(ifi.plugins.prefixes) + j, k>>
             /\ Opts("ri")[x].prefix = RoutesOf(ifi.plugins.routes[j])[k]
             /\ Opts("ri")[x].from = ifi.plugins.routes[j]
<1>1. advertiser # 0
  BY OptsAt
<1>2. PICK i \in DOMAIN ApplyAll : \E k \in DOMAIN ApplyAll[i].opts :
        /\ x = <<i, k>> /\ Opts("ri")[x] = ApplyAll[i].opts[k]
        /\ ApplyAll[i].opts[k].kind = "ri"
  BY OptsAt
<1>3. PICK k \in DOMAIN ApplyAll[i].opts :
        /\ x = <<i, k>> /\ Opts("ri")[x] = ApplyAll[i].opts[k]
        /\ ApplyAll[i].opts[k].kind = "ri"
  BY <1>2
<1>4. PluginsParsed(ifi.plugins, ifi.max)
  BY <1>1, Followed
<1>5. ~FromOther(ifi.plugins, ApplyAll[i])
  BY <1>3, OtherOptions DEF OtherOption
<1>6. ~(ApplyAll[i] = PrefixApply(ifi.plugins.prefixes[i]))
  BY <1>3, PrefixResult
<1>7. PICK j \in DOMAIN ifi.plugins.routes :
        /\ i = Len(ifi.plugins.prefixes) + j
        /\ ApplyAll[i] = RouteApply(ifi.plugins.routes[j])
  BY <1>4, <1>5, <1>6, ApplyAllAt
<1>8. /\ k \in DOMAIN RoutesOf(ifi.plugins.routes[j])
      /\ ApplyAll[i].opts[k].prefix = RoutesOf(ifi.plugins.routes[j])[k]
      /\ ApplyAll[i].opts[k].from = ifi.plugins.routes[j]
  <2>1. k \in DOMAIN RouteApply(ifi.plugins.routes[j]).opts
    BY <1>3, <1>7, Zenon
  <2> DEFINE p == ifi.plugins.routes[j]
  <2>2. ApplyAll[i] = RouteApply(p)
    BY <1>7
  <2> HIDE DEF p
  <2>3. /\ k \in DOMAIN RoutesOf(p) /\ RouteApply(p).opts[k].prefix = RoutesOf(p)[k]
        /\ RouteApply(p).opts[k].from = p
    BY <2>1, RouteResult DEF p
  <2> QED
    BY <2>2, <2>3, Zenon DEF p
<1> QED
  BY <1>3, <1>7, <1>8, Zenon

-----------------------------------------------------------------------------
(* The automatic prefixes and routes.                                      *)

(* IsPrefix compares bit by bit.                                           *)
LEMMA PrefixBits ==
  ASSUME NEW p \in Seq({0, 1}), NEW q \in Seq({0, 1})
  PROVE  IsPrefix(p, q) <=> /\ Len(p) <= Len(q)
                            /\ \A i \in 1..Len(p) : p[i] = q[i]
<1>1. SubSeq(p, 1, Len(p)) = p
  BY SubSeqFull
<1>2. ASSUME Len(p) <= Len(q)
      PROVE  (p = SubSeq(q, 1, Len(p))) <=> \A i \in 1..Len(p) : p[i] = q[i]
  <2> DEFINE r == SubSeq(q, 1, Len(p))
  <2>1. \A i \in 1..Len(p) : q[i] \in {0, 1}
    BY <1>2
  <2>2. /\ r \in Seq({0, 1}) /\ Len(r) = Len(p)
        /\ \A i \in 1..Len(p) : r[i] = q[i]
    <3>1. /\ r \in Seq({0, 1})
          /\ Len(r) = IF 1 <= Len(p) THEN Len(p) - 1 + 1 ELSE 0
          /\ \A i \in 1 .. Len(p) - 1 + 1 : r[i] = q[1 + i - 1]
      BY <2>1, SubSeqProperties
    <3> HIDE DEF r
    <3> QED
      BY <3>1
  <2> HIDE DEF r
  <2>3. p = r <=> \A i \in 1..Len(p) : p[i] = r[i]
    BY <2>2, SeqEqual
  <2> QED
    BY <2>2, <2>3 DEF r
<1> QED
  BY <1>1, <1>2 DEF IsPrefix

(* It is an order; prefixes of the same length that overlap are the same,  *)
(* and so are two prefixes, each of the other.                             *)
LEMMA PrefixOrder ==
  ASSUME NEW p \in Seq({0, 1}), NEW q \in Seq({0, 1}), NEW r \in Seq({0, 1})
  PROVE  /\ IsPrefix(p, p) /\ Overlaps(p, p)
         /\ IsPrefix(p, q) /\ IsPrefix(q, r) => IsPrefix(p, r)
         /\ Overlaps(p, q) /\ Len(p) = Len(q) => p = q
<1>1. Len(p) \in Nat /\ Len(q) \in Nat /\ Len(r) \in Nat
  BY LenProperties
<1>2. IsPrefix(p, p)
  BY <1>1, PrefixBits
<1>3. IsPrefix(p, q) /\ IsPrefix(q, r) => IsPrefix(p, r)
  BY <1>1, PrefixBits
<1>4. ASSUME Overlaps(p, q), Len(p) = Len(q)
      PROVE  p = q
  <2>1. \A i \in 1..Len(p) : p[i] = q[i]
    BY <1>4, PrefixBits DEF Overlaps
  <2> QED
    BY <1>4, <2>1, SeqEqual
<1> QED
  BY <1>2, <1>3, <1>4 DEF Overlaps

(* The addresses of the interface.                                         *)
LEMMA AddressBits ==
  ASSUME Inv
  PROVE  /\ Len(addrs) \in Nat /\ DOMAIN AddressesByIndex = 1..Len(addrs)
         /\ \A i \in 1..Len(addrs) :
              /\ AddressesByIndex[i].bits \in Seq({0, 1})
              /\ Len(AddressesByIndex[i].bits) = W
              /\ AddressesByIndex[i].len \in 0..W
              /\ AddressesByIndex[i].scope \in {"gua", "ula", "lla"}
<1>1. addrs \in Seq(Address)
  BY BuildAssumption, SeqMonotonic DEF Inv, KernelInv
<1>2. Len(addrs) \in Nat /\ DOMAIN addrs = 1..Len(addrs)
  BY <1>1
<1>3. ASSUME NEW i \in 1..Len(addrs)
      PROVE  /\ AddressesByIndex[i].bits \in Seq({0, 1})
             /\ Len(AddressesByIndex[i].bits) = W
             /\ AddressesByIndex[i].len \in 0..W
             /\ AddressesByIndex[i].scope \in {"gua", "ula", "lla"}
  <2>1. addrs[i] \in Address
    BY <1>1
  <2>2. /\ addrs[i].bits \in [1..W -> {0, 1}] /\ addrs[i].len \in 0..W
        /\ addrs[i].scope \in {"gua", "ula", "lla"}
    BY <2>1 DEF Address
  <2>3. AddressesByIndex[i] = IP(addrs[i])
    BY <1>2, Zenon DEF AddressesByIndex
  <2>4. \A a : IP(a).bits = a.bits /\ IP(a).len = a.len /\ IP(a).scope = a.scope
    BY DEF IP
  <2>5. W \in Nat
    BY ConfigAssumption
  <2>6. addrs[i].bits \in Seq({0, 1}) /\ Len(addrs[i].bits) = W
    BY <2>2, <2>5
  <2> QED
    BY <2>2, <2>3, <2>4, <2>6
<1> QED
  BY <1>2, <1>3, Zenon DEF AddressesByIndex

(* The prefixes of an automatic prefix plugin: of one length, each once.   *)
LEMMA CurrentPrefixes ==
  ASSUME Inv, NEW p, NEW k \in DOMAIN PrefixCurrent(p), NEW m \in DOMAIN PrefixCurrent(p)
  PROVE  /\ PrefixCurrent(p)[k] \in Seq({0, 1}) /\ PrefixCurrent(p)[m] \in Seq({0, 1})
         /\ Len(PrefixCurrent(p)[k]) = Len(PrefixCurrent(p)[m])
         /\ k # m => PrefixCurrent(p)[k] # PrefixCurrent(p)[m]
<1> DEFINE A == AddressesByIndex
           n == Len(addrs)
           T == {SubSeq(a.bits, 1, a.len) :
                   a \in {a \in ToSet(A) : usableAddr(a) /\ a.len = Len(p.prefix)}}
           f == [i \in 1..n |-> SubSeq(A[i].bits, 1, A[i].len)]
<1>1. PrefixCurrent(p) = Sort(T)
  BY DEF PrefixCurrent
<1>2. /\ n \in Nat /\ DOMAIN A = 1..n
      /\ \A i \in 1..n : /\ A[i].bits \in Seq({0, 1}) /\ Len(A[i].bits) = W
                         /\ A[i].len \in 0..W
  BY AddressBits
<1> HIDE DEF A, n
<1>3. \A t \in T : \E i \in 1..n : t = f[i] /\ A[i].len = Len(p.prefix)
  BY <1>2 DEF ToSet
<1>4. IsFiniteSet(T)
  <2>1. IsFiniteSet(1..n)
    BY <1>2, FS_Interval
  <2>2. \A t \in T : \E i \in 1..n : t = f[i]
    BY <1>3
  <2> HIDE DEF T, f
  <2> QED
    BY <2>1, <2>2, Indexed
<1>5. \A i \in 1..n : f[i] \in Seq({0, 1}) /\ Len(f[i]) = A[i].len
  <2> TAKE i \in 1..n
  <2> DEFINE b == A[i].bits
             l == A[i].len
  <2>1. b \in Seq({0, 1}) /\ Len(b) = W /\ l \in 0..W /\ W \in Nat
    BY <1>2, ConfigAssumption
  <2>2. f[i] = SubSeq(b, 1, l)
    OBVIOUS
  <2> HIDE DEF b, l, f
  <2>3. \A j \in 1..l : b[j] \in {0, 1}
    BY <2>1
  <2>4. /\ SubSeq(b, 1, l) \in Seq({0, 1})
        /\ Len(SubSeq(b, 1, l)) = IF 1 <= l THEN l - 1 + 1 ELSE 0
    BY <2>1, <2>3, SubSeqProperties
  <2>5. f[i] \in Seq({0, 1}) /\ Len(f[i]) = l
    BY <2>1, <2>2, <2>4
  <2> QED
    BY <2>5 DEF l
<1> HIDE DEF f
<1>6. \A t \in T : t \in Seq({0, 1}) /\ Len(t) = Len(p.prefix)
  BY <1>3, <1>5
<1> HIDE DEF T
<1>7. /\ ToSet(Sort(T)) = T
      /\ \A i, j \in DOMAIN Sort(T) : i # j => Sort(T)[i] # Sort(T)[j]
  BY <1>4, <1>6, SortElements
<1>8. \A i \in DOMAIN Sort(T) : Sort(T)[i] \in T
  BY <1>7 DEF ToSet
<1> QED
  BY <1>1, <1>6, <1>7, <1>8

(* Every file, every sequence of address changes: two prefix options of an *)
(* RA overlap only when one is automatic and the other is not, and two     *)
(* route options only when one is automatic (parsePlugins, Prefix.current, *)
(* Route.current).                                                         *)
THEOREM BuildOverlapOnlyMixed == Spec => []OverlapOnlyMixed
<1>1. Inv => OverlapOnlyMixed
  <2> SUFFICES ASSUME Inv PROVE OverlapOnlyMixed
    OBVIOUS
  <2> DEFINE ps == ifi.plugins.prefixes
             rs == ifi.plugins.routes
  <2>1. ASSUME NEW x \in DOMAIN Opts("pi"), NEW y \in DOMAIN Opts("pi"), x # y,
               Overlaps(Opts("pi")[x].prefix, Opts("pi")[y].prefix)
        PROVE  Opts("pi")[x].from.auto # Opts("pi")[y].from.auto
    <3> DEFINE o == Opts("pi")[x]
               u == Opts("pi")[y]
    <3>1. PICK i \in DOMAIN ps : \E k \in DOMAIN PrefixesOf(ps[i]) :
            x = <<i, k>> /\ o.prefix = PrefixesOf(ps[i])[k] /\ o.from = ps[i]
      BY PrefixPlace
    <3>2. PICK k \in DOMAIN PrefixesOf(ps[i]) :
            x = <<i, k>> /\ o.prefix = PrefixesOf(ps[i])[k] /\ o.from = ps[i]
      BY <3>1
    <3>3. PICK j \in DOMAIN ps : \E m \in DOMAIN PrefixesOf(ps[j]) :
            y = <<j, m>> /\ u.prefix = PrefixesOf(ps[j])[m] /\ u.from = ps[j]
      BY PrefixPlace
    <3>4. PICK m \in DOMAIN PrefixesOf(ps[j]) :
            y = <<j, m>> /\ u.prefix = PrefixesOf(ps[j])[m] /\ u.from = ps[j]
      BY <3>3
    <3>5. PluginsParsed(ifi.plugins, ifi.max)
      BY Followed, OptsAt
    <3>6. /\ ps[i].prefix \in Seq({0, 1}) /\ ps[j].prefix \in Seq({0, 1})
          /\ ps[i].auto = (ps[i].prefix = autoPrefix)
          /\ ps[j].auto = (ps[j].prefix = autoPrefix)
          /\ i # j => ~Overlaps(ps[i].prefix, ps[j].prefix)
      BY <3>5 DEF PluginsParsed, NoOverlap
    <3>7. Overlaps(PrefixesOf(ps[i])[k], PrefixesOf(ps[j])[m])
      BY <2>1, <3>2, <3>4, Zenon
    <3>8. i # j \/ k # m
      BY <2>1, <3>2, <3>4
    <3> HIDE DEF ps
    <3>9. ps[i].auto # ps[j].auto
      <4>1. ASSUME ps[i].auto, ps[j].auto PROVE FALSE
        <5>1. i = j
          BY <3>6, <4>1, PrefixOrder
        <5>2. PrefixesOf(ps[i]) = PrefixCurrent(ps[i])
          BY <4>1 DEF PrefixesOf
        <5> QED
          BY <3>7, <3>8, <5>1, <5>2, CurrentPrefixes, PrefixOrder
      <4>2. ASSUME ~ps[i].auto, ~ps[j].auto PROVE FALSE
        <5>1. PrefixesOf(ps[i]) = <<ps[i].prefix>> /\ PrefixesOf(ps[j]) = <<ps[j].prefix>>
          BY <4>2, Zenon DEF PrefixesOf
        <5>2. k = 1 /\ m = 1
          BY <5>1
        <5> QED
          BY <3>6, <3>7, <3>8, <5>1, <5>2
      <4> QED
        BY <3>6, <4>1, <4>2
    <3> QED
      BY <3>2, <3>4, <3>9, Zenon
  <2>2. ASSUME NEW x \in DOMAIN Opts("ri"), NEW y \in DOMAIN Opts("ri"), x # y,
               Overlaps(Opts("ri")[x].prefix, Opts("ri")[y].prefix)
        PROVE  Opts("ri")[x].from.auto \/ Opts("ri")[y].from.auto
    <3> DEFINE o == Opts("ri")[x]
               u == Opts("ri")[y]
               n == Len(ifi.plugins.prefixes)
    <3>1. PICK i \in DOMAIN rs : \E k \in DOMAIN RoutesOf(rs[i]) :
            x = <<n + i, k>> /\ o.prefix = RoutesOf(rs[i])[k] /\ o.from = rs[i]
      BY RoutePlace
    <3>2. PICK k \in DOMAIN RoutesOf(rs[i]) :
            x = <<n + i, k>> /\ o.prefix = RoutesOf(rs[i])[k] /\ o.from = rs[i]
      BY <3>1
    <3>3. PICK j \in DOMAIN rs : \E m \in DOMAIN RoutesOf(rs[j]) :
            y = <<n + j, m>> /\ u.prefix = RoutesOf(rs[j])[m] /\ u.from = rs[j]
      BY RoutePlace
    <3>4. PICK m \in DOMAIN RoutesOf(rs[j]) :
            y = <<n + j, m>> /\ u.prefix = RoutesOf(rs[j])[m] /\ u.from = rs[j]
      BY <3>3
    <3>5. PluginsParsed(ifi.plugins, ifi.max)
      BY Followed, OptsAt
    <3>6. /\ rs[i].auto = (rs[i].prefix = autoRoute)
          /\ rs[j].auto = (rs[j].prefix = autoRoute)
          /\ \/ i = j \/ rs[i].prefix = autoRoute \/ rs[j].prefix = autoRoute
             \/ ~Overlaps(rs[i].prefix, rs[j].prefix)
      BY <3>5 DEF PluginsParsed, NoRouteOverlap
    <3>7. Overlaps(RoutesOf(rs[i])[k], RoutesOf(rs[j])[m])
      BY <2>2, <3>2, <3>4, Zenon
    <3>8. i # j \/ k # m
      BY <2>2, <3>2, <3>4
    <3> HIDE DEF rs
    <3>9. ASSUME ~rs[i].auto, ~rs[j].auto PROVE FALSE
      <4>1. RoutesOf(rs[i]) = <<rs[i].prefix>> /\ RoutesOf(rs[j]) = <<rs[j].prefix>>
        BY <3>9, Zenon DEF RoutesOf
      <4>2. k = 1 /\ m = 1
        BY <4>1
      <4>3. ~Overlaps(rs[i].prefix, rs[j].prefix)
        <5>1. i # j
          BY <3>8, <4>2
        <5>2. rs[i].prefix # autoRoute /\ rs[j].prefix # autoRoute
          BY <3>6, <3>9, Zenon
        <5> QED
          BY <3>6, <5>1, <5>2, Zenon
      <4>4. Overlaps(rs[i].prefix, rs[j].prefix)
        <5>1. RoutesOf(rs[i])[k] = rs[i].prefix /\ RoutesOf(rs[j])[m] = rs[j].prefix
          BY <4>1, <4>2
        <5> QED
          BY <3>7, <5>1, Zenon
      <4> QED
        BY <4>3, <4>4
    <3> QED
      BY <3>2, <3>4, <3>9, Zenon
  <2> QED
    BY <2>1, <2>2, Zenon DEF OverlapOnlyMixed
<1> QED
  BY <1>1, InvHolds, PTL

(* The prefixes that no other of a set covers: none is a prefix of         *)
(* another, and each of the set has one of them as its prefix, the         *)
(* shortest of those that are.                                             *)
LEMMA Uncovered ==
  ASSUME NEW C, C \subseteq Seq({0, 1})
  PROVE  /\ uncoveredPrefixes(C) \subseteq C
         /\ \A p, q \in uncoveredPrefixes(C) : p # q => ~IsPrefix(p, q)
         /\ \A c \in C : \E p \in uncoveredPrefixes(C) : IsPrefix(p, c)
<1>1. \A p : p \in uncoveredPrefixes(C) <=>
              p \in C /\ ~\E q \in C : Len(q) < Len(p) /\ IsPrefix(q, p)
  BY DEF uncoveredPrefixes, isCovered
<1>2. \A p \in C : p \in Seq({0, 1}) /\ Len(p) \in Nat
  OBVIOUS
<1>3. ASSUME NEW p \in uncoveredPrefixes(C), NEW q \in uncoveredPrefixes(C), p # q,
             IsPrefix(p, q)
      PROVE  FALSE
  <2>1. p \in C /\ q \in C /\ Overlaps(p, q)
    BY <1>1, <1>3 DEF Overlaps
  <2>2. Len(p) # Len(q)
    BY <1>2, <1>3, <2>1, PrefixOrder
  <2>3. Len(p) <= Len(q)
    BY <1>3 DEF IsPrefix
  <2>4. Len(p) < Len(q)
    BY <1>2, <2>1, <2>2, <2>3
  <2> QED
    BY <1>1, <1>3, <2>1, <2>4
<1>4. ASSUME NEW c \in C
      PROVE  \E p \in uncoveredPrefixes(C) : IsPrefix(p, c)
  <2> DEFINE L == {n \in Nat : \E p \in C : IsPrefix(p, c) /\ Len(p) = n}
  <2>1. Len(c) \in L
    BY <1>2, PrefixOrder
  <2>2. PICK n \in L : \A m \in L : n <= m
    <3>1. L \subseteq Nat /\ L # {}
      BY <2>1
    <3> HIDE DEF L
    <3> QED
      BY <3>1, LeastExists
  <2>3. PICK p \in C : IsPrefix(p, c) /\ Len(p) = n
    BY <2>2
  <2>4. ASSUME NEW q \in C, Len(q) < Len(p), IsPrefix(q, p)
        PROVE  FALSE
    <3>1. IsPrefix(q, c)
      BY <1>2, <2>3, <2>4, PrefixOrder
    <3>2. Len(q) \in L
      BY <1>2, <3>1
    <3>3. n <= Len(q) /\ n \in Nat /\ Len(q) \in Nat
      BY <1>2, <2>2, <3>2
    <3> QED
      BY <2>3, <2>4, <3>3
  <2>5. p \in uncoveredPrefixes(C)
    BY <1>1, <2>4
  <2> QED
    BY <2>3, <2>5
<1>5. uncoveredPrefixes(C) \subseteq C
  BY <1>1
<1> QED
  BY <1>3, <1>4, <1>5

(* The routes that cover an address, and what is announced for them.       *)
LEMMA CurrentRoutes ==
  ASSUME Inv
  PROVE  /\ coveringRoutes \subseteq Seq({0, 1})
         /\ ToSet(RouteCurrent) = uncoveredPrefixes(coveringRoutes)
<1> DEFINE C == coveringRoutes
           f == [rt \in RouteTable |-> rt.prefix]
<1>1. \A c \in C : \E rt \in RouteTable : c = f[rt]
  BY DEF coveringRoutes, LoopbackRoutes, Inv, KernelInv
<1>2. \A rt \in RouteTable : f[rt] \in Seq({0, 1})
  BY BuildAssumption DEF Destination
<1> HIDE DEF C, f
<1>3. IsFiniteSet(C)
  BY <1>1, BuildAssumption, Indexed
<1>4. C \subseteq Seq({0, 1})
  BY <1>1, <1>2
<1>5. uncoveredPrefixes(C) \in SUBSET C
  BY <1>4, Uncovered
<1>6. IsFiniteSet(uncoveredPrefixes(C))
  BY <1>3, <1>5, FS_Subset
<1>7. ToSet(Sort(uncoveredPrefixes(C))) = uncoveredPrefixes(C)
  BY <1>4, <1>5, <1>6, SortElements
<1> QED
  BY <1>4, <1>7 DEF RouteCurrent, C

(* An RA that is built has the route options of every automatic route.     *)
LEMMA AutoRouteOptions ==
  ASSUME Inv, advertiser # 0, RouterAdvertisement.status = "ok",
         NEW r \in ToSet(ifi.plugins.routes), r.auto
  PROVE  {o.prefix : o \in {o \in Range(Opts("ri")) : o.from = r}}
           = ToSet(RouteCurrent)
<1> DEFINE rs == ifi.plugins.routes
           n == Len(ifi.plugins.prefixes)
<1>1. RoutesOf(r) = RouteCurrent
  BY DEF RoutesOf
<1>2. ASSUME NEW o \in Range(Opts("ri")), o.from = r
      PROVE  o.prefix \in ToSet(RouteCurrent)
  <2>1. PICK x \in DOMAIN Opts("ri") : o = Opts("ri")[x]
    BY Zenon DEF Range
  <2>2. \E j \in DOMAIN rs : \E k \in DOMAIN RoutesOf(rs[j]) :
          /\ Opts("ri")[x].prefix = RoutesOf(rs[j])[k]
          /\ Opts("ri")[x].from = rs[j]
    BY RoutePlace
  <2> QED
    BY <1>1, <1>2, <2>1, <2>2, Zenon DEF ToSet
<1>3. ASSUME NEW k \in DOMAIN RouteCurrent
      PROVE  \E o \in Range(Opts("ri")) : o.from = r /\ o.prefix = RouteCurrent[k]
  <2>1. PICK j \in DOMAIN rs : r = rs[j]
    BY DEF ToSet
  <2> DEFINE i == n + j
  <2>2. i \in DOMAIN ApplyAll /\ ApplyAll[i] = RouteApply(r)
    BY <2>1, Followed, ApplyAllAt
  <2> HIDE DEF i
  <2>3. /\ \A m \in DOMAIN ApplyAll : ApplyAll[m].status = "ok"
        /\ RouterAdvertisement.opts = [m \in DOMAIN ApplyAll |-> ApplyAll[m].opts]
    BY RACases
  <2>4. ApplyAll[i] = Ok(RouteOptions(r, RouteCurrent))
    <3>1. \/ ApplyAll[i] = Fail("error") \/ ApplyAll[i] = Fail("panic")
          \/ ApplyAll[i] = Ok(RouteOptions(r, RouteCurrent))
      BY <2>2, Zenon DEF RouteApply
    <3>2. ApplyAll[i].status = "ok"
      BY <2>2, <2>3
    <3> QED
      BY <3>1, <3>2, Results
  <2>5. k \in DOMAIN ApplyAll[i].opts
    <3>1. DOMAIN RouteOptions(r, RouteCurrent) = DOMAIN RouteCurrent
      BY DEF RouteOptions
    <3>2. ApplyAll[i].opts = RouteOptions(r, RouteCurrent)
      BY <2>4, Results
    <3> QED
      BY <3>1, <3>2
  <2>6. /\ ApplyAll[i].opts[k].kind = "ri" /\ ApplyAll[i].opts[k].from = r
        /\ ApplyAll[i].opts[k].prefix = RouteCurrent[k]
    BY <1>1, <2>2, <2>5, RouteResult
  <2> DEFINE opts == RouterAdvertisement.opts
             Places == UNION {{m} \X DOMAIN opts[m] : m \in DOMAIN opts}
             Kind == {y \in Places : opts[y[1]][y[2]].kind = "ri"}
  <2>7. i \in DOMAIN opts /\ opts[i] = ApplyAll[i].opts
    BY <2>2, <2>3
  <2>8. Opts("ri") = [y \in Kind |-> opts[y[1]][y[2]]]
    BY DEF Opts
  <2> HIDE DEF opts
  <2>9. <<i, k>> \in Places
    BY <2>5, <2>7
  <2>10. <<i, k>> \in Kind
    BY <2>6, <2>7, <2>9
  <2> HIDE DEF Kind, Places
  <2>11. /\ <<i, k>> \in DOMAIN Opts("ri")
         /\ Opts("ri")[<<i, k>>] = ApplyAll[i].opts[k]
    BY <2>7, <2>8, <2>10
  <2> QED
    BY <2>6, <2>11 DEF Range
<1> DEFINE auto == {o.prefix : o \in {o \in Range(Opts("ri")) : o.from = r}}
<1>4. auto \subseteq ToSet(RouteCurrent)
  BY <1>2
<1>5. ASSUME NEW p \in ToSet(RouteCurrent)
      PROVE  p \in auto
  <2>1. PICK k \in DOMAIN RouteCurrent : p = RouteCurrent[k]
    BY DEF ToSet
  <2> QED
    BY <1>3, <2>1
<1> QED
  BY <1>4, <1>5

(* Every file, every sequence of address and route changes: the routes of  *)
(* an automatic Route cover exactly the usable addresses that a loopback   *)
(* route covers, and none is within another (Route.current,                *)
(* coveringRoutes, uncoveredPrefixes).                                     *)
THEOREM BuildAutoRoutesExact == Spec => []AutoRoutesExact
<1>1. Inv => AutoRoutesExact
  <2> SUFFICES ASSUME Inv, advertiser # 0, RouterAdvertisement.status = "ok",
                      NEW r \in ToSet(ifi.plugins.routes), r.auto
               PROVE  LET auto == {o.prefix : o \in {o \in Range(Opts("ri")) : o.from = r}}
                          real == {rt \in routes : /\ rt.loopback /\ rt.up
                                                   /\ ~IsSingleIP(rt.prefix)}
                          usable == {a.bits : a \in {a \in ToSet(AddressesByIndex) :
                                                      usableAddr(a)}}
                      IN /\ \A p, q \in auto : p # q => ~IsPrefix(p, q)
                         /\ \A p \in auto : \E b \in usable : IsPrefix(p, b)
                         /\ \A b \in usable :
                              (\E rt \in real : IsPrefix(rt.prefix, b))
                                => \E p \in auto : IsPrefix(p, b)
    BY DEF AutoRoutesExact
  <2> DEFINE auto == {o.prefix : o \in {o \in Range(Opts("ri")) : o.from = r}}
             real == {rt \in routes : rt.loopback /\ rt.up /\ ~IsSingleIP(rt.prefix)}
             Usable == {a \in ToSet(AddressesByIndex) : usableAddr(a)}
             usable == {a.bits : a \in Usable}
             C == coveringRoutes
  <2>1. auto = uncoveredPrefixes(C) /\ C \subseteq Seq({0, 1})
    BY AutoRouteOptions, CurrentRoutes
  <2>2. usable \subseteq Seq({0, 1})
    BY AddressBits DEF ToSet
  <2>3. \A p : p \in C <=> \E rt \in real : p = rt.prefix /\ coversUsableAddr(p)
    BY DEF coveringRoutes, LoopbackRoutes
  <2>4. \A p : coversUsableAddr(p) <=> \E b \in usable : IsPrefix(p, b)
    BY DEF coversUsableAddr
  <2> HIDE DEF auto, real, usable, C
  <2>5. /\ auto \subseteq C
        /\ \A p, q \in auto : p # q => ~IsPrefix(p, q)
        /\ \A c \in C : \E p \in auto : IsPrefix(p, c)
    BY <2>1, Uncovered
  <2>6. \A p \in auto : \E b \in usable : IsPrefix(p, b)
    BY <2>3, <2>4, <2>5
  <2>7. ASSUME NEW b \in usable, NEW rt \in real, IsPrefix(rt.prefix, b)
        PROVE  \E p \in auto : IsPrefix(p, b)
    <3>1. rt.prefix \in C
      BY <2>3, <2>4, <2>7
    <3>2. PICK p \in auto : IsPrefix(p, rt.prefix)
      BY <2>5, <3>1
    <3>3. p \in Seq({0, 1}) /\ rt.prefix \in Seq({0, 1}) /\ b \in Seq({0, 1})
      BY <2>1, <2>2, <2>5, <3>1
    <3> QED
      BY <2>7, <3>2, <3>3, PrefixOrder
  <2> QED
    BY <2>5, <2>6, <2>7 DEF auto, real, usable
<1> QED
  BY <1>1, InvHolds, PTL

-----------------------------------------------------------------------------
(* The automatic DNS server.                                               *)

(* One turn of the loop of RDNSS.current, after those in g.                *)
Turn(g, m) ==
  IF m = 0 THEN NoIP
  ELSE IF isCandidate(AddressesByIndex[m])
  THEN betterRDNSS(g[m - 1], AddressesByIndex[m])
  ELSE g[m - 1]

(* There is a function for any number of turns: one turn after another, so *)
(* that there is no least number for which there is none.                  *)
LEMMA TurnsExist ==
  ASSUME NEW n \in Nat
  PROVE  \E g : g = [m \in 0..n |-> Turn(g, m)]
<1> DEFINE Exists(k) == \E g : g = [m \in 0..k |-> Turn(g, m)]
           S == {k \in Nat : ~Exists(k)}
<1>1. Exists(0)
  <2> DEFINE g == [m \in 0..0 |-> NoIP]
  <2>1. \A m \in 0..0 : Turn(g, m) = NoIP
    BY DEF Turn
  <2>2. g = [m \in 0..0 |-> Turn(g, m)]
    <3> HIDE DEF g
    <3> QED
      BY <2>1 DEF g
  <2> QED
    BY <2>2
<1>2. ASSUME NEW k \in Nat, k # 0, Exists(k - 1)
      PROVE  Exists(k)
  <2>1. PICK g : g = [m \in 0..(k - 1) |-> Turn(g, m)]
    BY <1>2
  <2> DEFINE h == [m \in 0..k |-> IF m = k THEN Turn(g, k) ELSE g[m]]
  <2>2. \A m \in 0..(k - 1) : h[m] = g[m] /\ g[m] = Turn(g, m)
    <3>1. \A m \in 0..(k - 1) : g[m] = Turn(g, m)
      BY <2>1, Zenon
    <3>2. \A m \in 0..(k - 1) : m \in 0..k /\ m # k
      BY <1>2
    <3> QED
      BY <3>1, <3>2
  <2>3. h[k] = Turn(g, k)
    OBVIOUS
  <2>4. DOMAIN h = 0..k /\ h = [m \in 0..k |-> h[m]]
    OBVIOUS
  <2> HIDE DEF h
  <2>5. \A m \in 0..k : Turn(h, m) = Turn(g, m)
    <3> TAKE m \in 0..k
    <3>1. m # 0 => h[m - 1] = g[m - 1]
      BY <1>2, <2>2
    <3> QED
      BY <3>1, Zenon DEF Turn
  <2>6. \A m \in 0..k : h[m] = Turn(h, m)
    <3> TAKE m \in 0..k
    <3>1. CASE m = k
      BY <2>3, <2>5, <3>1
    <3>2. CASE m # k
      <4>1. m \in 0..(k - 1)
        BY <1>2, <3>2
      <4> QED
        BY <2>2, <2>5, <4>1
    <3> QED
      BY <3>1, <3>2
  <2>7. h = [m \in 0..k |-> Turn(h, m)]
    BY <2>4, <2>6
  <2> QED
    BY <2>7
<1> HIDE DEF Exists
<1>3. S = {}
  <2> SUFFICES ASSUME S # {} PROVE FALSE
    OBVIOUS
  <2>1. PICK k \in S : \A m \in S : k <= m
    <3>1. S \subseteq Nat
      OBVIOUS
    <3> HIDE DEF S
    <3> QED
      BY <3>1, LeastExists
  <2>2. k \in Nat /\ ~Exists(k) /\ k # 0
    BY <1>1
  <2>3. k - 1 \in Nat /\ k - 1 \notin S
    BY <2>1, <2>2
  <2>4. Exists(k - 1)
    BY <2>3
  <2> QED
    BY <1>2, <2>2, <2>4
<1>4. Exists(n)
  BY <1>3
<1> QED
  BY <1>4 DEF Exists

(* So RDNSSBest takes a turn at every address.                             *)
LEMMA BestTurn ==
  ASSUME Inv, NEW n \in 0..Len(addrs)
  PROVE  RDNSSBest[n] = Turn(RDNSSBest, n)
<1>1. Len(addrs) \in Nat
  BY AddressBits
<1>2. \E g : g = [m \in 0..Len(addrs) |-> Turn(g, m)]
  BY <1>1, TurnsExist
<1>3. RDNSSBest = CHOOSE g : g = [m \in 0..Len(addrs) |-> Turn(g, m)]
  BY DEF RDNSSBest, Turn
<1>4. RDNSSBest = [m \in 0..Len(addrs) |-> Turn(RDNSSBest, m)]
  BY <1>2, <1>3
<1> HIDE DEF RDNSSBest
<1> QED
  BY <1>4

(* An address as betterRDNSS is given it.                                  *)
IsIP(a) ==
  a.bits \in Seq({0, 1}) /\ a.bits # <<>> /\ a.scope \in {"gua", "ula", "lla"}

(* Where the first comparison lies that one of two addresses satisfies.    *)
LEMMA FirstHit ==
  ASSUME NEW a, NEW b, IsIP(a), IsIP(b)
  PROVE  LET hits == {i \in 1..3 : HasScope(a, i) \/ HasScope(b, i)}
         IN /\ hits # {}
            /\ Rank(a) \in 1..3 /\ Rank(b) \in 1..3
            /\ Min(hits) = IF Rank(a) <= Rank(b) THEN Rank(a) ELSE Rank(b)
            /\ HasScope(a, Min(hits)) <=> Rank(a) <= Rank(b)
            /\ HasScope(b, Min(hits)) <=> Rank(b) <= Rank(a)
<1> DEFINE hits == {i \in 1..3 : HasScope(a, i) \/ HasScope(b, i)}
           least == IF Rank(a) <= Rank(b) THEN Rank(a) ELSE Rank(b)
<1>1. \A c : /\ HasScope(c, 1) <=> c.scope = "ula"
             /\ HasScope(c, 2) <=> c.scope \in {"ula", "gua"}
             /\ HasScope(c, 3) <=> c.scope = "lla"
  BY DEF HasScope
<1>2. \A c : /\ c.scope = "ula" => Rank(c) = 1
             /\ c.scope = "gua" => Rank(c) = 2
             /\ c.scope = "lla" => Rank(c) = 3
  BY DEF Rank
<1>3. a.scope \in {"gua", "ula", "lla"} /\ b.scope \in {"gua", "ula", "lla"}
  BY DEF IsIP
<1>4. Rank(a) \in 1..3 /\ Rank(b) \in 1..3
  BY <1>2, <1>3
<1>5. /\ HasScope(a, least) <=> Rank(a) <= Rank(b)
      /\ HasScope(b, least) <=> Rank(b) <= Rank(a)
  BY <1>1, <1>2, <1>3
<1>6. \A i \in 1..3 : HasScope(a, i) \/ HasScope(b, i) => least <= i
  BY <1>1, <1>2, <1>3
<1>7. least \in hits /\ \A i \in hits : least <= i
  BY <1>4, <1>5, <1>6
<1>8. hits \subseteq 1..3 /\ least \in 1..3
  BY <1>4
<1> HIDE DEF hits, least
<1>9. Min(hits) = least
  <2>1. Min(hits) \in hits /\ \A i \in hits : Min(hits) <= i
    BY <1>7 DEF Min
  <2>2. Min(hits) <= least /\ least <= Min(hits) /\ Min(hits) \in Int /\ least \in Int
    <3>1. Min(hits) <= least /\ least <= Min(hits)
      BY <1>7, <2>1
    <3>2. Min(hits) \in 1..3
      BY <1>8, <2>1
    <3> QED
      BY <1>8, <3>1, <3>2
  <2> QED
    BY <2>2
<1> QED
  BY <1>4, <1>5, <1>7, <1>9 DEF hits, least

(* betterRDNSS returns one of the two, and neither is better than that.    *)
LEMMA BetterPicks ==
  ASSUME NEW a, NEW b, IsIP(a), IsIP(b)
  PROVE  /\ betterRDNSS(a, b) \in {a, b}
         /\ ~Better(a, betterRDNSS(a, b)) /\ ~Better(b, betterRDNSS(a, b))
<1> DEFINE hits == {i \in 1..3 : HasScope(a, i) \/ HasScope(b, i)}
           r == betterRDNSS(a, b)
<1>1. /\ hits # {} /\ Rank(a) \in Int /\ Rank(b) \in Int
      /\ HasScope(a, Min(hits)) <=> Rank(a) <= Rank(b)
      /\ HasScope(b, Min(hits)) <=> Rank(b) <= Rank(a)
  BY FirstHit
<1>2. HasScope(a, Min(hits)) \in BOOLEAN /\ HasScope(b, Min(hits)) \in BOOLEAN
  BY DEF HasScope
<1>3. isStable(a) \in BOOLEAN /\ isStable(b) \in BOOLEAN
  BY DEF isStable
<1>4. IsValid(a)
  BY DEF IsValid, IsIP
<1>5. r = IF isStable(b) # isStable(a)
          THEN IF isStable(b) THEN b ELSE a
          ELSE IF hits # {} /\ HasScope(a, Min(hits)) # HasScope(b, Min(hits))
          THEN IF HasScope(b, Min(hits)) THEN b ELSE a
          ELSE IF Less(b.bits, a.bits) THEN b ELSE a
  BY <1>4, Zenon DEF betterRDNSS
<1>6. a.bits \in Seq({0, 1}) /\ b.bits \in Seq({0, 1})
  BY DEF IsIP
<1>7. /\ ~Less(a.bits, a.bits) /\ ~Less(b.bits, b.bits)
      /\ ~(Less(a.bits, b.bits) /\ Less(b.bits, a.bits))
  BY <1>6, LessOrder
<1> DEFINE sa == isStable(a)
           sb == isStable(b)
<1> HIDE DEF hits, r
<1>8. CASE sb /\ ~sa
  <2>1. r = b
    BY <1>3, <1>5, <1>8
  <2>2. ~Better(a, b)
    BY <1>8, Zenon DEF Better
  <2>3. ~Better(b, b)
    BY <1>1, <1>7 DEF Better
  <2> QED
    BY <2>1, <2>2, <2>3, Zenon DEF r
<1>9. CASE sa /\ ~sb
  <2>1. r = a
    BY <1>3, <1>5, <1>9
  <2>2. ~Better(b, a)
    BY <1>9, Zenon DEF Better
  <2>3. ~Better(a, a)
    BY <1>1, <1>7 DEF Better
  <2> QED
    BY <2>1, <2>2, <2>3, Zenon DEF r
<1>10. CASE (sa <=> sb) /\ Rank(b) < Rank(a)
  <2>1. r = b
    BY <1>1, <1>2, <1>3, <1>5, <1>10
  <2> QED
    BY <1>1, <1>7, <1>10, <2>1 DEF Better, r
<1>11. CASE (sa <=> sb) /\ Rank(a) < Rank(b)
  <2>1. r = a
    BY <1>1, <1>2, <1>3, <1>5, <1>11
  <2> QED
    BY <1>1, <1>7, <1>11, <2>1 DEF Better, r
<1>12. CASE (sa <=> sb) /\ Rank(a) = Rank(b)
  <2>1. r = IF Less(b.bits, a.bits) THEN b ELSE a
    BY <1>1, <1>2, <1>3, <1>5, <1>12
  <2> QED
    BY <1>1, <1>7, <1>12, <2>1 DEF Better, r
<1> QED
  BY <1>1, <1>8, <1>9, <1>10, <1>11, <1>12

(* What is not better than one that is not better than a third is not      *)
(* better than the third.                                                  *)
LEMMA NotBetter ==
  ASSUME NEW a, NEW b, NEW c, IsIP(a), IsIP(b), IsIP(c), ~Better(a, b), ~Better(b, c)
  PROVE  ~Better(a, c)
<1>1. Rank(a) \in Int /\ Rank(b) \in Int /\ Rank(c) \in Int
  <2>1. Rank(a) \in 1..3 /\ Rank(b) \in 1..3
    BY FirstHit
  <2>2. Rank(c) \in 1..3
    BY FirstHit
  <2> QED
    BY <2>1, <2>2
<1>2. /\ isStable(a) \in BOOLEAN /\ isStable(b) \in BOOLEAN
      /\ isStable(c) \in BOOLEAN
  BY DEF isStable
<1>3. /\ a.bits \in Seq({0, 1}) /\ b.bits \in Seq({0, 1})
      /\ c.bits \in Seq({0, 1})
  BY DEF IsIP
<1>4. Less(a.bits, c.bits) => Less(a.bits, b.bits) \/ Less(b.bits, c.bits)
  <2> SUFFICES ASSUME Less(a.bits, c.bits), ~Less(a.bits, b.bits)
               PROVE  Less(b.bits, c.bits)
    OBVIOUS
  <2>1. Less(b.bits, a.bits) \/ Same(b.bits, a.bits)
    BY <1>3, LessTotal DEF Same
  <2> QED
    BY <1>3, <2>1, LessOrder
<1> QED
  BY <1>1, <1>2, <1>4 DEF Better

(* The best of the first n addresses.                                      *)
BestOf(n) ==
  \/ /\ RDNSSBest[n] = NoIP
     /\ \A j \in 1..n : ~isCandidate(AddressesByIndex[j])
  \/ /\ \E i \in 1..n : /\ RDNSSBest[n] = AddressesByIndex[i]
                        /\ isCandidate(AddressesByIndex[i])
     /\ \A j \in 1..n : isCandidate(AddressesByIndex[j])
                          => ~Better(AddressesByIndex[j], RDNSSBest[n])

(* One turn more.                                                          *)
LEMMA BestOfNext ==
  ASSUME Inv, NEW n \in 1..Len(addrs), BestOf(n - 1)
  PROVE  BestOf(n)
<1> DEFINE A == AddressesByIndex
           b == RDNSSBest[n - 1]
           c == RDNSSBest[n]
<1>1. Len(addrs) \in Nat /\ \A i \in 1..Len(addrs) : IsIP(A[i])
  <2>1. W \in Nat /\ W # 0
    BY ConfigAssumption
  <2> QED
    BY <2>1, AddressBits DEF IsIP
<1>2. c = IF isCandidate(A[n]) THEN betterRDNSS(b, A[n]) ELSE b
  <2>1. c = Turn(RDNSSBest, n)
    BY <1>1, BestTurn
  <2>2. n # 0
    BY <1>1
  <2> QED
    BY <2>1, <2>2, Zenon DEF Turn
<1>3. n - 1 \in Nat /\ n \in Nat /\ n - 1 <= Len(addrs)
      /\ \A i : i \in 1..n <=> i \in 1..(n - 1) \/ i = n
  BY <1>1
<1>4. /\ BestOf(n - 1) <=>
           \/ b = NoIP /\ \A j \in 1..(n - 1) : ~isCandidate(A[j])
           \/ /\ \E i \in 1..(n - 1) : b = A[i] /\ isCandidate(A[i])
              /\ \A j \in 1..(n - 1) : isCandidate(A[j]) => ~Better(A[j], b)
      /\ BestOf(n) <=>
           \/ c = NoIP /\ \A j \in 1..n : ~isCandidate(A[j])
           \/ /\ \E i \in 1..n : c = A[i] /\ isCandidate(A[i])
              /\ \A j \in 1..n : isCandidate(A[j]) => ~Better(A[j], c)
  BY DEF BestOf
<1> HIDE DEF A, b, c
<1>5. CASE ~isCandidate(A[n])
  <2>1. c = b
    BY <1>2, <1>5, Zenon
  <2> QED
    BY <1>3, <1>4, <1>5, <2>1, Zenon
<1>6. CASE isCandidate(A[n]) /\ b = NoIP /\ \A j \in 1..(n - 1) : ~isCandidate(A[j])
  <2>1. c = betterRDNSS(b, A[n])
    BY <1>2, <1>6, Zenon
  <2>2. ~IsValid(b)
    BY <1>6 DEF IsValid, NoIP
  <2>3. c = A[n]
    BY <2>1, <2>2, Zenon DEF betterRDNSS
  <2>4. ~Better(A[n], A[n])
    BY <1>1, BetterPicks
  <2> QED
    BY <1>3, <1>4, <1>6, <2>3, <2>4, Zenon
<1>7. ASSUME isCandidate(A[n]), NEW i \in 1..(n - 1), b = A[i], isCandidate(A[i]),
             \A j \in 1..(n - 1) : isCandidate(A[j]) => ~Better(A[j], b)
      PROVE  BestOf(n)
  <2>1. c = betterRDNSS(b, A[n])
    BY <1>2, <1>7, Zenon
  <2>2. \A j \in 1..n : IsIP(A[j])
    BY <1>1
  <2>3. IsIP(b) /\ IsIP(A[n])
    BY <1>3, <1>7, <2>2, Zenon
  <2>4. c \in {b, A[n]} /\ ~Better(b, c) /\ ~Better(A[n], c)
    BY <2>1, <2>3, BetterPicks, Zenon
  <2>5. IsIP(c)
    BY <2>3, <2>4, Zenon
  <2>6. ASSUME NEW j \in 1..n, isCandidate(A[j])
        PROVE  ~Better(A[j], c)
    <3>1. CASE j = n
      BY <2>4, <3>1, Zenon
    <3>2. CASE j \in 1..(n - 1)
      <4>1. ~Better(A[j], b)
        BY <1>7, <2>6, <3>2, Zenon
      <4> QED
        BY <2>2, <2>3, <2>4, <2>5, <4>1, NotBetter, Zenon
    <3> QED
      BY <1>3, <3>1, <3>2, Zenon
  <2>7. \E k \in 1..n : c = A[k] /\ isCandidate(A[k])
    BY <1>3, <1>7, <2>4, Zenon
  <2> QED
    BY <1>4, <2>6, <2>7, Zenon
<1> QED
  BY <1>4, <1>5, <1>6, <1>7, Zenon

(* The loop ends with the best of all, or with none if there is none.      *)
LEMMA BestOfAll ==
  ASSUME Inv
  PROVE  BestOf(Len(addrs))
<1> DEFINE S == {n \in 0..Len(addrs) : ~BestOf(n)}
<1>1. Len(addrs) \in Nat
  BY AddressBits
<1>2. BestOf(0)
  <2>1. RDNSSBest[0] = Turn(RDNSSBest, 0)
    BY <1>1, BestTurn
  <2>2. RDNSSBest[0] = NoIP
    BY <2>1 DEF Turn
  <2> QED
    BY <2>2 DEF BestOf
<1>3. S = {}
  <2> SUFFICES ASSUME S # {} PROVE FALSE
    OBVIOUS
  <2>1. PICK k \in S : \A m \in S : k <= m
    <3>1. S \subseteq Nat
      BY <1>1
    <3> HIDE DEF S
    <3> QED
      BY <3>1, LeastExists
  <2>2. k \in 1..Len(addrs) /\ ~BestOf(k)
    BY <1>1, <1>2
  <2>3. k - 1 \in 0..Len(addrs) /\ k - 1 \notin S
    BY <1>1, <2>1, <2>2
  <2>4. BestOf(k - 1)
    BY <2>3
  <2> QED
    BY <2>2, <2>4, BestOfNext
<1> QED
  BY <1>1, <1>3

(* RDNSS.current returns the best candidate, or fails without one.         *)
LEMMA CurrentServer ==
  ASSUME Inv
  PROVE  \/ ~IsValid(RDNSSCurrent) /\ Candidates = {}
         \/ /\ RDNSSCurrent \in Candidates
            /\ \A b \in Candidates : ~Better(b, RDNSSCurrent)
<1> DEFINE A == AddressesByIndex
           n == Len(addrs)
           r == RDNSSCurrent
<1>1. DOMAIN A = 1..n
  BY AddressBits
<1>2. \A a : a \in Candidates <=> \E i \in 1..n : a = A[i] /\ isCandidate(A[i])
  <2> HIDE DEF A
  <2> QED
    BY <1>1, Zenon DEF Candidates, ToSet, A
<1>3. \/ r = NoIP /\ \A j \in 1..n : ~isCandidate(A[j])
      \/ /\ \E i \in 1..n : r = A[i] /\ isCandidate(A[i])
         /\ \A j \in 1..n : isCandidate(A[j]) => ~Better(A[j], r)
  BY BestOfAll, Zenon DEF BestOf, RDNSSCurrent
<1>4. ~IsValid(NoIP)
  BY DEF IsValid, NoIP
<1> HIDE DEF A, n, r
<1>5. CASE r = NoIP /\ \A j \in 1..n : ~isCandidate(A[j])
  <2>1. Candidates = {}
    BY <1>2, <1>5, Zenon
  <2> QED
    BY <1>4, <1>5, <2>1, Zenon DEF r
<1>6. CASE /\ \E i \in 1..n : r = A[i] /\ isCandidate(A[i])
           /\ \A j \in 1..n : isCandidate(A[j]) => ~Better(A[j], r)
  BY <1>2, <1>6, Zenon DEF r
<1> QED
  BY <1>3, <1>5, <1>6, Zenon

(* Only an RDNSS adds an RDNSS option.                                     *)
LEMMA OnlyRDNSS ==
  ASSUME NEW p, NEW r, FromPlugin(p, r), NEW k \in DOMAIN r.opts,
         r.opts[k].kind = "rdnss"
  PROVE  \E j \in DOMAIN p.rdnss : r = RDNSSApply(p.rdnss[j])
<1>1. ASSUME NEW o, o.kind # "rdnss", r = Ok(<<o>>) \/ r = Ok(<<>>)
      PROVE  FALSE
  BY <1>1, Results
<1>2. ASSUME NEW j \in DOMAIN p.prefixes, r = PrefixApply(p.prefixes[j])
      PROVE  FALSE
  BY <1>2, PrefixResult
<1>3. ASSUME NEW j \in DOMAIN p.routes, r = RouteApply(p.routes[j])
      PROVE  FALSE
  BY <1>3, RouteResult
<1>4. ASSUME NEW j \in DOMAIN p.dnssl, r = DNSSLApply(p.dnssl[j])
      PROVE  FALSE
  <2> DEFINE o == [kind |-> "dnssl", names |-> p.dnssl[j].names,
                   lifetime |-> p.dnssl[j].lifetime]
  <2>1. o.kind = "dnssl" /\ r = Ok(<<o>>)
    BY <1>4 DEF DNSSLApply
  <2> HIDE DEF o
  <2> QED
    BY <1>1, <2>1
<1>5. ASSUME r \in {MTUApply(p.mtu), LLAApply(p.lla), CaptivePortalApply(p.portal)}
      PROVE  FALSE
  <2> DEFINE m == [kind |-> "mtu", mtu |-> p.mtu]
             l == [kind |-> "lla"]
             c == [kind |-> "captive-portal", uri |-> p.portal]
  <2>1. m.kind = "mtu" /\ l.kind = "lla" /\ c.kind = "captive-portal"
    OBVIOUS
  <2>2. r = Ok(<<>>) \/ r = Ok(<<m>>) \/ r = Ok(<<l>>) \/ r = Ok(<<c>>)
    BY <1>5, Zenon DEF MTUApply, LLAApply, CaptivePortalApply
  <2> HIDE DEF m, l, c
  <2> QED
    BY <1>1, <2>1, <2>2
<1>6. ASSUME NEW j \in DOMAIN p.pref64, r = PREF64Apply(p.pref64[j])
      PROVE  FALSE
  <2> DEFINE o == [kind |-> "pref64", prefix |-> p.pref64[j].prefix,
                   lifetime |-> p.pref64[j].lifetime]
  <2>1. o.kind = "pref64" /\ r = Ok(<<o>>)
    BY <1>6 DEF PREF64Apply
  <2> HIDE DEF o
  <2> QED
    BY <1>1, <2>1
<1> QED
  BY <1>2, <1>3, <1>4, <1>5, <1>6, Zenon DEF FromPlugin, FromOther

(* The first server of an automatic RDNSS is the current one.              *)
LEMMA RDNSSResult ==
  ASSUME NEW r, IsFiniteSet(r.servers), r.servers \subseteq Seq({0, 1}),
         NEW k \in DOMAIN RDNSSApply(r).opts
  PROVE  /\ RDNSSApply(r).opts[k].from = r
         /\ r.auto => /\ IsValid(RDNSSCurrent)
                      /\ RDNSSApply(r).opts[k].servers[1] = RDNSSCurrent.bits
<1> DEFINE x == RDNSSApply(r)
           static == Sort(r.servers)
           auto == <<RDNSSCurrent.bits>> \o static
           With(q) == [kind |-> "rdnss", servers |-> q, lifetime |-> r.lifetime,
                       from |-> r]
<1>1. \A q : RDNSSOption(r, q) = Ok(<<With(q)>>)
  BY DEF RDNSSOption
<1>2. \A q : With(q).servers = q /\ With(q).from = r
  OBVIOUS
<1>3. \/ x = Fail("panic") \/ x = Fail("error")
      \/ ~r.auto /\ x = RDNSSOption(r, static)
      \/ IsValid(RDNSSCurrent) /\ x = RDNSSOption(r, auto)
  BY Zenon DEF RDNSSApply
<1>4. k \in DOMAIN x.opts /\ x.opts # <<>>
  OBVIOUS
<1>5. auto[1] = RDNSSCurrent.bits
  <2>1. static \in SetToSeqs(r.servers)
    BY SortSorts
  <2>2. Cardinality(r.servers) \in Nat
    BY FS_CardinalityType
  <2> HIDE DEF static
  <2>3. static \in [1..Cardinality(r.servers) -> r.servers]
    BY <2>1 DEF SetToSeqs
  <2>4. IsSeq(static)
    BY <2>2, <2>3, FunctionIsSeq
  <2> DEFINE h == <<RDNSSCurrent.bits>>
  <2>5. IsSeq(h) /\ 1 \in DOMAIN h /\ h[1] = RDNSSCurrent.bits
    <3> DEFINE e == RDNSSCurrent.bits
    <3> HIDE DEF e
    <3> QED
      BY DEF IsSeq, ToSet
  <2> HIDE DEF h
  <2>6. (h \o static)[1] = h[1]
    BY <2>4, <2>5, ConcatAt
  <2> QED
    BY <2>5, <2>6 DEF h
<1> HIDE DEF x, static, auto, With
<1>6. ASSUME NEW q, x = RDNSSOption(r, q)
      PROVE  x.opts[k] = With(q)
  <2>1. x.opts = <<With(q)>>
    BY <1>1, <1>6, Results
  <2> QED
    BY <1>4, <2>1
<1>7. CASE ~r.auto /\ x = RDNSSOption(r, static)
  BY <1>2, <1>6, <1>7 DEF x
<1>8. CASE IsValid(RDNSSCurrent) /\ x = RDNSSOption(r, auto)
  BY <1>2, <1>5, <1>6, <1>8 DEF x
<1> QED
  BY <1>3, <1>4, <1>7, <1>8, Results

(* Every file and every list of addresses: the automatic DNS server is the *)
(* best of the candidates (RDNSS.current, betterRDNSS).                    *)
THEOREM BuildBestServer == Spec => []BestServer
<1>1. Inv => BestServer
  <2> SUFFICES ASSUME Inv, NEW o \in Range(Opts("rdnss")), o.from.auto
               PROVE  \E a \in Candidates :
                        /\ a.bits = o.servers[1]
                        /\ \A b \in Candidates : ~Better(b, a)
    BY DEF BestServer
  <2>1. PICK x \in DOMAIN Opts("rdnss") : o = Opts("rdnss")[x]
    BY Zenon DEF Range
  <2>2. PICK i \in DOMAIN ApplyAll : \E k \in DOMAIN ApplyAll[i].opts :
          o = ApplyAll[i].opts[k] /\ ApplyAll[i].opts[k].kind = "rdnss"
    BY <2>1, OptsAt
  <2>3. PICK k \in DOMAIN ApplyAll[i].opts :
          o = ApplyAll[i].opts[k] /\ ApplyAll[i].opts[k].kind = "rdnss"
    BY <2>2
  <2>4. PluginsParsed(ifi.plugins, ifi.max)
    BY <2>1, Followed, OptsAt
  <2>5. PICK j \in DOMAIN ifi.plugins.rdnss : ApplyAll[i] = RDNSSApply(ifi.plugins.rdnss[j])
    BY <2>3, <2>4, ApplyAllFrom, OnlyRDNSS
  <2> DEFINE r == ifi.plugins.rdnss[j]
  <2>6. IsFiniteSet(r.servers) /\ r.servers \subseteq Seq({0, 1})
    BY <2>4 DEF PluginsParsed
  <2>7. ApplyAll[i] = RDNSSApply(r)
    BY <2>5
  <2> HIDE DEF r
  <2>8. k \in DOMAIN RDNSSApply(r).opts /\ o = RDNSSApply(r).opts[k]
    BY <2>3, <2>7, Zenon
  <2>9. /\ o.from = r
        /\ r.auto => IsValid(RDNSSCurrent) /\ o.servers[1] = RDNSSCurrent.bits
    BY <2>6, <2>8, RDNSSResult
  <2>10. IsValid(RDNSSCurrent) /\ o.servers[1] = RDNSSCurrent.bits
    BY <2>9, Zenon
  <2> QED
    BY <2>10, CurrentServer, Zenon
<1> QED
  BY <1>1, InvHolds, PTL

-----------------------------------------------------------------------------
(* The order in which the kernel lists the addresses.                      *)

(* The kernel lists an address once.                                       *)
DistinctAddrs ==
  \A i, j \in DOMAIN addrs : i # j => addrs[i].bits # addrs[j].bits

(* What is left after an element is removed was there before, in the same  *)
(* order.                                                                  *)
LEMMA RemoveAtFrom ==
  ASSUME NEW S, NEW s \in Seq(S), NEW i \in DOMAIN s,
         NEW j \in DOMAIN RemoveAt(s, i)
  PROVE  LET k == IF j < i THEN j ELSE j + 1
         IN j \in Int /\ k \in DOMAIN s /\ RemoveAt(s, i)[j] = s[k]
<1> DEFINE a == SubSeq(s, 1, i - 1)
           b == SubSeq(s, i + 1, Len(s))
           c == RemoveAt(s, i)
           n == Len(s)
<1>1. n \in Nat /\ i \in 1..n /\ DOMAIN s = 1..n /\ \A m \in 1..n : s[m] \in S
  OBVIOUS
<1>2. /\ a \in Seq(S) /\ Len(a) = i - 1
      /\ \A m \in 1..(i - 1) : a[m] = s[m]
  BY <1>1, SubSeqProperties
<1>3. /\ b \in Seq(S) /\ Len(b) = n - i
      /\ \A m \in 1..(n - i) : b[m] = s[i + m]
  <2> DEFINE p == i + 1
  <2>1. /\ p \in Int /\ n \in Int /\ p <= n + 1
        /\ \A m \in p..n : s[m] \in S
    BY <1>1
  <2>2. n - p + 1 = n - i /\ \A m \in Int : p + m - 1 = i + m
    BY <1>1
  <2>3. b = SubSeq(s, p, n)
    OBVIOUS
  <2> HIDE DEF b, n, p
  <2>4. /\ b \in Seq(S)
        /\ Len(b) = IF p <= n THEN n - p + 1 ELSE 0
        /\ \A m \in 1..(n - p + 1) : b[m] = s[p + m - 1]
    BY <2>1, <2>3, SubSeqProperties
  <2>5. Len(b) = n - i
    BY <1>1, <2>1, <2>2, <2>4
  <2>6. ASSUME NEW m \in 1..(n - i) PROVE b[m] = s[i + m]
    <3>1. m \in Int /\ m \in 1..(n - p + 1)
      BY <1>1, <2>2
    <3> QED
      BY <2>2, <2>4, <3>1, Zenon
  <2> QED
    BY <2>4, <2>5, <2>6, Zenon
<1>4. c = a \o b
  BY DEF RemoveAt
<1> HIDE DEF a, b, c, n
<1>5. /\ c \in Seq(S) /\ Len(c) = Len(a) + Len(b)
      /\ \A m \in 1..(Len(a) + Len(b)) :
           c[m] = IF m <= Len(a) THEN a[m] ELSE b[m - Len(a)]
  BY <1>2, <1>3, <1>4, ConcatProperties, Zenon
<1>6. Len(a) + Len(b) = n - 1
  BY <1>1, <1>2, <1>3
<1>7. j \in 1..(n - 1)
  <2>1. j \in DOMAIN c
    BY DEF c
  <2> QED
    BY <1>5, <1>6, <2>1
<1>8. c[j] = IF j <= i - 1 THEN a[j] ELSE b[j - (i - 1)]
  BY <1>2, <1>5, <1>6, <1>7, Zenon
<1>9. ASSUME j < i PROVE j \in DOMAIN s /\ c[j] = s[j]
  <2>1. j <= i - 1 /\ j \in 1..(i - 1) /\ j \in 1..n
    BY <1>1, <1>7, <1>9
  <2> QED
    BY <1>1, <1>2, <1>8, <2>1, Zenon
<1>10. ASSUME ~(j < i) PROVE j + 1 \in DOMAIN s /\ c[j] = s[j + 1]
  <2>1. /\ ~(j <= i - 1) /\ j - (i - 1) \in 1..(n - i)
        /\ i + (j - (i - 1)) = j + 1 /\ j + 1 \in 1..n
    BY <1>1, <1>7, <1>10
  <2>2. c[j] = b[j - (i - 1)]
    BY <1>8, <2>1, Zenon
  <2>3. b[j - (i - 1)] = s[j + 1]
    BY <1>3, <2>1, Zenon
  <2> QED
    BY <1>1, <2>1, <2>2, <2>3, Zenon
<1>11. j \in Int
  BY <1>1, <1>7
<1> QED
  BY <1>9, <1>10, <1>11 DEF c

(* DistinctAddrs holds throughout: an address that is there is not added   *)
(* again.                                                                  *)
LEMMA DistinctHolds == Spec => []DistinctAddrs
<1>1. Init => DistinctAddrs
  BY DEF Init, DistinctAddrs
<1>2. Inv /\ DistinctAddrs /\ [Next]_vars => DistinctAddrs'
  <2> SUFFICES ASSUME Inv, DistinctAddrs, [Next]_vars PROVE DistinctAddrs'
    OBVIOUS
  <2>1. addrs \in Seq(Addresses)
    BY DEF Inv, KernelInv
  <2>2. ASSUME NEW a \in Addresses, AddrAdded(a) PROVE DistinctAddrs'
    <3>1. /\ addrs' = Append(addrs, a)
          /\ \A i \in DOMAIN addrs : addrs[i].bits # a.bits
      BY <2>2 DEF AddrAdded
    <3>2. Len(addrs) \in Nat /\ DOMAIN addrs = 1..Len(addrs)
      BY <2>1
    <3>3. /\ DOMAIN addrs' = 1..(Len(addrs) + 1)
          /\ \A i \in 1..Len(addrs) : addrs'[i] = addrs[i]
          /\ addrs'[Len(addrs) + 1] = a
      BY <2>1, <3>1, AppendProperties
    <3>4. \A i \in DOMAIN addrs' : i \in DOMAIN addrs \/ i = Len(addrs) + 1
      BY <3>2, <3>3
    <3> QED
      BY <3>1, <3>2, <3>3, <3>4 DEF DistinctAddrs
  <2>3. ASSUME NEW i \in DOMAIN addrs, AddrRemoved(i) PROVE DistinctAddrs'
    <3>1. addrs' = RemoveAt(addrs, i)
      BY <2>3 DEF AddrRemoved
    <3>2. i \in Int
      BY <2>1
    <3> DEFINE K(j) == IF j < i THEN j ELSE j + 1
    <3>3. \A j \in DOMAIN addrs' :
            j \in Int /\ K(j) \in DOMAIN addrs /\ addrs'[j] = addrs[K(j)]
      BY <2>1, <3>1, RemoveAtFrom
    <3>4. \A j, k \in DOMAIN addrs' : j # k => K(j) # K(k)
      BY <3>2, <3>3
    <3> HIDE DEF K
    <3> QED
      BY <3>3, <3>4 DEF DistinctAddrs
  <2>4. CASE UNCHANGED addrs
    BY <2>4 DEF DistinctAddrs
  <2> QED
    BY <2>2, <2>3, <2>4 DEF Next, vars, ParseConfig, BuildTasks, Prepare,
       RoutesChange, ForwardingChanges, Tick
<1> QED
  BY <1>1, <1>2, InvHolds, PTL DEF Spec

(* One of two addresses is better than the other.                          *)
LEMMA BetterTotal ==
  ASSUME NEW a, NEW b, IsIP(a), IsIP(b),
         Len(a.bits) = W, Len(b.bits) = W, a.bits # b.bits
  PROVE  Better(a, b) \/ Better(b, a)
<1>1. a.bits \in Seq({0, 1}) /\ b.bits \in Seq({0, 1}) /\ W \in Nat
  BY ConfigAssumption DEF IsIP
<1>2. ~Same(a.bits, b.bits)
  <2> SUFFICES ASSUME Same(a.bits, b.bits) PROVE FALSE
    OBVIOUS
  <2> DEFINE p == a.bits
             q == b.bits
  <2>1. p \in Seq({0, 1}) /\ q \in Seq({0, 1}) /\ Len(p) = W /\ Len(q) = W
    BY <1>1
  <2>2. \A i \in 1..W : Bit(p, i) = Bit(q, i)
    BY DEF Same
  <2>3. p # q
    OBVIOUS
  <2> HIDE DEF p, q
  <2>4. \A i \in 1..W : p[i] = q[i]
    BY <1>1, <2>1, <2>2 DEF Bit
  <2> QED
    BY <2>1, <2>3, <2>4, SeqEqual
<1>3. Less(a.bits, b.bits) \/ Less(b.bits, a.bits)
  BY <1>1, <1>2, LessTotal
<1>4. Rank(a) \in 1..3 /\ Rank(b) \in 1..3
  BY FirstHit
<1>5. isStable(a) \in BOOLEAN /\ isStable(b) \in BOOLEAN
  BY DEF isStable
<1> QED
  BY <1>3, <1>4, <1>5 DEF Better

(* The server that a set of candidates has.                                *)
ServerOf(S) ==
  IF S = {} THEN NoIP ELSE CHOOSE a \in S : \A b \in S : ~Better(b, a)

(* RDNSS.current depends on the set of the interface's addresses only: the *)
(* loop returns the same server in whatever order the kernel lists them.   *)
(* (Prefix.current and Route.current sort what they collect into a set.)   *)
OrderFree == RDNSSCurrent = ServerOf(Candidates)

(* The statement above, for every behaviour and any number of addresses.   *)
THEOREM BuildOrderFree == Spec => []OrderFree
<1>1. Inv /\ DistinctAddrs => OrderFree
  <2> SUFFICES ASSUME Inv, DistinctAddrs PROVE OrderFree
    OBVIOUS
  <2> DEFINE A == AddressesByIndex
             n == Len(addrs)
             r == RDNSSCurrent
             C == Candidates
  <2>1. W \in Nat /\ W # 0
    BY ConfigAssumption
  <2>2. \A i \in 1..n : IsIP(A[i]) /\ Len(A[i].bits) = W
    BY <2>1, AddressBits DEF IsIP
  <2>3. \A i, j \in 1..n : i # j => A[i].bits # A[j].bits
    <3>1. DOMAIN addrs = 1..n /\ \A i \in 1..n : A[i].bits = addrs[i].bits
      <4>1. addrs \in Seq(Addresses)
        BY DEF Inv, KernelInv
      <4>2. DOMAIN addrs = 1..n
        BY <4>1
      <4>3. \A i \in 1..n : A[i] = IP(addrs[i])
        BY <4>2, Zenon DEF AddressesByIndex
      <4>4. \A a : IP(a).bits = a.bits
        BY DEF IP
      <4> QED
        BY <4>2, <4>3, <4>4, Zenon
    <3> QED
      BY <3>1, Zenon DEF DistinctAddrs
  <2>4. \A a : a \in C <=> \E i \in 1..n : a = A[i] /\ isCandidate(A[i])
    <3>1. DOMAIN A = 1..n
      BY AddressBits
    <3> HIDE DEF A
    <3> QED
      BY <3>1, Zenon DEF Candidates, ToSet, A
  <2>5. \/ r = NoIP /\ \A j \in 1..n : ~isCandidate(A[j])
        \/ /\ \E i \in 1..n : r = A[i] /\ isCandidate(A[i])
           /\ \A j \in 1..n : isCandidate(A[j]) => ~Better(A[j], r)
    BY BestOfAll, Zenon DEF BestOf, RDNSSCurrent
  <2>6. ServerOf(C) = IF C = {} THEN NoIP
                      ELSE CHOOSE a \in C : \A b \in C : ~Better(b, a)
    BY DEF ServerOf
  <2> HIDE DEF A, n, r, C
  <2>7. CASE r = NoIP /\ \A j \in 1..n : ~isCandidate(A[j])
    <3>1. C = {}
      BY <2>4, <2>7, Zenon
    <3>2. r = ServerOf(C)
      BY <2>6, <2>7, <3>1, Zenon
    <3> QED
      BY <3>2 DEF OrderFree, r, C
  <2>8. CASE /\ \E i \in 1..n : r = A[i] /\ isCandidate(A[i])
             /\ \A j \in 1..n : isCandidate(A[j]) => ~Better(A[j], r)
    <3>1. r \in C /\ \A b \in C : ~Better(b, r)
      BY <2>4, <2>8, Zenon
    <3>2. ASSUME NEW a \in C, \A b \in C : ~Better(b, a)
          PROVE  a = r
      <4>1. PICK i \in 1..n : a = A[i]
        BY <2>4, <3>2, Zenon
      <4>2. PICK j \in 1..n : r = A[j]
        BY <2>8, Zenon
      <4>3. ~Better(A[i], A[j]) /\ ~Better(A[j], A[i])
        BY <3>1, <3>2, <4>1, <4>2, Zenon
      <4>4. A[i].bits = A[j].bits
        BY <2>2, <4>3, BetterTotal, Zenon
      <4> QED
        BY <2>3, <4>1, <4>2, <4>4, Zenon
    <3> DEFINE s == CHOOSE a \in C : \A b \in C : ~Better(b, a)
    <3>3. s \in C /\ \A b \in C : ~Better(b, s)
      BY <3>1, Zenon
    <3>4. C # {} /\ ServerOf(C) = s
      BY <2>6, <3>1, Zenon
    <3> HIDE DEF s
    <3>5. s = r
      BY <3>2, <3>3
    <3> QED
      BY <3>4, <3>5 DEF OrderFree, r, C
  <2> QED
    BY <2>5, <2>7, <2>8, Zenon
<1> QED
  BY <1>1, InvHolds, DistinctHolds, PTL

-----------------------------------------------------------------------------
(* Serving.                                                                *)

(* Once prepared, only two plugins fail: an automatic route while a        *)
(* default route points to loopback, and an automatic DNS server without   *)
(* an address to name.                                                     *)
LEMMA FailuresOncePrepared ==
  ASSUME Inv, prepared, NEW p, NEW r, FromPlugin(p, r), r.status # "ok"
  PROVE  \/ /\ r.status = "panic" /\ BadRoute
            /\ \E j \in DOMAIN p.routes : p.routes[j].auto
         \/ /\ r.status = "error" /\ Candidates = {}
            /\ \E j \in DOMAIN p.rdnss : p.rdnss[j].auto
<1>1. \A opts : r # Ok(opts)
  BY Results
<1>2. ASSUME NEW j \in DOMAIN p.prefixes, r = PrefixApply(p.prefixes[j])
      PROVE  FALSE
  BY <1>1, <1>2, Zenon DEF PrefixApply
<1>3. ASSUME NEW j \in DOMAIN p.routes, r = RouteApply(p.routes[j])
      PROVE  r.status = "panic" /\ BadRoute /\ p.routes[j].auto
  <2>1. r = Fail("panic") /\ BadRoute /\ p.routes[j].auto
    BY <1>1, <1>3, Zenon DEF RouteApply
  <2> QED
    BY <2>1, Results
<1>4. ASSUME NEW j \in DOMAIN p.rdnss, r = RDNSSApply(p.rdnss[j])
      PROVE  r.status = "error" /\ Candidates = {} /\ p.rdnss[j].auto
  <2>1. r = Fail("error") /\ ~IsValid(RDNSSCurrent) /\ p.rdnss[j].auto
    BY <1>1, <1>4, Zenon DEF RDNSSApply, RDNSSOption
  <2>2. \A a \in Candidates : IsValid(a)
    <3>1. W \in Nat /\ W # 0
      BY ConfigAssumption
    <3> QED
      BY <3>1, AddressBits DEF Candidates, IsValid, ToSet
  <2>3. Candidates = {}
    BY <2>1, <2>2, CurrentServer
  <2> QED
    BY <2>1, <2>3, Results
<1>5. ASSUME NEW j \in DOMAIN p.dnssl, r = DNSSLApply(p.dnssl[j])
      PROVE  FALSE
  BY <1>1, <1>5, Zenon DEF DNSSLApply
<1>6. ASSUME r \in {MTUApply(p.mtu), LLAApply(p.lla), CaptivePortalApply(p.portal)}
      PROVE  FALSE
  BY <1>1, <1>6, Zenon DEF MTUApply, LLAApply, CaptivePortalApply
<1>7. ASSUME NEW j \in DOMAIN p.pref64, r = PREF64Apply(p.pref64[j])
      PROVE  FALSE
  BY <1>1, <1>7, Zenon DEF PREF64Apply
<1> QED
  BY <1>2, <1>3, <1>4, <1>5, <1>6, <1>7 DEF FromPlugin, FromOther

(* Options that come from plugins can be packed, but for PREF64's.         *)
LEMMA PackedUnlessPREF64 ==
  ASSUME NEW p, NEW max, PluginsParsed(p, max),
         NEW opts, \A i \in DOMAIN opts : \A k \in DOMAIN opts[i] :
                     OptionFrom(p, opts[i][k]),
         ~packOptions(opts)
  PROVE  p.pref64 # <<>>
<1>1. PICK i \in DOMAIN opts : \E o \in ToSet(opts[i]) :
        ~(/\ o.kind \in {"captive-portal", "dnssl", "lla", "mtu", "pi", "rdnss", "ri"}
          /\ o.kind = "ri" => preference(o.preference))
  BY Zenon DEF packOptions
<1>2. PICK o \in ToSet(opts[i]) :
        ~(/\ o.kind \in {"captive-portal", "dnssl", "lla", "mtu", "pi", "rdnss", "ri"}
          /\ o.kind = "ri" => preference(o.preference))
  BY <1>1, Zenon
<1>3. OptionFrom(p, o)
  BY DEF ToSet
<1>4. o.kind = "ri" => preference(o.preference)
  BY <1>3 DEF OptionFrom, OtherOption, PluginsParsed, preference
<1>5. DOMAIN p.pref64 # {}
  BY <1>2, <1>3, <1>4 DEF OptionFrom, OtherOption
<1> QED
  BY <1>5

(* Every file, every address and route: once the plugins are prepared, an  *)
(* RA is built and packed, but for the three exceptions (Interface.        *)
(* RouterAdvertisement, packRA).                                           *)
THEOREM BuildServed == Spec => []ServedOncePrepared
<1>1. Inv => ServedOncePrepared
  <2> SUFFICES ASSUME Inv, prepared, packRA # "ok"
               PROVE  \/ /\ packRA = "error" /\ Candidates = {}
                         /\ \E i \in DOMAIN ifi.plugins.rdnss : ifi.plugins.rdnss[i].auto
                      \/ /\ packRA = "panic"
                         /\ \/ ifi.plugins.pref64 # <<>>
                            \/ /\ \E rt \in routes : rt.loopback /\ rt.up /\ rt.prefix = <<>>
                               /\ \E i \in DOMAIN ifi.plugins.routes :
                                    ifi.plugins.routes[i].auto
    BY DEF ServedOncePrepared
  <2>1. advertiser # 0
    BY DEF Inv, ServeInv
  <2>2. /\ PluginsParsed(ifi.plugins, ifi.max)
        /\ ifi.preference \in {"low", "medium", "high"}
    BY <2>1, Followed
  <2>3. \A i \in DOMAIN ApplyAll : FromPlugin(ifi.plugins, ApplyAll[i])
    BY <2>2, ApplyAllFrom
  <2> DEFINE ra == RouterAdvertisement
  <2>4. packRA = IF ra.status # "ok" THEN ra.status
                 ELSE IF preference(ra.preference) /\ packOptions(ra.opts) THEN "ok"
                 ELSE "panic"
    BY DEF packRA
  <2>5. ASSUME NEW i \in DOMAIN ApplyAll, ApplyAll[i].status # "ok", ra = ApplyAll[i]
        PROVE  \/ /\ packRA = "panic" /\ BadRoute
                  /\ \E j \in DOMAIN ifi.plugins.routes : ifi.plugins.routes[j].auto
               \/ /\ packRA = "error" /\ Candidates = {}
                  /\ \E j \in DOMAIN ifi.plugins.rdnss : ifi.plugins.rdnss[j].auto
    <3>1. packRA = ApplyAll[i].status
      BY <2>4, <2>5
    <3> QED
      BY <3>1, <2>3, <2>5, FailuresOncePrepared
  <2>6. BadRoute => \E rt \in routes : rt.loopback /\ rt.up /\ rt.prefix = <<>>
    BY Zenon DEF BadRoute, LoopbackRoutes
  <2>7. ASSUME ra.status = "ok", ra.preference = ifi.preference,
               ra.opts = [i \in DOMAIN ApplyAll |-> ApplyAll[i].opts]
        PROVE  packRA = "panic" /\ ifi.plugins.pref64 # <<>>
    <3>1. preference(ra.preference)
      BY <2>2, <2>7 DEF preference
    <3>2. ~packOptions(ra.opts) /\ packRA = "panic"
      BY <2>4, <2>7, <3>1, Zenon
    <3>3. \A i \in DOMAIN ra.opts : \A k \in DOMAIN ra.opts[i] :
            OptionFrom(ifi.plugins, ra.opts[i][k])
      BY <2>3, <2>7, ResultOptions
    <3> QED
      BY <2>2, <3>2, <3>3, PackedUnlessPREF64
  <2> HIDE DEF ra
  <2>8. \/ \E i \in DOMAIN ApplyAll : ApplyAll[i].status # "ok" /\ ra = ApplyAll[i]
        \/ /\ ra.status = "ok" /\ ra.preference = ifi.preference
           /\ ra.opts = [i \in DOMAIN ApplyAll |-> ApplyAll[i].opts]
    BY <2>1, RACases, Zenon DEF ra
  <2> QED
    BY <2>5, <2>6, <2>7, <2>8
<1> QED
  BY <1>1, InvHolds, PTL
=============================================================================
