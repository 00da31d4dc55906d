----------------------------- MODULE MCBuildRA ------------------------------
(* Files for Config: one stanza with every value at and next to the limits *)
(* of a check, and pairs of stanzas whose names, modes or groups clash.    *)
(* Interfaces for BuildRA: addresses of three bits, of all scopes and with *)
(* the flags that rule one out, and routes that cover each other.          *)
EXTENDS BuildRA

Default ==
  [name |-> "eth0", names |-> <<>>, monitor |-> FALSE, advertise |-> TRUE,
   max |-> Unset, min |-> Unset, reachable |-> Unset, retrans |-> Unset,
   hop |-> Unset, lifetime |-> Unset, preference |-> "", prefixes |-> <<>>,
   routes |-> <<>>, rdnss |-> <<>>, dnssl |-> <<>>, pref64 |-> <<>>, mtu |-> 0,
   lla |-> "unset", portal |-> ""]

Seconds(S) == {Num(n * sec) : n \in S}
Pfx(bits) == [k |-> "prefix", bits |-> bits]

Timing ==
  {[Default EXCEPT !.max = max, !.min = min, !.lifetime = lt,
                   !.pref64 = <<Unset>>] :
     max \in Seconds({3, 4, 5, 8, 9, 12, 1800, 1801}) \cup {Unset, Bad, Num(4500), Num(8900)},
     min \in Seconds({2, 3, 4, 450}) \cup {Unset, AutoText, Bad},
     lt \in Seconds({3, 4, 6, 9, 9000, 9001}) \cup {AutoText, Empty, Infinite, Bad}}

Base ==
  {[Default EXCEPT !.hop = Num(h)] : h \in {-1, 0, 255, 256}}
  \cup {[Default EXCEPT !.mtu = m] : m \in {-1, 65536, 65537}}
  \cup {[Default EXCEPT !.preference = p] : p \in {"low", "bad"}}
  \cup {[Default EXCEPT !.portal = "bad"]}
  \cup {[Default EXCEPT !.pref64 = <<Unset, p>>] : p \in {Bad, Empty}}
  \cup {[Default EXCEPT !.dnssl = <<[names |-> n, lifetime |-> lt]>>] :
          n \in {<<>>, <<"a">>, <<"a", "a">>}, lt \in {Bad, Empty}}
  \cup {[Default EXCEPT !.reachable = d, !.retrans = e] :
          d, e \in {Empty, Bad, Num(-1), Num(hour), Num(hour + 1)}}

SomePrefixes == {Empty, Bad, Pfx(<<0, 0>>), Pfx(<<0>>), Pfx(<<1, 0>>),
                 Pfx(<<1>>), Pfx(<<1, 0, 1>>)}

RawPrefix(p, v, q, d) ==
  [prefix |-> p, valid |-> v, preferred |-> q, deprecated |-> d]
RawRoute(p, lt, d) ==
  [prefix |-> p, lifetime |-> lt, preference |-> "medium", deprecated |-> d]

Plugins ==
  {[Default EXCEPT !.prefixes = <<RawPrefix(p, v, q, d)>>] :
     p \in SomePrefixes, v, q \in {AutoText, Empty, Infinite, Num(2 * hour)},
     d \in BOOLEAN}
  \cup
  {[Default EXCEPT
      !.prefixes = <<RawPrefix(p, AutoText, AutoText, FALSE),
                     RawPrefix(q, AutoText, AutoText, TRUE)>>,
      !.routes = <<RawRoute(p, AutoText, FALSE), RawRoute(r, Infinite, FALSE)>>] :
     p, q, r \in SomePrefixes}
  \cup
  {[Default EXCEPT !.rdnss = <<[servers |-> s, lifetime |-> lt]>>] :
     s \in {<<>>, <<Pfx(Wildcard)>>, <<Pfx(Wildcard), Pfx(Wildcard)>>,
            <<Pfx(<<1, 0, 1>>)>>, <<Bad>>},
     lt \in {AutoText, Bad}}

Named ==
  {[Default EXCEPT !.name = n, !.names = g, !.monitor = m, !.advertise = a] :
     n \in {"", "eth0", "eth1"}, m, a \in BOOLEAN,
     g \in {<<>>, <<"eth0", "eth1">>, <<"eth1", "eth1">>}}

File(stanzas) == [toml |-> TRUE, stanzas |-> stanzas, debug |-> NoDebug]

(* The interfaces that are followed: everything automatic that can be, and *)
(* static prefixes and routes that an address may come to lie in.          *)
Dynamic ==
  {[Default EXCEPT
      !.prefixes = <<RawPrefix(Empty, Num(2 * hour), Num(hour), TRUE),
                     RawPrefix(p, AutoText, AutoText, FALSE)>>,
      !.routes = <<RawRoute(Empty, Num(2 * hour), d)>>
                 \o IF d THEN <<>> ELSE <<RawRoute(Pfx(<<0, 1>>), AutoText, FALSE)>>,
      !.rdnss = <<[servers |-> <<Pfx(Wildcard), Pfx(<<0, 1, 0>>)>>, lifetime |-> AutoText]>>,
      !.dnssl = <<[names |-> <<"a", "b">>, lifetime |-> AutoText]>>,
      !.pref64 = IF d THEN <<Empty, Pfx(<<1, 1>>)>> ELSE <<>>,
      !.mtu = 1500, !.portal = "good"] :
    d \in BOOLEAN, p \in {Empty, Pfx(<<1, 0>>)}}
SomeServed == {File(<<s>>) : s \in Dynamic}

SomeFiles ==
  {File(<<s>>) : s \in Timing \cup Base \cup Plugins \cup Named}
  \cup {File(<<s, t>>) : s, t \in Named}
  \cup {[toml |-> t, stanzas |-> s, debug |-> [address |-> a, prometheus |-> TRUE]] :
          t \in BOOLEAN, s \in {<<>>, <<Default>>}, a \in {"", "good", "bad"}}
  \cup SomeServed

Addr(bits, len, scope, flags, forever) ==
  [bits |-> bits, len |-> len, scope |-> scope, flags |-> flags,
   forever |-> forever, eui64 |-> FALSE]

SomeAddresses ==
  {Addr(<<0, 0, 1>>, 2, "gua", {}, FALSE),
   Addr(<<0, 1, 0>>, 2, "gua", {"deprecated"}, FALSE),
   Addr(<<0, 1, 1>>, 2, "gua", {"temporary", "stable_privacy"}, FALSE),
   Addr(<<0, 0, 0>>, 3, "gua", {}, FALSE),
   Addr(<<1, 0, 0>>, 2, "ula", {}, FALSE),
   Addr(<<1, 0, 1>>, 2, "ula", {"tentative", "managetempaddr"}, FALSE),
   [Addr(<<1, 1, 1>>, 2, "lla", {}, TRUE) EXCEPT !.eui64 = TRUE]}

Lo(p) == [prefix |-> p, loopback |-> TRUE, up |-> TRUE]
SomeRoutes ==
  {Lo(p) : p \in {<<>>, <<0>>, <<0, 0>>, <<0, 0, 1>>}}
  \cup {[prefix |-> <<1>>, loopback |-> FALSE, up |-> TRUE]}
=============================================================================
