----------------------------- MODULE MCVerifyRA -----------------------------
(* Small sets of RAs for VerifyRA: different base fields with few options, *)
(* and up to two options of every kind with equal base fields.             *)
EXTENDS VerifyRA

Base(h, m, o, re, rt) ==
  [hop |-> h, managed |-> m, other |-> o, reachable |-> re, retrans |-> rt]

SomeBases ==
  {Base(64, TRUE, FALSE, 0, 0), Base(64, TRUE, TRUE, 5, 0),
   Base(0, FALSE, FALSE, 6, 7), Base(64, TRUE, FALSE, 5, 8)}

MTU(n) == [kind |-> "mtu", value |-> n]
Portal(u) == [kind |-> "cp", value |-> u]
Flagged(p, onlink, auto, pref, valid) ==
  [kind |-> "pi", prefix |-> p, onlink |-> onlink, autonomous |-> auto,
   preferred |-> pref, valid |-> valid]
Prefix(p, pref, valid) == Flagged(p, TRUE, TRUE, pref, valid)
PREF64(p, lt) == [kind |-> "pref64", prefix |-> p, lifetime |-> lt]
Route(p, pref, lt) ==
  [kind |-> "ri", prefix |-> p, preference |-> pref, lifetime |-> lt]
List(kind, names, lt) == [kind |-> kind, names |-> names, lifetime |-> lt]

SomeOptions ==
  {MTU(1280), MTU(1500), Portal("u1"), Portal("u2"),
   Prefix("p", 1, 2), Prefix("p", 2, 2), Prefix("q", 1, 2),
   Prefix("p", 1, 3), Flagged("p", TRUE, FALSE, 1, 2),
   Flagged("p", FALSE, TRUE, 1, 2), PREF64("p", 1), PREF64("p", 2), Route("p", "low", 1), Route("p", "low", 2),
   Route("p", "high", 2), Route("q", "low", 1),
   List("rdnss", <<"s">>, 1), List("rdnss", <<"s", "t">>, 1),
   List("rdnss", <<"t", "s">>, 2), List("dnssl", <<"s">>, 1),
   List("dnssl", <<"t">>, 2)}

SomeOptionLists ==
  {<<>>} \cup {<<o>> : o \in SomeOptions}
         \cup {<<o, p>> : o, p \in SomeOptions}

OneBase == {Base(64, TRUE, FALSE, 0, 0)}
FewOptionLists == {<<>>, <<MTU(1500)>>, <<Prefix("p", 1, 2), Portal("u1")>>}

SomeMessages == (OneBase \X SomeOptionLists) \cup (SomeBases \X FewOptionLists)
=============================================================================
