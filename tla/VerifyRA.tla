------------------------------ MODULE VerifyRA ------------------------------
(***************************************************************************)
(* The consistency check of RFC 4861 section 6.2.7, as verifyRAs makes it  *)
(* (internal/corerad/verify.go) when the Advertiser receives the router    *)
(* advertisement of another router on the link.                            *)
(*                                                                         *)
(* An option is a pointer to a structure: [at |-> its allocation, v |->    *)
(* its contents].  The RA the Advertiser builds and the one it parses from *)
(* the wire never share an allocation.  A problem is the field and the     *)
(* prefix it is about; the values it quotes are left out, and problems are *)
(* a set: a repeated one only adds to a counter.                           *)
(***************************************************************************)
EXTENDS Naturals, Sequences

CONSTANT
  Messages  \* RAs on the link: <<base fields, contents of the options>>

Option ==
  [kind : {"mtu"}, value : Nat]
  \cup [kind : {"cp"}, value : STRING]
  \cup [kind : {"pi"}, prefix : STRING, onlink : BOOLEAN, autonomous : BOOLEAN,
        preferred : Nat, valid : Nat]
  \cup [kind : {"pref64"}, prefix : STRING, lifetime : Nat]
  \cup [kind : {"ri"}, prefix : STRING, preference : STRING, lifetime : Nat]
  \cup [kind : {"rdnss", "dnssl"}, names : Seq(STRING), lifetime : Nat]

ASSUME MessagesAssumption ==
  Messages \subseteq
    [hop : Nat, managed : BOOLEAN, other : BOOLEAN, reachable : Nat, retrans : Nat]
    \X Seq(Option)

VARIABLES
  want,     \* the RA built from the configuration
  got,      \* the RA received last, as a set: none yet, or one
  reported  \* the problems found in it

verifyVars == <<want, got, reported>>

(* An RA with base fields b and options of contents vs, allocated by who.  *)
RA(b, vs, who) ==
  [base |-> b, opts |-> [i \in DOMAIN vs |-> [at |-> <<who, i>>, v |-> vs[i]]]]

Contents(ra) == <<ra.base, [i \in DOMAIN ra.opts |-> ra.opts[i].v]>>

RAs(who) == {RA(m[1], m[2], who) : m \in Messages}

-----------------------------------------------------------------------------
(* The loop of pick, over the first n options.                             *)
picked(kind, options) ==
  LET ts[n \in 0..Len(options)] ==
        IF n = 0 THEN <<>>
        ELSE IF options[n].v.kind = kind THEN Append(ts[n - 1], options[n])
        ELSE ts[n - 1]
  IN ts

pick(kind, options) == picked(kind, options)[Len(options)]

Problem(field, details) == [field |-> field, details |-> details]

(* A problem with this field, if the condition holds.                      *)
If(cond, field) == IF cond THEN {Problem(field, "none")} ELSE {}

checkDurations(a, b) == a = 0 \/ b = 0 \/ a = b

checkRAs(a, b) ==
  If(a.hop # b.hop, "hop_limit")
  \cup If(a.managed # b.managed, "managed_configuration")
  \cup If(a.other # b.other, "other_configuration")
  \cup If(~checkDurations(a.reachable, b.reachable), "reachable_time")
  \cup If(~checkDurations(a.retrans, b.retrans), "retransmit_timer")

(* The first option of a kind of each RA, if both have one.  The code      *)
(* compares the pointers.                                                  *)
checkFirst(want_, got_, kind, field) ==
  LET a == pick(kind, want_)
      b == pick(kind, got_)
  IN If(a # <<>> /\ b # <<>> /\ Head(a) # Head(b), field)

checkMTUs(want_, got_) == checkFirst(want_, got_, "mtu", "mtu")

checkCaptivePortal(want_, got_) == checkFirst(want_, got_, "cp", "captive_portal")

(* Prefixes compared position by position, as the DNS lists are.           *)
checkPrefixesByPosition(want_, got_) ==
  LET a == pick("pi", want_)
      b == pick("pi", got_)
  IN {Problem("prefix_information_preferred_lifetime", a[i].v.prefix) :
        i \in {i \in (DOMAIN a) \cap (DOMAIN b) :
                 /\ a[i].v.prefix = b[i].v.prefix
                 /\ a[i].v.preferred # b[i].v.preferred}}
     \cup
     {Problem("prefix_information_valid_lifetime", a[i].v.prefix) :
        i \in {i \in (DOMAIN a) \cap (DOMAIN b) :
                 /\ a[i].v.prefix = b[i].v.prefix
                 /\ a[i].v.valid # b[i].v.valid}}

(* Options of a kind compared whatever prefixes they name.                 *)
AnyPrefix(want_, got_, kind) ==
  LET a == pick(kind, want_)
      b == pick(kind, got_)
  IN {<<a[i].v, b[j].v>> : i \in DOMAIN a, j \in DOMAIN b}

(* The pairs of options of a kind that name the same prefix.               *)
SamePrefix(want_, got_, kind) ==
  LET a == pick(kind, want_)
      b == pick(kind, got_)
  IN {p \in {<<a[i].v, b[j].v>> : i \in DOMAIN a, j \in DOMAIN b} :
        p[1].prefix = p[2].prefix}

checkPrefixes(want_, got_) ==
  LET pairs == SamePrefix(want_, got_, "pi")
  IN {Problem("prefix_information_preferred_lifetime", p[1].prefix) :
        p \in {p \in pairs : p[1].preferred # p[2].preferred}}
     \cup
     {Problem("prefix_information_valid_lifetime", p[1].prefix) :
        p \in {p \in pairs : p[1].valid # p[2].valid}}

(* Routes of another router that do not last as long as our own.           *)
checkRoutesShorter(want_, got_) ==
  {Problem("route_information_lifetime", p[1].prefix) :
     p \in {p \in SamePrefix(want_, got_, "ri") :
              /\ p[1].preference = p[2].preference
              /\ p[1].lifetime > p[2].lifetime}}

(* Routes are compared only at equal preference.                           *)
checkRoutes(want_, got_) ==
  {Problem("route_information_lifetime", p[1].prefix) :
     p \in {p \in SamePrefix(want_, got_, "ri") :
              /\ p[1].preference = p[2].preference
              /\ p[1].lifetime # p[2].lifetime}}

(* checkRDNSS and checkDNSSL: lists that must be identical, option by      *)
(* option, when both RAs have some.                                        *)
checkLists(want_, got_, kind, count, lifetime, names) ==
  LET a == pick(kind, want_)
      b == pick(kind, got_)
  IN IF a = <<>> \/ b = <<>> THEN {}
     ELSE IF Len(a) # Len(b) THEN {Problem(count, "none")}
     ELSE If(\E i \in DOMAIN a : a[i].v.lifetime # b[i].v.lifetime, lifetime)
          \cup If(\E i \in DOMAIN a : a[i].v.names # b[i].v.names, names)

verifyRAs(a, b) ==
  checkRAs(a.base, b.base)
  \cup checkMTUs(a.opts, b.opts)
  \cup checkPrefixes(a.opts, b.opts)
  \cup checkRoutes(a.opts, b.opts)
  \cup checkLists(a.opts, b.opts, "rdnss",
                  "rdnss_count", "rdnss_lifetime", "rdnss_servers")
  \cup checkLists(a.opts, b.opts, "dnssl",
                  "dnssl_count", "dnssl_lifetime", "dnssl_domain_names")
  \cup checkCaptivePortal(a.opts, b.opts)

-----------------------------------------------------------------------------
VerifyInit ==
  /\ want \in RAs("ours")
  /\ got = {}
  /\ reported = {}

(* The RouterAdvertisement case of Advertiser.handle.  One message is      *)
(* enough: handle keeps nothing from one to the next.                      *)
Receive ==
  /\ got = {}
  /\ \E m \in RAs("theirs") :
       /\ got' = {m}
       /\ reported' = verifyRAs(want, m)
  /\ UNCHANGED want

VerifySpec == VerifyInit /\ [][Receive]_verifyVars

-----------------------------------------------------------------------------
(* What hosts learn, by RFC 4861 section 6.3.4 and the RFCs of the         *)
(* options: parameters, each with the value heard last.                    *)
Facts(o) ==
  CASE o.kind = "pi" -> {<<<<"preferred", o.prefix>>, o.preferred>>,
                         <<<<"valid", o.prefix>>, o.valid>>,
                         <<<<"onlink", o.prefix>>, o.onlink>>,
                         <<<<"autonomous", o.prefix>>, o.autonomous>>}
    [] o.kind = "pref64" -> {<<<<"pref64", o.prefix>>, o.lifetime>>}
    [] o.kind = "ri" -> {<<<<"route", o.prefix, o.preference>>, o.lifetime>>}
    [] o.kind \in {"rdnss", "dnssl"} ->
         {<<<<o.kind, o.names[i]>>, o.lifetime>> : i \in DOMAIN o.names}
    [] o.kind \in {"mtu", "cp"} -> {<<<<o.kind>>, o.value>>}

BaseFacts(b) ==
  {<<<<"hop">>, b.hop>>, <<<<"managed">>, b.managed>>,
   <<<<"other">>, b.other>>}
  \cup {f \in {<<<<"reachable">>, b.reachable>>, <<<<"retrans">>, b.retrans>>} :
          f[2] # 0}

(* What an RA says, in its order.                                          *)
Said(ra) ==
  <<BaseFacts(ra.base)>> \o [i \in DOMAIN ra.opts |-> Facts(ra.opts[i].v)]

(* The facts that none later is about the same parameter as.               *)
SaidLast(said) ==
  UNION {{f \in said[i] : \A j \in (i + 1)..Len(said) :
                            \A g \in said[j] : g[1] # f[1]} :
           i \in DOMAIN said}

(* From the first message, then the second.                                *)
Learned(a, b) == SaidLast(Said(a) \o Said(b))

(* The parameters that no check of verifyRAs compares: NAT64 prefixes and  *)
(* the flags of a prefix.                                                  *)
NotCompared == {"pref64", "onlink", "autonomous"}

(* RAs whose check reports nothing can leave hosts in a state that depends *)
(* on which of the two routers they hear last, but only in the parameters  *)
(* that no check compares: of every other parameter verifyRAs misses no    *)
(* conflict, in whatever order and however often the options appear.  (Of  *)
(* MTUs and captive portals it misses none because it reports equal ones   *)
(* too.)                                                                   *)
MissesOnlyNotCompared ==
  reported = {} =>
    \A m \in got :
      \A f \in (Learned(want, m) \ Learned(m, want))
                \cup (Learned(m, want) \ Learned(want, m)) :
        f[1][1] \in NotCompared

(* The two routers report the same fields of each other: an inconsistency  *)
(* is seen from both sides.                                                *)
Symmetric ==
  \A m \in got : reported = verifyRAs(m, want)

(* A prefix or a route is named at most once, as parsePlugins ensures for  *)
(* the ones configured explicitly.                                         *)
NamedOnce(opts) ==
  \A i, j \in DOMAIN opts :
    /\ i # j
    /\ opts[i].v.kind = opts[j].v.kind
    /\ opts[i].v.kind \in {"pi", "ri"}
    => opts[i].v.prefix # opts[j].v.prefix

(* A router with the same configuration gives rise to no problem, but for  *)
(* an MTU and a captive portal: of those the code compares pointers and    *)
(* reports them always.  All other checks compare what is pointed to.      *)
TwinAgrees ==
  \A m \in got : Contents(want) = Contents(m) /\ NamedOnce(want.opts)
    => \A p \in reported : p.field \in {"mtu", "captive_portal"}
=============================================================================
