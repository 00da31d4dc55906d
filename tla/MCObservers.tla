---------------------------- MODULE MCObservers -----------------------------
(* Configurations for Observers: every kind of plugin and of interface,    *)
(* with the interface that advertises first and last.                      *)
EXTENDS Observers

Iface(mode, plugins) ==
  [mode |-> mode, unicast |-> FALSE, plugins |-> plugins]

SomeConfigs ==
  {<<Iface("advertise", <<"prefix", "static", "rdnss">>), Iface("monitor", <<>>)>>,
   <<Iface("idle", <<>>), Iface("advertise", <<"deprecated", "pref64">>)>>,
   <<Iface("advertise", <<"prefix", "explicitPrefix">>)>>,
   <<Iface("advertise", <<"route", "explicitRoute">>)>>,
   <<Iface("advertise", <<"dnssl", "dnssl">>)>>,
   <<[Iface("advertise", <<"rdnss", "rdnss">>) EXCEPT !.unicast = TRUE]>>,
   <<Iface("advertise", <<"static">>), Iface("advertise", <<"rdnss">>)>>}
=============================================================================
