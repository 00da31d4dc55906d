------------------------------- MODULE Config -------------------------------
(***************************************************************************)
(* Parsing of the configuration file (Parse of internal/config/config.go): *)
(* a sequence of stanzas, each for one interface or a group of them, no    *)
(* interface more than once.  BuildRA goes on with the result.             *)
(***************************************************************************)
EXTENDS ConfigParse

CONSTANT
  Files       \* the files that may be given: whether a file is TOML with
              \* known keys only, its stanzas and its debug section

ASSUME FilesAssumption ==
  Files \subseteq [toml : BOOLEAN, stanzas : Seq(RawInterface),
                   debug : [address : STRING, prometheus : BOOLEAN]]

VARIABLES
  file,       \* the file
  stanza,     \* the stanza that is parsed next
  seen,       \* the names that have been seen
  ifis,       \* what the stanza before it parsed to, while its names are
  at,         \* checked, and which of them is next
  Interfaces, \* Config.Interfaces so far
  Debug,      \* Config.Debug
  status      \* "decode", "parse" a stanza, check its "names"; then "ok" or "err"

parseVars == <<file, stanza, seen, ifis, at, Interfaces, Debug, status>>

NoDebug == [address |-> "", prometheus |-> FALSE]

ParseInit ==
  /\ file \in Files
  /\ stanza = 1
  /\ seen = {} /\ ifis = <<>> /\ at = 1
  /\ Interfaces = <<>>
  /\ Debug = NoDebug
  /\ status = "decode"

(* Parse refuses a file that does not decode, has no interface, or names a *)
(* debug address that does not resolve.                                    *)
Readable(f) == f.toml /\ f.stanzas # <<>> /\ f.debug.address # "bad"

RejectFile ==
  /\ status = "decode" /\ ~Readable(file)
  /\ status' = "err"
  /\ UNCHANGED <<file, stanza, seen, ifis, at, Interfaces, Debug>>

(* Without an address the rest of the debug section is ignored.            *)
Decode ==
  /\ status = "decode" /\ Readable(file)
  /\ Debug' = IF file.debug.address = "" THEN NoDebug ELSE file.debug
  /\ status' = "parse"
  /\ UNCHANGED <<file, stanza, seen, ifis, at, Interfaces>>

Names(s) == [i \in DOMAIN s |-> s[i].name]

Pending == status = "parse" /\ stanza <= Len(file.stanzas)

(* The next stanza parses: its names come next.                            *)
ParseStanza ==
  /\ Pending
  /\ ifis' \in parseInterfaces(file.stanzas[stanza])
  /\ at' = 1
  /\ stanza' = stanza + 1
  /\ status' = "names"
  /\ UNCHANGED <<file, seen, Interfaces, Debug>>

RejectStanza ==
  /\ Pending
  /\ parseInterfaces(file.stanzas[stanza]) = {}
  /\ status' = "err"
  /\ UNCHANGED <<file, stanza, seen, ifis, at, Interfaces, Debug>>

Checking == status = "names" /\ at <= Len(ifis)

(* A check that takes a stanza for one interface and records one name.     *)
CheckFirstName ==
  /\ Checking
  /\ ifis[at].name \notin seen
  /\ seen' = IF at = 1 THEN seen \cup {ifis[at].name} ELSE seen
  /\ at' = at + 1
  /\ UNCHANGED <<file, stanza, ifis, Interfaces, Debug, status>>

(* The loop over the stanza's interfaces: a name that is new ...           *)
CheckName ==
  /\ Checking
  /\ ifis[at].name \notin seen
  /\ seen' = seen \cup {ifis[at].name}
  /\ at' = at + 1
  /\ UNCHANGED <<file, stanza, ifis, Interfaces, Debug, status>>

(* ... and one that is not.                                                *)
RejectName ==
  /\ Checking
  /\ ifis[at].name \in seen
  /\ status' = "err"
  /\ UNCHANGED <<file, stanza, seen, ifis, at, Interfaces, Debug>>

(* After the last of them, the interfaces are added.                       *)
AppendStanza ==
  /\ status = "names" /\ ~Checking
  /\ Interfaces' = Interfaces \o ifis
  /\ status' = "parse"
  /\ UNCHANGED <<file, stanza, seen, ifis, at, Debug>>

Accept ==
  /\ status = "parse" /\ ~Pending
  /\ status' = "ok"
  /\ UNCHANGED <<file, stanza, seen, ifis, at, Interfaces, Debug>>

Parse == \/ RejectFile \/ Decode \/ ParseStanza \/ RejectStanza
         \/ CheckName \/ RejectName \/ AppendStanza \/ Accept

-----------------------------------------------------------------------------
(* The delays multicastDelay can draw after the first rounds: anything in  *)
(* [min, max), or max if they are equal, rounded to a second.              *)
Delays(c) ==
  {Round(d) : d \in {c.min, (c.min + c.max) \div 2,
                     IF c.min = c.max THEN c.max ELSE c.max - 1}}

(* A request less than this after another one is delayed by as much.       *)
minDelayBetweenRAs == 3 * sec

(* How long hosts may go without a multicast RA: until the next one that   *)
(* was drawn, or, as schedule delays requests, less than twice             *)
(* minDelayBetweenRAs (GapBounded of RATiming).                            *)
Gaps(c) == Delays(c) \cup {2 * minDelayBetweenRAs}

Accepted == IF status = "ok" THEN ToSet(Interfaces) ELSE {}
Advertising == {c \in Accepted : c.mode = "advertise"}

(* No two tasks of an accepted configuration serve the same interface, not *)
(* through two stanzas and not through a group of names: two Advertisers   *)
(* on one interface would restore its autoconfiguration under each other.  *)
OneTaskPerInterface == status = "ok" => IsInjective(Names(Interfaces))

(* Every accepted configuration gives multicastDelay an interval it can    *)
(* draw from (Int63n panics unless min < max) and that is never zero.      *)
IntervalUsable ==
  \A c \in Advertising : 0 < c.min /\ c.min <= c.max

(* An interface that multicasts and calls itself a default router does so  *)
(* again before its lifetime is over, also when solicitations have its RA  *)
(* delayed.  The exceptions: a maximum that is not in whole seconds, as    *)
(* delays are rounded past it, and lifetimes below six seconds, which      *)
(* parseDefaultLifetime allows from four on and the delay may outlast.     *)
LifetimeOutlastsGaps ==
  \A c \in Advertising :
    c.lifetime >= 2 * minDelayBetweenRAs /\ c.max % sec = 0
      => \A d \in Gaps(c) : d <= c.lifetime

(* The lifetime of a PREF64 option fits its 13 bits in units of eight      *)
(* seconds, and covers three intervals; three seconds less at most where   *)
(* the interval is not in whole seconds (8.9s give 24s), because it is     *)
(* truncated first.  (The length of the prefix is not checked when it is   *)
(* parsed, and not covered here.)                                          *)
Pref64LifetimeFits ==
  \A c \in Advertising : \A i \in DOMAIN c.plugins.pref64 :
    LET lt == c.plugins.pref64[i].lifetime
    IN /\ lt % 8 = 0 /\ lt \div 8 < 2^13
       /\ lt * sec > 3 * (c.max - sec)
       /\ c.max % sec = 0 => lt * sec >= 3 * c.max
=============================================================================
