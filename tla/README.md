# CoreRAD in TLA+

CoreRAD is an IPv6 router advertisement daemon. Its difficulty is not in any one
function but in how its goroutines share contexts, bounded channels, timers and a
network interface that comes and goes. This directory models that part of it, and
the pure decisions the rest depends on (which configurations are accepted, what an
RA contains, when two routers disagree). TLC checks the models on small instances;
TLAPS proves the safety properties for all values of the constants.

Paths below are relative to the repository (`internal/...`).

## 1. The system and its parts

`cmd/corerad` parses a file (`internal/config`), builds one task per interface
(an Advertiser or a Monitor), the network state watcher, the debug HTTP server and
the signal task, and calls `Server.Serve`, which runs them in one errgroup: the
first error, or a signal, cancels the context all of them share.

| Part | State | Operations | Interacts with | What is hard |
|---|---|---|---|---|
| Server, `corerad/server.go` | results of tasks, Ready channels, sd_notify | `Serve`, `httpTask`, readiness goroutines | all tasks, by the context and Ready | retries that close a channel, failure of one task of several, readiness collected outside the errgroup |
| Signal task, `server.go` | terminator | `Run`: select, set, cancel | Advertisers read the terminator after the cancelation | the order of set and cancel |
| Advertiser, `corerad/advertise.go` | `ipC`, `errC`, errgroup, schedgroup, last multicast | `Run`, `advertise`, `schedule`, `multicast`, `handle`, `sendWorker`, `shutdown` | Dialer, Listener, watcher's channel, terminator | four goroutines and any number of workers, two producers on a bounded channel, shutdown in every state |
| Listener, `corerad/listener.go` | retry counter, interrupter | `Listen`, `receiveRetry` | callback of Advertiser or Monitor | a goroutine that forces a blocked read to return; deferred calls |
| Link state watcher goroutine, `server.go` | – | `linkStateWatcher` | channel of the network state watcher, which outlives an incarnation | a change from an earlier incarnation |
| Monitor, `corerad/monitor.go` | errgroup | `Run`, `monitor`, `handle` | Dialer, Listener | must end with an error or on cancelation, never quietly |
| Dialer, `system/dialer.go` | connection, autoconfiguration switch | `Dial`, `init`, `dial`, `done`, `setAutoconf`, `restore` | runs the closures of Advertiser and Monitor | reconnects, retries, best-effort cleanup, a setting read back at each reconnect |
| Network state watcher, `netstate` | subscriptions and their channels | `Subscribe`, `Watch`, `process`, `notify` | every Advertiser and Monitor | full channels, closing while others select |
| RA consistency check, `corerad/verify.go` | none | `verifyRAs` | Advertiser's `handle` | pairs of lists of options |
| Configuration, `config` | none | `Parse` and below | everything | limits, rounding, names that clash |
| Plugins and RA generation, `plugin`, `config` | prepared functions | `Prepare`, `Apply`, `RouterAdvertisement` | Advertiser, HTTP handler, metrics | addresses and routes that change, lifetimes that count down |
| Addresses and routes, `system/addresser_linux.go` | none | `AddressesByIndex`, `LoopbackRoutes` | plugins | an index that is gone, messages taken for broken ones |
| Debug HTTP handler, `crhttp` | none | `interfaces` | plugins | called before a plugin is prepared |
| Metrics, `corerad/metrics.go` | series | `constScrape`, `collectMetrics` | plugins | state read in several steps, panics outside the HTTP server's reach |

What makes each correct: the server reports READY only when all have started, ends
when canceled and hides no failure; the Advertiser answers every request, never
stops quietly, and withdraws the default route exactly when the process terminates;
the Dialer leaves the interface as the user had it; the watcher never lets a
subscriber miss that something changed; the check of RAs misses no conflict in what it
compares; what the parser accepts the other parts can work with; and the debug server
and the metrics can look at all this at any time without failing for no reason, and
show every interface in its place.

`PROJECT.json` lists the hazards of the code line by line, with the properties that
would catch each one going wrong.

## 2. Modules

| Module | Models | Used by |
|---|---|---|
| `SignalTask` | `signalTask.Run`, the terminator, and the context's cause | `Server`, `Advertiser` (INSTANCE) |
| `Listener` | `Listen`, its interrupter, `receiveRetry` | `Advertiser`, `Monitor` (INSTANCE) |
| `LinkStateWatcher` | `linkStateWatcher` and the channel it reads | `Advertiser`, `Monitor` (INSTANCE) |
| `Dialer` | `Dial` with an arbitrary function `fn`; also the abstract specification of a task | `AdvertiserTask`, `Monitor` (INSTANCE, refinement) |
| `Advertiser` | one incarnation of the closure that Advertiser.Run gives to `Dial` | `AdvertiserTask` (EXTENDS) |
| `AdvertiserTask` | the Advertiser under `Dial` over all incarnations | |
| `Monitor` | the Monitor under `Dial` | |
| `RATiming` | the times of multicast RAs: `schedule`, `multicast`, `multicastDelay` | |
| `Watcher`, `MCWatcher` | `netstate.Watcher` | |
| `Server` | `Serve`, `httpTask`, `watcherTask`, readiness | |
| `VerifyRA`, `MCVerifyRA` | `verifyRAs` | |
| `ConfigParse` | parsing a stanza and all its plugins, as operators | `Config` (EXTENDS) |
| `Config` | `Parse` over a file of stanzas | `BuildRA` (EXTENDS) |
| `BuildRA`, `MCBuildRA` | the daemon from the file to the RA: `Parse`, `BuildTasks`, the plugins, `RouterAdvertisement`, the addresser, `packRA` | |
| `Observers`, `MCObservers` | `interfaces` of the HTTP handler and `constScrape` of the metrics, step by step, beside Advertisers that dial and prepare | |
| `DialerProofs` | theorems about `Dialer` | `AdvertiserProofs`, `MonitorProofs` (INSTANCE) |
| `AdvertiserProofs` | theorems about `Advertiser` and `AdvertiserTask` | |
| `MonitorProofs`, `WatcherProofs`, `ServerProofs`, `ObserversProofs` | theorems about the module of that name | |
| `RAProofs` | theorems about `RATiming` and `VerifyRA` | |
| `BuildProofs` | theorems about `ConfigParse`, `Config` and `BuildRA` | |

Mutated forms of some definitions (`EgWaitLinkChange`, `ScheduleRACoalesced`, ...)
stand next to the originals. They belong to no specification; each is a plausible
mistake that makes one property fail, which is how we know the property can.

### How state and actions correspond to the code

*Program counters.* A goroutine is a variable with the place it is at (`main`,
`sched`, `mcast`, `lpc`, `wpc`, `spc`, `dpc`, `hpc`); an action is the code between
two points where another goroutine can be observed: a channel operation, a read of
the context, a system call. `main` is Run's closure and has the errgroup's Wait in
`EgWait`; `EgReturn` keeps the first error, and `EgCtx` is the errgroup's context.

*Channels.* `ipC` is a sequence with a capacity. `errC` is unbuffered, so a worker
that failed waits in `failed` until `ScheduleErr` receives. `watchC` is a count of
changes and a flag (all changes it carries are LinkDown). `ready` is a closed Ready
channel.

*schedgroup* is external: `pending` are its delayed tasks, `Dispatch` starts a due
worker, and once the context is canceled its monitor goroutine stops at some point
(`SchedgroupStops`); Wait does not join workers that have started.

*Errors* are kinds: the classification in `Dial` (system call, permission, link
change, not ready, exhausted retries, other) is all that decides what happens.
Formatting an error with `%v` loses its kind, so the failures of `Prepare` and of
the initial RA are always "other".

*Incarnations.* `AdvertiserTask` starts each with fresh goroutines (`Restart`) and
the channel of link changes it inherited. Workers of an earlier incarnation can only
fail on their closed connection and stay blocked; they are dropped there.

*Crashes.* In `Dialer` the process may end at any step (`ProcessRestarts`) and be
started again by its supervisor. Nothing is persisted; what survives is what Dial has
changed in the kernel, the autoconfiguration switch, and `lost` records that a value
that was to be restored is gone. The compositions follow one life of the process.

*Requests.* `Observers` takes a request apart: the read of each switch, the `Apply` of
each plugin and the collection are steps of their own, between which an Advertiser
may dial and prepare the same plugins one by one and the kernel may remove an
interface, create it again under another index, or change its addresses and the routes
on loopback. Of an RA it keeps which options give the same series in a scrape; what
they hold is left to `BuildRA`, in which the kernel answers every request and an RA is
built at once. Both have all the ways in which `Apply` fails (an index that is gone, no
address to name, a default route on loopback), and `Observers` also what a plugin does
before it is prepared. One request at a time suffices, because requests only read.
In `BuildRA` an automatic route takes the routes and then the addresses from one
state; the two change independently of each other, so that every pair of answers two
reads one after the other can get is also the pair of some state.

*Time.* `Advertiser` has no clock: a delayed RA is due at any time. `RATiming` has
nothing but the clock, in whole seconds and relative to now, which makes its state
space finite for unbounded time. `BuildRA` has an absolute clock because deprecated
lifetimes have absolute deadlines.

*Data.* An address has three bits, a /64 is a prefix of two, durations are
milliseconds, `ndp.Infinity` is a number beyond the others. The `0.33` and `0.75` of
the interval bounds are exact fractions; the code computes them in floating point
and truncates to a second, and the instances include the limits where the two could
part. An address carries the kernel's flags, its scope and whether it looks like an
EUI-64 address. In `VerifyRA` an option is a pointer
(an allocation and its contents), because the code compares pointers in two places.
The options of an RA are kept by the plugin that added them, so that each can be
traced to its stanza. The loops whose result depends on what came before, that of
`RDNSS.current` and that of `pick`, are recursive functions over the elements seen so
far (`RDNSSBest`, `picked`), and the parser's over the names of a file keeps its map of
names seen; a sort is the choice of an ordered sequence of the set. A `Change` of the
network state watcher is a bitmask, and so a set of flags; `&` is their intersection.
The types of the inputs (`RawInterface`, `Address`, `Destination`, `Option`) say what
the files, the kernel and the link can bring; the instances are subsets of them.

## 3. Runs

`tlc -config <cfg> <module>`; the properties are the ones the cfg names.

| Run | Distinct states | Question |
|---|---|---|
| `Advertiser` | 220 000 | Does an incarnation lose or double a request (`RequestsConserved`), leave one unanswered while nothing is canceled (`RequestsAnswered`), or survive its cancelation (`ShutdownUnlessWedged`)? |
| `AdvertiserTask` | 1 960 000 | Over all incarnations, with both kinds of signal and link changes: is the Advertiser a function as `Dial` expects it (`RefinesDialer`), does it end quietly only when canceled (`CleanReturnOnlyOnCancel`), is there a final RA exactly on a terminal signal (`FinalRAIffTerminal`), and never a withdrawn route on a reload (`ZeroOnlyIfTerminal`)? |
| `Dialer` | 5 200 | With 50 attempts, all kinds of errors and restarts of the process: is the autoconfiguration switch the user's whenever `fn` is not running (`AutoconfRestored`) and never on when the user has it off (`NeverSwitchedOn`), is the connection given to `fn` open only for it (`ConnOpenOnlyForFn`, which is not about sockets a failed `dial` leaks), is nil returned only on cancelation (`NilOnlyOnCancel`), does cancelation end it (`CancelReturns`), and do the retries (`RetryEnds`)? |
| `Monitor` | 7 700 | Does the Monitor implement the Dialer's specification with its fairness (`ImplementsDialer`), and so stop when canceled? |
| `Watcher` | 46 500 | Does a subscriber with a full channel still notice that something changed (`NoChangeUnseen`), does Watch end quietly only when it was interrupted, also when a failing read and a cancelation race (`QuietOnlyIfInterrupted`), and do subscribers see their channels closed (`CancelClosesChannels`)? |
| `RATiming` | 5 800 | With the shortest intervals the parser allows, can solicitations at any instant put off the periodic RA (`GapBounded`)? |
| `Server` | 390 000 | Two interfaces, one of them an Advertiser that may be wedged, watcher, HTTP server with retries, signals: `ReadyClosedOnce`, `ReadyMeansAllStarted`, `NilOnlyOnSignal`, and `CancelEndsServe`, from which a wedged Advertiser is the only exception. |
| `VerifyRA` | 223 000 | Every pair of RAs with up to two options: if the check is silent, can what hosts learn depend on the order of the two RAs in anything but NAT64 prefixes and the flags of a prefix, which it does not compare (`MissesOnlyNotCompared`); do the routers see the same problems in each other (`Symmetric`), and does a twin agree (`TwinAgrees`)? |
| `BuildRA` | 49 000 | Files with values at and next to each limit, and names that clash: `IntervalUsable`, `LifetimeOutlastsGaps`, `Pref64LifetimeFits`, `OneTaskPerInterface`. For four of them, which have every kind of plugin, while addresses, routes, forwarding and time change: `LifetimesCountDown`, `OverlapOnlyMixed`, `AutoRoutesExact`, `BestServer` (against a reference order), `ServedOncePrepared`. |
| `Observers` | 798 000 | Seven configurations of one or two interfaces: does a request fail only for a reason that held while it was under way (`ServedUnlessTroubled`), panic once all Advertisers were initialized only on a default route on loopback or on PREF64 (`WarmPanicsOnlyOnRoute`), and report every interface once, in order and with an RA exactly if it advertises (`AnswerMatchesConfig`)? |
| `TimingSpacing` | violated | Are multicast RAs three seconds apart? |
| `MonitorDeaf` | violated | Does `Listen` return an error by itself? |

### Bounds

- `IpcCap = 1`: a channel of one is empty and full within one step of each other,
  which is what blocks a producer; more room only delays it. Two producers
  (`multicast` and the callback) compete for it.
- `MaxEvents = 1` in `Advertiser`: beyond the request `multicast` makes at its
  start there is one more, a solicitation (from a host or from the unspecified
  address) or a second round: enough to fill the channel while schedule is leaving.
  It is 0 in `AdvertiserTask`, whose questions are about the end of incarnations.
- `Retries = 1` in the Advertiser (a first timeout already exhausts it) and the
  code's 5 in the Monitor, where the listener is the main actor.
- `WatchCap = 1` where link changes matter: one change is pending or none. The
  liveness run of `Advertiser` has none, so that its state space stays small;
  `AdvertiserTask` has them.
- `Attempts = 50` as in the code for `Dialer`; fewer for the compositions, where
  running out of attempts is one more way for `Dial` to end, reached at any number.
- `RATiming`: the code's 3, 3 and 16, intervals of 3 to 4 seconds (the shortest
  accepted, where a delay of 3 seconds weighs most); 6 to 20 in `TimingSpacing`.
  `MaxDue = 3` solicited RAs at an instant. Time is unbounded.
- `Watcher`: channels of two and batches of two, so a batch can overflow a channel
  that is not full; three subscriptions, one with a mask of two flags, and changes of
  one flag each, as the operating system reports them.
- `BuildRA`: three bits have every relation two prefixes can have; two addresses come
  in either order, with every pair of kinds, which is what one turn of a loop over
  them compares (lists of any length are left to the proofs, `BuildBestServer` and
  `BuildOrderFree`); two hours in steps of one pass both deadlines of a deprecated
  prefix. Only the files in `Served` are followed beyond the parser: they have
  automatic and static prefixes and routes that an address may come to lie in.
- `Observers`: two interfaces are the fewest for which one is looked at while the
  other changes, and two indices are one more than an Advertiser was prepared with.
  The configurations have every kind of plugin and of interface, with the advertising
  one first and last, every pair of plugins that can give the same series, and one
  that is unicast-only.

Deadlock is checked in `RATiming`, `Observers` and `TimingSpacing`, which never end;
the other systems stop when the program does, or when a file is rejected.

### Fairness

Weak fairness for each goroutine, on the disjunction of the steps it can take by
itself: Go runs every runnable goroutine, and a timer that is set fires. Strong
fairness in one place, `RetryCanceled`: `init`'s select chooses at random between a
canceled context and a timer that is also ready, so it takes the cancelation at some
point of repeated tries. Nothing is assumed of the network, the link, signals, the
next tick or a subscriber's reads; a read with a deadline in the past returns, which
is why the listener's `ReadInterrupted` is fair and its other reads are not. In
`Dialer`, `fn` returns once canceled; `Monitor` discharges that by refining
`Dialer!FairSpec`. A restart of the process is never forced.
`AdvertiserTask` refines the safety part only, because of the exception in
`ShutdownUnlessWedged`. `Server` has the same exception: a canceled interface task
returns or, an Advertiser, becomes wedged (`IfaceWedges`) and never returns.

## 4. Proofs

All for arbitrary constants that satisfy the named assumption of the module.

*`DialerProofs`* (from `DialerAssumption`). `Inv` joins `TypeOK`, `SwitchSafe`,
`PrevSafe`, `ConnOpenOnlyForFn`, `NilOnlyOnCancel` and `NilPending`.
`AutoconfRestored` alone is not inductive: while `fn` runs it only says that `prev` is
the user's value, and `SwitchSafe` adds what the switch itself is in every state, so
that the next `setAutoconf` reads the right one; both excuse a value that was lost to
a refused restore or a crash. `NeverSwitchedOn` has no such excuse: `PrevSafe` says
that a remembered TRUE is the user's, which every restart and every refused restore
keeps because the switch they leave behind is at most what the user set
(`DialerNeverSwitchesOn`). `NilPending` says that a nil on its way through `done`
already implies a cancelation.

*`AdvertiserProofs`* (from `AdvertiserAssumption`).
- `AdvertiserTypeCorrect`: the counter of retries stays in range only because a read
  happens while a retry is left (`TriesLeft`), which is the strengthening.
- `AdvertiserCleanReturn` and `AdvertiserFinalRA` from `SafeInv`: schedule never
  ends by itself without an error, so an errgroup that ended without one was
  canceled from outside (`CancelKnown`), and whoever sees a cancelation by a signal
  also sees what signalTask recorded about it (`SignalKnown`).
- `AdvertiserConservesRequests`: inductive with the types, over lemmas that count
  the positions of a destination in a sequence under Append and Tail.
- `AdvertiserWedgedForever`: schedule is gone, so nothing drains `ipC`, and a producer
  in a send has no other step. That this happens in a running, canceled incarnation
  needs `ProducersOK` (the closure leaves `eg.Wait()` only after the producers have
  returned). `TaskNeverUnwedged` adds, with `ClosureInFn`, that `Dial` is inside `fn`
  from then on.
- `AdvertiserCanceledEnds`: see *Ends*.

*`ServerProofs`* (from `ServerAssumption`). `Inv` joins the types with what the HTTP
task's place says about its closes of readyC (`HttpInv`), what has to be ready
before a readiness goroutine ends (`ReadyInv`), and what the cause of the
cancelation says about the tasks' results (`CauseInv`). `ServerShutdownBounded` (see
*Ends*) counts the tasks, and is stated for finitely many interfaces, as a file has.

*`RAProofs`* (from `TimingAssumption` and `MessagesAssumption`).
- `TimingGapBounded` from `GapInv`: with nothing scheduled, the next unsolicited
  request comes within MaxInterval of the last RA and the last request is not younger
  than the last RA; with something scheduled, one of the RAs goes out within the limit
  whatever is requested meanwhile. This bounds the silence for every configuration by
  the longer of MaxInterval and `2 * minDelayBetweenRAs - 1`.
- `VerifySymmetric`, `VerifyTwinAgrees` and `VerifyMissesOnly`: RAs with any options,
  PREF64 and flags included, any number of them and in any order. The invariant is
  only that what is reported is the result of one check; the work is in what the check
  means. `PickSlots`: `pick` returns the options of a kind at increasing places that
  depend on the contents alone. `NoProblem` turns the silence of the check into
  agreement, option by option, and `LastOfTwo` says what a host has learned after two
  messages. The lifetimes of prefixes and routes agree because each pair that names
  the same one is compared; MTU and captive portal because two of them always raise a
  problem (the code compares pointers); the lists of servers and domains may name one
  more than once, so it takes the order of the places: what is said last of a name in
  one list is said last in the other, at the same place (`ListsConfirm`).

*`AdvertiserProofs`, the task* (from `TaskAssumption` too). `TaskInv` is the invariant
of one incarnation with `ZeroKnown` (a lifetime of zero was sent only after the
terminator was set) and `ResultKnown`; the steps of an incarnation keep it by the
lemmas above, `DialConnects` because a new one starts with nothing asked for.
`TaskRefinesDialer` maps every step to a step of `Dialer` or to a stutter, and
`TaskKeepsDialersPromises` carries the Dialer's theorems over: they are instantiated
with the task's variables, not proved again.

*`MonitorProofs`* (from `MonitorAssumption` and `MonitorDialAssumption`). The
refinement needs `ListenKnown`: a listener that has returned did so with an error or
because the errgroup was canceled, so the closure hands `Dial` a nil only on
cancelation. The safety part of `ImplementsDialer` follows, and with it the Dialer's
promises; `MonitorLeavesSwitch` is about a Monitor alone, which never touches
autoconfiguration. `InterruptOK` says that the interrupter of a listener has been woken
only by a cancelation of the closure's context; from it follows that a listener that
failed stays in its deferred `eg.Wait()` as long as there is none
(`MonitorDeafUntilCanceled`), and that one that is canceled returns
(`MonitorCanceledReturns`).

*`WatcherProofs`* (from `WatcherAssumption`). `Inv` adds to `NoChangeUnseen` and
`QuietOnlyIfInterrupted` that Watch has a result only on its way out (`ResultLast`)
and that channels are all open until its deferred function closes them (`ClosedLast`),
which is also why nothing is ever sent on a closed one. `BatchOK` bounds what is left
to be notified by the size of a netlink read, for `WatcherInterruptedEnds`.

*`ObserversProofs`* (from `ObserversAssumption`). None of the three properties is
inductive. `IndexInv` and `PreparedInv` say what an Advertiser that has advertised
has left behind in its plugins, and that the kernel's indices only grow, so that
preparing again for the same interface changes nothing a request could see. Of a
request under way, `RequestInv` says that it knows of all the trouble there is
(`Knowing`), that its report so far is that of the interfaces it has passed, and that
a series it has collected from an automatic plugin is known to clash if another plugin
gives it as well (`Going`, `SeriesOf`).

*`BuildProofs`* (from `ConfigAssumption`, `FilesAssumption` and `BuildAssumption`: the
width of an address, the types of files, addresses and routes, and that there are
finitely many routes). One invariant, `Inv`: what has been accepted so far satisfies
`Parsed`, the facts that parsing a stanza establishes; the names of all interfaces
accepted, and of those of the stanza in hand that the loop has passed, are in the map
of names seen, which is what makes them differ (`ConfigOneTask`); and the kernel's
state is of its type. The properties are about the RA that would be built in a state,
so the proofs are about operators:
- the parsers, one lemma each (`ParseInterface`, `ParsePlugins` and below);
- what a plugin adds, and where it is in the RA (`ApplyAllAt`, `OptsAt`);
- that `Sort` finds an ordered sequence of any finite set, which is a choice that has
  to be shown possible: elements by rank (`OrderedSeq`, `SortSorts`);
- that every covering route has one above it that no other covers (`Uncovered`), by a
  shortest one;
- the loop of `RDNSS.current` (`BestOfAll`): what is best after n addresses is
  preferred to all of them, although `betterRDNSS` asks its questions in an order of
  its own (`BetterPicks`);
- that the preference is total on distinct addresses (`BetterTotal`) and that the kernel
  lists an address once (`DistinctAddrs`, an invariant of its own). With `BestOfAll`
  there is one best candidate, so the result is a function of the set of addresses
  (`BuildOrderFree`).

*Loops.* The library's induction theorems cannot be used with these provers, but the
least counterexample can: the naturals are well-founded (`LeastExists`, `LeastNat`),
so a set of lengths for which a claim fails has a least one, and the turn before it
contradicts that. The same argument shows that the recursive function of a loop
exists at all (`TurnsExist`, `PickTurnsExist`).

*Ends.* A liveness property has a half that the prover can reach: that the goroutines
in question cannot keep themselves or each other going. It is stated as a measure
that every step lowers once the end has been asked for, and that is bounded by the
constants; what is left to fairness is that an enabled step is taken.

| Theorem | Once | every step of | lowers a measure of at most | half of |
|---|---|---|---|---|
| `AdvertiserCanceledEnds` | the incarnation is canceled | the closure, the goroutines it joins, `ipC` | `IpcCap + 19` | `ShutdownUnlessWedged` |
| `DialerRetryBounded` | `init` is in its retry loop | `Dial` | `Attempts` | `RetryEnds` |
| `MonitorCanceledReturns` | the closure is canceled | the listener | 4 | `ImplementsDialer` |
| `WatcherInterruptedEnds` | Watch is interrupted | Watch | `MaxBatch + 3` | `CancelClosesChannels` |
| `ServerShutdownBounded` | the context is canceled | the whole server | three for each task and 9 | `CancelEndsServe` |

In the Advertiser a message put on `ipC` weighs less than the producer's step that puts
it there and more than schedule's that takes it, which is why the capacity is in the
bound. `CancelReturns` has no such measure: `init`'s select may prefer its timer, dial,
run `fn` and come back any number of times, and only its random choice ends that.

Every invariant and every action property of the passing runs is a theorem. Only
model-checked: that under fairness these ends are reached, and requests answered
(`ShutdownUnlessWedged`, `RequestsAnswered`, `CancelReturns`, `RetryEnds`,
`CancelClosesChannels`, `CancelEndsServe`, the fairness in `ImplementsDialer`), because
liveness under fairness and ENABLED are beyond the prover.

## 5. Where the code and its comments part

Two disagreements have runs of their own.

- `TimingSpacing`: `schedule` delays a multicast RA by three seconds from its own
  request when another request came less than three seconds before. A request at 0
  that is delayed for this reason goes out at 3; one that comes at 3 finds the last
  request three seconds past, is not delayed, and goes out at 3 as well.
- `MonitorDeaf`: in `Listen`, the deferred `eg.Wait()` runs before the `cancel()`
  deferred earlier, and waits for the goroutine that only that cancel would wake. An
  error of a read stays inside `Listen` until the caller is canceled: the run finds
  it, and `MonitorDeafUntilCanceled` proves that nothing else gets it out.

The models show others, which the properties above are careful to state around:

- A send on `ipC` does not look at the context. If schedule has returned on the
  cancelation and the channel is full, the sender, and so `Run`, never returns:
  `Wedged` in `ShutdownUnlessWedged`, proved to be permanent
  (`AdvertiserWedgedForever`, `TaskNeverUnwedged`).
- A worker that is about to send when the context is canceled sends its ordinary RA
  after the final one (`WorkerSends` after `Shutdown`).
- A terminal signal during `Dial`'s retries ends the Advertiser with no incarnation
  to send a final RA (`RetryCanceled`).
- A permission error inside the retry loop is retried like any other
  (`RetryDialFails`).
- Messages with a wrong hop limit share the counter of retries with timeouts: five
  in a row end the listener (`ReadInvalid`).
- `checkMTUs` and `checkCaptivePortal` compare pointers, so equal options are
  reported (`TwinAgrees` leaves these two fields out).
- `verifyRAs` compares neither PREF64 options nor the flags of a prefix: routers that
  contradict each other there raise no problem (`MissesOnlyNotCompared`).
- With a maximum interval below nine seconds the automatic minimum is the maximum
  itself. A router lifetime may run out between two multicast RAs where the maximum is
  not whole seconds, because a delay is rounded past it, or the lifetime is below six
  seconds: with 4 seconds for both, an RA at 0 and a solicitation at 2 put the next
  one off to 5 (`LifetimeOutlastsGaps` is about the others). A unicast-only interface
  multicasts none at all.
- The automatic lifetime of a PREF64 option is computed from the truncated maximum
  interval, so that it covers up to three seconds less than three intervals: a maximum
  of 8.9 seconds gives 24 (`Pref64LifetimeFits`). The length of its prefix is not
  checked when it is parsed.
- An automatic prefix or route next to an explicit one passes `NoOverlap` and may
  appear in an RA twice (`OverlapOnlyMixed` says between which stanzas). In a scrape
  these are two series with the same labels, and so are DNS stanzas that name the same
  servers or domains: the registry then fails the whole scrape (reason "series" in
  `ServedUnlessTroubled`).
- `packOptions` panics on a PREF64 option, so `/_/api/interfaces` never answers where
  one is configured; a plugin that is not prepared yet panics too, in a scrape outside
  the HTTP server's recovery (`ServedOncePrepared`, `WarmPanicsOnlyOnRoute`).
- `routesByIndex` panics on a route without a destination, as a default route on
  loopback is listed (`unreachable default`): an automatic route then ends the daemon,
  when its RA is to be sent or in a scrape (`BadRoute`, `WarmPanicsOnlyOnRoute`).
- An HTTP server that stops of itself with an error waits for the cancelation before
  it returns: the debug server is not restarted, and nothing is said until shutdown
  (`ServeStops`).
- The comment in `constScrape` says that all information is generated before metrics
  are collected; the code collects interface by interface, so an error at the second
  leaves the series of the first (`collectMetrics` before `Fail`).
- After a crash the switch stays off and its value is lost (`lost` in
  `ProcessRestarts`).

## 6. Not modelled

Metrics that tasks set and forget (counters of messages and errors, the gauges of the
Monitor's `handle`): no part reads them. Logs, wording and the plugins' `String`. The
JSON layout, pprof and the banner of the HTTP server. Netlink sockets and sysctl
files: what they answer is the environment of `Dialer`, `BuildRA` and `Observers`.
TOML decoding and name resolution, which a file in `Config` says to succeed or fail;
flags that are copied from the file to the RA as they are. Command-line flags and
build information. The delays between `Dial`'s attempts and between `serve`'s: an
attempt may come at any time. The HTTP task is always configured. In `Observers`, an
error that ends the daemon (an RA that cannot be built when it is to be sent) ends
nothing: the Advertiser stays where it is; the values of the switches it reads are left
out. The Windows signals. The data race between
`Prepare` and `Apply` on a plugin's function pointers is an atomic assignment of one
word.

Four hazards stay without a property, because the code promises nothing there: the
order of an unjoined worker's RA and the final one, sockets that `dial` leaks,
ignored messages that use up the listener's retries, and a debug server that is not
restarted. The models have all four.

## 7. Plan

Done, in this order: the Advertiser with its listener, watcher goroutine and signal
task; Dialer; their composition and refinement; RATiming; Monitor; Watcher; Server;
VerifyRA; configuration and RA generation; the proofs of the Dialer, of one
incarnation of the Advertiser, of Server and of RATiming; restarts of the process in
`Dialer`; all plugins, the debug section and the addresser, with `Config` and
`BuildRA` composed; `Observers`; the proofs of the refinements of `Dialer`, of
`Watcher` and `Observers`, of the parser, of RA generation and of `VerifyRA`; the
measures behind the liveness properties, and that a wedged Advertiser and a deaf
Monitor stay so.

Next: compose `Server` with the `Dialer` as the specification of its interface tasks,
so that the fairness of canceled tasks and its exception, the wedged Advertiser, are
derived rather than stated, and prove that composition's safety from the theorems
about both.
