------------------------------ MODULE Discovery ------------------------------
(***************************************************************************)
(* How the backend keeps track of cameras whose addresses change: the      *)
(* sweeps of discovery.go, the registry they write, and relay.go's session *)
(* of one watched camera, which dials what the registry says and writes    *)
(* it, too.                                                                *)
(*                                                                         *)
(* A sweep is a feeder, a pool of workers and a goroutine that closes the  *)
(* results' channel; the caller of Scan collects.  The channels have no    *)
(* buffer, so a send and its receive are one step.  A registry call is one *)
(* step under its lock.  The network is external: while it changes, an     *)
(* address can pass from one camera to another and any probe or dial may   *)
(* fail.                                                                   *)
(***************************************************************************)
EXTENDS Integers, Sequences

CONSTANTS
  Networks,     \* scanNetworks: a sequence of [base, total], total = 2^(32 - prefix)
  Cameras,      \* the MACs on the network
  Watched,      \* the one whose stream somebody watches
  Nowhere,      \* no address
  Nobody,       \* no camera
  Workers,      \* Settings.Workers goroutines
  MoveBound     \* bound: how often addresses change

ASSUME NetworksAssumption == Networks \in Seq([base: Nat, total: Nat \ {0}])
ASSUME CamerasAssumption == Watched \in Cameras /\ Nobody \notin Cameras
ASSUME NowhereAssumption == Nowhere \notin Nat
ASSUME WorkersAssumption == Workers # {}     \* normalizeSettings
ASSUME BoundAssumption == MoveBound \in Nat

\* forEachHost: the network and broadcast addresses are left out, if there are any.
Offsets(n) == IF n.total > 2 THEN 1..(n.total - 2) ELSE 0..(n.total - 1)

\* The hosts of a sweep, each a network and an offset in it, and where they are.
Sweep == UNION {{k} \X Offsets(Networks[k]) : k \in DOMAIN Networks}
Address(h) == Networks[h[1]].base + h[2]
Addresses == {Address(h) : h \in Sweep}

\* The order of the feeder's loops: network by network, offset by offset.
FirstOf(k) == <<k, IF <<k, 0>> \in Sweep THEN 0 ELSE 1>>
After(h) == IF <<h[1], h[2] + 1>> \in Sweep THEN <<h[1], h[2] + 1>> ELSE FirstOf(h[1] + 1)

Leases ==                         \* one camera at an address
  {f \in [Cameras -> Addresses \cup {Nowhere}] :
     \A c, d \in Cameras : f[c] = f[d] /\ f[c] # Nowhere => c = d}

Closed == <<0, 0>>                \* ips is closed

VARIABLES
  at,           \* external: the address each camera has
  moves,        \* external: changes still to come
  done,         \* ctx is done
  run,          \* Run: "due" at Scan's entry, "range" in its loop over found, "wait" for
                \* the interval, or "ended"
  next,         \* the feeder: the next host, past the last one, or Closed
  orphan,       \* a feeder of an earlier sweep still runs
  worker,       \* where each worker is: "off", "idle" at ips, "probe", "send" to found
  host,         \* the address it was given
  camera,       \* what answered there
  found_open,   \* found is not closed
  collected,    \* the collector's observation, not yet in the registry
  registry,     \* Registry.cameras: the address of each MAC
  session,      \* relay.go's session: "lookup", "dial", "hello" or "stream"
  dialled,      \* the address it read
  peer,         \* the camera its connection ends at
  probed,       \* history: the hosts this sweep has handed out
  owed          \* history: the observations of this sweep not yet in the registry

lan == <<at, moves>>
scan == <<next, orphan, worker, host, camera, found_open>>
relay == <<session, dialled, peer>>
history == <<probed, owed>>
discovery_vars == <<lan, done, run, scan, collected, registry, relay, history>>

NoObservation == <<Nobody, Nowhere>>

DiscoveryTypeOK ==
  /\ at \in [Cameras -> Addresses \cup {Nowhere}]
  /\ moves \in 0..MoveBound
  /\ done \in BOOLEAN
  /\ run \in {"due", "range", "wait", "ended"}
  /\ next \in Nat \X Nat
  /\ orphan \in BOOLEAN
  /\ worker \in [Workers -> {"off", "idle", "probe", "send"}]
  /\ host \in [Workers -> Addresses \cup {Nowhere}]
  /\ camera \in [Workers -> Cameras \cup {Nobody}]
  /\ found_open \in BOOLEAN
  /\ collected \in (Cameras \X Addresses) \cup {NoObservation}
  /\ registry \in [Cameras -> Addresses \cup {Nowhere}]
  /\ session \in {"lookup", "dial", "hello", "stream"}
  /\ dialled \in Addresses \cup {Nowhere}
  /\ peer \in Cameras \cup {Nobody}
  /\ probed \subseteq Sweep
  /\ owed \subseteq Cameras \X Addresses

DiscoveryInit ==
  /\ at \in Leases
  /\ moves = MoveBound
  /\ done = FALSE
  /\ run = "due"
  /\ next = Closed /\ orphan = FALSE
  /\ worker = [w \in Workers |-> "off"]
  /\ host = [w \in Workers |-> Nowhere]
  /\ camera = [w \in Workers |-> Nobody]
  /\ found_open = FALSE
  /\ collected = NoObservation
  /\ registry = [c \in Cameras |-> Nowhere]
  /\ session = "lookup" /\ dialled = Nowhere /\ peer = Nobody
  /\ probed = {} /\ owed = {}

-----------------------------------------------------------------------------
(* The network, and the signal that ends the process.                      *)

Quiet == moves = 0

\* Cameras restart, come and go, and are leased other addresses.
Renumber ==
  /\ moves > 0
  /\ at' \in Leases \ {at}
  /\ moves' = moves - 1
  /\ UNCHANGED <<done, run, scan, collected, registry, relay, history>>

Cancel ==
  /\ ~done
  /\ done' = TRUE
  /\ UNCHANGED <<lan, run, scan, collected, registry, relay, history>>

-----------------------------------------------------------------------------
(* Run, and Scan up to its loop.                                           *)

\* The token is always there for Scan: nobody else scans.
BeginScan ==
  /\ run = "due"
  /\ run' = "range"
  /\ next' = FirstOf(1)
  /\ orphan' = (orphan \/ next # Closed)
  /\ worker' = [w \in Workers |-> "idle"]
  /\ found_open' = TRUE
  /\ UNCHANGED <<lan, done, host, camera, collected, registry, relay, history>>

\* A done context, no network interface, or an error reading them.
SkipScan ==
  /\ run = "due"
  /\ done \/ ~Quiet
  /\ run' = "wait"
  /\ UNCHANGED <<lan, done, scan, collected, registry, relay, history>>

IntervalElapses ==
  /\ run = "wait"
  /\ run' = "due"
  /\ UNCHANGED <<lan, done, scan, collected, registry, relay, history>>

RunEnds ==
  /\ run = "wait" /\ done
  /\ run' = "ended"
  /\ UNCHANGED <<lan, done, scan, collected, registry, relay, history>>

-----------------------------------------------------------------------------
(* The feeder.                                                             *)

\* ips <- ip, taken by a worker.
Feed(w) ==
  /\ next \in Sweep
  /\ worker[w] = "idle"
  /\ worker' = [worker EXCEPT ![w] = "probe"]
  /\ host' = [host EXCEPT ![w] = Address(next)]
  /\ next' = After(next)
  /\ probed' = probed \cup {next}
  /\ UNCHANGED <<lan, done, run, orphan, camera, found_open, collected, registry, relay, owed>>

FeederBlind == FALSE              \* fault
FeederNotices == done

\* The last host was taken, or the context is done.
FeederEnds ==
  /\ next # Closed
  /\ next \notin Sweep \/ FeederNotices
  /\ next' = Closed
  /\ UNCHANGED <<lan, done, run, orphan, worker, host, camera, found_open, collected,
                 registry, relay, history>>

OrphanEnds ==
  /\ orphan /\ FeederNotices
  /\ orphan' = FALSE
  /\ UNCHANGED <<lan, done, run, next, worker, host, camera, found_open, collected,
                 registry, relay, history>>

-----------------------------------------------------------------------------
(* The workers.                                                            *)

\* Its variables go out of scope.
Forget(w) ==
  /\ host' = [host EXCEPT ![w] = Nowhere]
  /\ camera' = [camera EXCEPT ![w] = Nobody]

Answers(w) ==
  /\ worker[w] = "probe"
  /\ \E c \in Cameras :
       /\ at[c] = host[w]
       /\ camera' = [camera EXCEPT ![w] = c]
       /\ owed' = owed \cup {<<c, host[w]>>}
  /\ worker' = [worker EXCEPT ![w] = "send"]
  /\ UNCHANGED <<lan, done, run, next, orphan, host, found_open, collected, registry,
                 relay, probed>>

Unanswered(w) == done \/ ~Quiet \/ \A c \in Cameras : at[c] # host[w]

FailsForGood(w) ==                \* fault: return instead of continue
  /\ worker[w] = "probe" /\ Unanswered(w)
  /\ worker' = [worker EXCEPT ![w] = "off"]
  /\ host' = [host EXCEPT ![w] = Nowhere]
  /\ UNCHANGED <<lan, done, run, next, orphan, camera, found_open, collected, registry,
                 relay, history>>

\* Nothing there, no camera, a time-out: on to the next host.
Fails(w) ==
  /\ worker[w] = "probe" /\ Unanswered(w)
  /\ worker' = [worker EXCEPT ![w] = "idle"]
  /\ host' = [host EXCEPT ![w] = Nowhere]
  /\ UNCHANGED <<lan, done, run, next, orphan, camera, found_open, collected, registry,
                 relay, history>>

WorkerEnds(w) ==
  /\ \/ worker[w] = "idle" /\ next = Closed
     \/ worker[w] = "send" /\ done
  /\ worker' = [worker EXCEPT ![w] = "off"]
  /\ Forget(w)
  /\ UNCHANGED <<lan, done, run, next, orphan, found_open, collected, registry, relay,
                 history>>

\* workers.Wait has returned.
CloseFound ==
  /\ found_open
  /\ \A w \in Workers : worker[w] = "off"
  /\ found_open' = FALSE
  /\ UNCHANGED <<lan, done, run, next, orphan, worker, host, camera, collected, registry,
                 relay, history>>

-----------------------------------------------------------------------------
(* The collector: Scan's loop.                                             *)

Collect(w) ==
  /\ run = "range" /\ collected = NoObservation
  /\ worker[w] = "send"
  /\ worker' = [worker EXCEPT ![w] = "idle"]
  /\ collected' = <<camera[w], host[w]>>
  /\ Forget(w)
  /\ UNCHANGED <<lan, done, run, next, orphan, found_open, registry, relay, history>>

UpsertNew(c, a) ==                \* fault: the first address stays
  registry' = IF registry[c] = Nowhere THEN [registry EXCEPT ![c] = a] ELSE registry
Upsert(c, a) == registry' = [registry EXCEPT ![c] = a]

RegisterFound ==
  /\ collected # NoObservation
  /\ Upsert(collected[1], collected[2])
  /\ owed' = owed \ {collected}
  /\ collected' = NoObservation
  /\ UNCHANGED <<lan, done, run, scan, relay, probed>>

ScanReturns ==
  /\ run = "range" /\ collected = NoObservation /\ ~found_open
  /\ run' = "wait"
  /\ probed' = {} /\ owed' = {}
  /\ UNCHANGED <<lan, done, scan, collected, registry, relay>>

-----------------------------------------------------------------------------
(* relay.go's session of the watched camera.  It is claimed once the       *)
(* camera is registered, and held.                                         *)

Lookup ==
  /\ session = "lookup"
  /\ registry[Watched] # Nowhere
  /\ dialled' = registry[Watched]
  /\ session' = "dial"
  /\ UNCHANGED <<lan, done, run, scan, collected, registry, peer, history>>

SessionDials ==
  /\ session = "dial"
  /\ \E c \in Cameras : at[c] = dialled /\ peer' = c
  /\ session' = "hello"
  /\ UNCHANGED <<lan, done, run, scan, collected, registry, dialled, history>>

SessionDialFails ==
  /\ session = "dial"
  /\ ~Quiet \/ \A c \in Cameras : at[c] # dialled
  /\ session' = "lookup" /\ dialled' = Nowhere
  /\ UNCHANGED <<lan, done, run, scan, collected, registry, peer, history>>

Hangup ==
  /\ session' = "lookup" /\ dialled' = Nowhere /\ peer' = Nobody
  /\ UNCHANGED <<lan, done, run, scan, collected, registry, history>>

\* The hello names the camera that was asked for, and refreshes its entry.
HelloRight ==
  /\ session = "hello" /\ peer = Watched
  /\ Upsert(Watched, dialled)
  /\ session' = "stream"
  /\ UNCHANGED <<lan, done, run, scan, collected, dialled, peer, history>>

HelloWrong == session = "hello" /\ peer # Watched /\ Hangup

\* A read fails: the camera is no longer where it was.
StreamFails ==
  /\ session \in {"hello", "stream"}
  /\ at[peer] # dialled
  /\ Hangup

-----------------------------------------------------------------------------
Feeder == (\E w \in Workers : Feed(w)) \/ FeederEnds
Worker(w) == Answers(w) \/ Fails(w) \/ WorkerEnds(w)
Collector == (\E w \in Workers : Collect(w)) \/ RegisterFound \/ ScanReturns
Session == Lookup \/ SessionDials \/ SessionDialFails \/ HelloRight \/ HelloWrong \/ StreamFails

DiscoveryNext ==
  \/ Renumber \/ Cancel
  \/ BeginScan \/ SkipScan \/ IntervalElapses \/ RunEnds
  \/ Feeder \/ OrphanEnds \/ CloseFound \/ Collector
  \/ \E w \in Workers : Worker(w)
  \/ Session

DiscoverySpec == DiscoveryInit /\ [][DiscoveryNext]_discovery_vars

\* Goroutines that can go on do.  Of a tick and a done context that are both
\* ready, select takes either, so the context is taken in the end.
DiscoveryFairSpec ==
  /\ DiscoverySpec
  /\ WF_discovery_vars(BeginScan \/ SkipScan)
  /\ WF_discovery_vars(IntervalElapses)
  /\ SF_discovery_vars(RunEnds)
  /\ WF_discovery_vars(Feeder) /\ WF_discovery_vars(OrphanEnds)
  /\ \A w \in Workers : WF_discovery_vars(Worker(w))
  /\ WF_discovery_vars(CloseFound) /\ WF_discovery_vars(Collector)
  /\ WF_discovery_vars(Session)

-----------------------------------------------------------------------------
(* Properties                                                              *)

\* A sweep nobody cancelled has probed every host of every network when Scan
\* returns, and every camera that answered is in the registry: no failing
\* probe, no early close of a channel loses one (discovery.go, Scan).
NothingMissed ==
  run = "range" /\ collected = NoObservation /\ ~found_open /\ ~done
    => probed = Sweep /\ owed = {}

\* Scan returns with its goroutines gone: the workers and the one that closes
\* found always, the feeder unless the context is done, when it is about to notice
\* (discovery.go, Scan: ips and found are closed by those who send on them).
ScanLeavesNothing ==
  run # "range" =>
    /\ ~found_open
    /\ \A w \in Workers : worker[w] = "off"
    /\ ~done => next = Closed /\ ~orphan

\* Strengthenings, for the proofs.  An answer has a camera and an address; without a
\* done context the feeder has handed out what lies before the next host, a worker
\* only ends once ips is closed, and what is owed is on its way to the registry.
AnswersHeld ==
  /\ \A w \in Workers :
       /\ worker[w] \in {"probe", "send"} => host[w] \in Addresses
       /\ worker[w] = "send" => camera[w] \in Cameras
  /\ session # "lookup" => dialled \in Addresses

Before(g, h) == g[1] < h[1] \/ (g[1] = h[1] /\ g[2] < h[2])

SweptSoFar ==
  run = "range" /\ ~done =>
    IF next = Closed THEN probed = Sweep
    ELSE /\ next \in Sweep \/ next[1] > Len(Networks)
         /\ probed = {h \in Sweep : Before(h, next)}

WorkersServe ==
  run = "range" /\ ~done /\ next # Closed => \A w \in Workers : worker[w] # "off"

FoundServed == ~found_open => \A w \in Workers : worker[w] = "off"

OwedHeld ==
  ~done => \A o \in owed :
    o = collected \/ \E w \in Workers : worker[w] = "send" /\ o = <<camera[w], host[w]>>

BetweenScans ==
  run # "range" => collected = NoObservation /\ probed = {} /\ owed = {}

SweepInv ==
  /\ DiscoveryTypeOK /\ AnswersHeld
  /\ SweptSoFar /\ WorkersServe /\ FoundServed /\ OwedHeld
  /\ BetweenScans /\ ScanLeavesNothing /\ (orphan => done)

\* A done context ends Run and every goroutine of every sweep, wherever they
\* are: none stays behind blocked on a channel nobody serves.
ScannerStops ==
  done ~> /\ run = "ended"
          /\ next = Closed /\ ~orphan
          /\ \A w \in Workers : worker[w] = "off"

\* Once the network is quiet the registry settles on where each camera is, and
\* the watched one streams: neither an answer collected late, nor the relay's
\* own refresh, nor an address that now belongs to another camera keeps it away
\* (discovery.go: an IP is only the most recently observed address).
Settled ==
  /\ \A c \in Cameras : at[c] # Nowhere => registry[c] = at[c]
  /\ at[Watched] # Nowhere => session = "stream" /\ peer = Watched /\ dialled = at[Watched]
Settles == <>[](Quiet /\ ~done) => <>[]Settled

\* No observation or connection in flight is older than the leases of now.
NothingStale ==
  /\ \A w \in Workers : worker[w] = "send" => at[camera[w]] = host[w]
  /\ collected # NoObservation => at[collected[1]] = collected[2]

\* Settled is where it stays: on a quiet network, with nothing stale in flight, no
\* sweep, hello or lost stream undoes it, the context done or not.
SettledStays ==
  [][Quiet /\ Settled /\ NothingStale => (Quiet /\ Settled /\ NothingStale)']_discovery_vars
=============================================================================
