# TLA+ verification of the ESP32-CAM surveillance system

This directory holds specifications of the firmware (C on ESP-IDF,
`src/firmware/components`) and of the backend (Go, `src/backend`), the TLC
configurations that check them on small instances, and TLAPS proofs of what holds
for every value of the constants. `PROJECT.json` relates every definition to the
lines it models, every run to its properties, and every property to a fault in the
code that would break it.

    tlc -workers 2 -config CaptureQueue.cfg CaptureQueue.tla
    tlapm CaptureQueue_proofs.tla

## 1. The system

A camera joins the home Wi-Fi, serves one viewer on a WebSocket endpoint `/cams`, and
streams JPEG frames while told to. The backend finds the cameras on the local network,
connects to each camera that somebody watches, publishes its frames on an embedded
bus, and fans them out to any number of browsers. The frontend is a page of tiles.

### Firmware

The code runs in several FreeRTOS tasks: the capture task (`capture.c`), the stream task
(`stream.c`), the control task (`control.c`), the HTTP server's worker (`ws_server.c`,
`softap_handlers.c`), the esp_timer task (status timer, Wi-Fi backoff, LED, button) and
the default event loop (Wi-Fi, IP and health handlers). They share plain variables, C11
atomics, a ring with a mutex and a counting semaphore twice over, and one mutex around
the sink's dispatch.

| Component | State | Operations | What is hard | What makes it correct |
| --- | --- | --- | --- | --- |
| Capture queue (`capture.c`) | ring of frame buffers, semaphore, driver's pool | push, drop when full, pop, return | two consumers of one ring; a token for each push, taken by another consumer than the one the frame wakes | no buffer lost or shared, no consumer asleep beside a frame, first in first out |
| Capture gate (`capture.c`, `stream_cmd.c`) | running flag, stop word, rate | start, stop, pass of the capture loop | flag and word read at different moments | at most one frame after the gate closes; a seen stop word closes it |
| Live session (`ws_server.c`, `ws.c`, `ws_status_timer.c`, `softap_sta_listener.c`) | viewer slot, sink, transmit lock, status timer, server handle and registration | handshake, accept, clear, send, station events | a failing send, in any of four tasks, clears the slot inside the dispatch; two handlers share each Wi-Fi event | one sender at a time; no slot stolen; a viewer keeps what it was given; a dead viewer is found and freed; the registration dies with its server |
| Control router (`control.c`, `control_route.c`, `stream_cmd.c`) | ring of heap copies, counters, handlers | ingest, push, pop, classify, dispatch, reply | commands before the task or the handler exist, or while boot starts it; full ring; heap ownership | every copy freed once, no frame asleep, every command answered rightly |
| Wi-Fi reconnect (`wifi.c`, `wifi_event.c`) | backoff index and timer | event handlers, timer callback | a retry lost or armed twice | exactly one retry coming whenever the station is down |
| Soft recovery (`health.c`, `health_window.c`, `led.c`) | sliding window of outages, LED one-shot | outage begun/ended, threshold, restart | window boundary, LED overwritten during recovery or by an event out of date | recovery exactly at the threshold; a begun recovery ends in a restart; the LED tells how the station is |
| Boot button (`button.c`) | debounce, phase, press time, latch | poll every 10 ms | crossing phases in the midst of a press, late polls | a real hold always fires, nothing else does, calls are a cooldown apart |
| Stored configuration (`config.c`), provisioning (`softap_handlers.c`), boot (`boot.c`) | NVS keys, RAM copy, form submission | load, save, erase, POST, boot steps | loss of power between two keys; a write that fails half-way | an acknowledged configuration survives; a refused one leaves no trace in the next submission |
| SoftAP radio and pages, camera driver, identity, fragmentation, text assembly, metrics | little or none | I/O and formatting | | not modelled |
| WebSocket client with backoff (`ws.c`, `ws_backoff.c`, `ws_event_handler.c`) | kept from an earlier milestone, not started by `boot.c` | | | not modelled |

### Backend

| Component | State | Operations | What is hard | What makes it correct |
| --- | --- | --- | --- | --- |
| Relay (`relay.go`) | map MAC → session; viewers, connection, context of each | Acquire, Release, Close; goroutine: dial, hello, start, read, publish, back off | a goroutine returns from a dial or read after its session was removed and replaced | claims counted; a held session has a live goroutine; a removed one takes no message and ends |
| Hub (`hub.go`) | per viewer: queue, pending drops, done | bus callback, writer, reader, shutdown | drop-oldest is offer, evict, offer against a writer | in order; only the oldest lost; every loss counted, on the bus as well; callback never held up |
| Discovery (`discovery.go`) | registry; sweep's channels | Run, Scan, feeder, workers, collector, Upsert | channels closed by each other, cancelled contexts, two writers of the registry, leases that change | a sweep misses nothing, leaks nothing, and an address learnt late is corrected |
| API and process (`api/cameras.go`, `natsbus`, `cmd/server`) | none of its own | JSON view, wiring, shutdown | | not modelled; the closes it calls are in `Relay` and `ViewerHub` |
| Frontend (Qwik) | the tiles on the page | poll, open a stream | | not modelled |

### How the parts interact

- HTTP worker → control ring → control task → stream handler → capture gate.
- Capture task → capture queue → stream task → sink dispatch → socket; a failing send
  clears the slot and raises the stop word, which the capture task consumes.
- Handshake, Wi-Fi events and failing sends all write the slot, the sink and the timer.
- Wi-Fi events feed the reconnect loop first and the health window second; the window
  drives the LED, whose one-shot timer restarts the chip.
- The button's factory reset and the provisioning POST write the NVS that boot reads.
- Viewer request → relay session → registry (address to dial); hello → registry;
  messages → bus → hub's callback → viewers' queues.

## 2. Modules

| Module | Models | Composes |
| --- | --- | --- |
| `FrameFifo` | the promise of the capture queue | |
| `CaptureQueue` | ring, semaphore, driver's pool, both consumers | implements `FrameFifo` |
| `CamsSession` | slot, sink, transmit lock, stop word, gate, command, status timer, stream task, Wi-Fi events | the session of all five tasks, with the queue reduced to a length |
| `CommandLine` | the promise of the control router | |
| `ControlRouter` | ingest, ring, control task, classifier, stream handler, boot race | implements `CommandLine` |
| `WifiHealth` | reconnect loop, window of outages, LED one-shot, restart | wifi, health and led in one event loop |
| `Button` | the poll callback | |
| `Device` | NVS, boot, provisioning POST, factory reset, loss of power | config, softap and boot |
| `Relay` | hub's claims and relay's sessions of one camera | hub and relay |
| `DropOldest` | the promise of a viewer's queue | |
| `ViewerHub` | bus callback, queues, writers, readers | implements `DropOldest` |
| `Discovery` | sweep, registry, and the relay session that reads and writes it | discovery and relay |
| `MC...` | values that a .cfg cannot write, and symmetry sets | |
| `..._proofs` | theorems about the module they extend | |

In each module one action is one access to shared state, or several that nothing can
come between (inside a critical section, or in the only task that touches them). The
program counters are named after the C function or the step the task is about to take;
the comment over an action names its function.

### CaptureQueue

`slots, head, tail, count` are `capture_queue_t`, `sem` is the counting semaphore, and
`driver`, `producer` and `held` say where the buffers are that are not in the ring. The
capture task takes a buffer (`FbGet`) and pushes it (`Push`), or gives it straight back
when the ring is full (`DropOnFull`). A consumer looks at the ring under the mutex, sleeps
on the semaphore if it finds nothing, looks again when it was woken or timed out, and
returns the frame it took. A push and the give of the semaphore are one action; the
give fails above the semaphore's maximum, and the code ignores that. A pop before
`capture_task_start` has armed the hooks finds an empty ring: no frame is captured until
a start command has come, from the same worker that serves the snapshot. The stream task
comes back for more (`Loopers`), a snapshot request need not.

### CamsSession

One program counter for each of the five tasks. Its ring of commands and queue of frames
are reduced to what the session needs (commands in order; a count), since `ControlRouter`
and `CaptureQueue` check their own protocols. A socket is closed, open, or *gone*: the peer
vanished and the server still lists it. The faults are a constant, so that each
question is asked under the faults it is about. `ProbeAnswers` and `SendResults` leave
open what a call on the socket says while the server is being taken down. A viewer whose
hello cannot be built gets its timer all the same (`no_identity`).

Each Wi-Fi event has two handlers in the event loop's task, the listener's and then
`ws_server`'s, and the other tasks run between the two: DISCONNECTED is `ListenerStop`
(which waits for the server's task) and `ServerDetach`, GOT_IP is `ListenerStart` and
`ServerAttach`. The start and the registration may fail, and before `ws_init` has
subscribed there is no second handler (`boot.c` calls `wifi_init` first): either way
`/cams` waits for the next GOT_IP. `undisturbed` is history: the viewer took the slot while
no `viewer_clear` was under way, which is what `ViewerComplete` is stated for, since a late
one may strip the newcomer.

### WifiHealth

Events are queued by the driver and handed to the two subscribers in order; the timer
callbacks run in another task and may come between the two. Time moves only when both
have nothing to do, for handlers take milliseconds and timers seconds. Ages in
the window saturate just above its length. `outages` and `out` are history: the
outages within the window as a person would count them.

The LED is its state, the period its timer runs with, the pin, and the toggle of the
callback; the callback runs between two calls of `led_set_state`, never inside one, as
esp_timer's task preempts the event loop's on the same core.

Assumed: `esp_wifi_connect` is never refused synchronously (its result is ignored at
`wifi_event.c:159`); a failure or loss of the DHCP lease is not an event the firmware
subscribes to, so it appears only as the driver posts it; a behaviour starts when
`health_task_body` has subscribed.

### Button

The unit of time is one poll of 10 ms. The pin reads anything at each poll (twice at the
first poll past the grace, as in the code), polls may come up to `Late` units late, and
the factory-reset callback may fail and return. The real thresholds are scaled down;
what is kept are the inequalities of the Kconfig ranges (`LongPressAssumption`), and that a
poll is not so late that it alone makes a runtime press (`LateAssumption`).
`quiet` is history: no low was read in the last debounce of the strap grace, or at its end.

### Device

NVS is a function from keys to values, written one key per action; power may be lost
between any two. An erase takes the keys in any order. `acked` is history: what the
client asked for, over the configuration the device booted with (`Requested`), when it
was answered with 200. `cut` is history too: keys were changed under a current schema
version, and by what. A factory reset cut short leaves fields of the old record or nothing,
and the properties say so; a save over a record in force that is cut short is the one
window in which the device promises nothing. A save whose commit fails after the schema
version is written is answered 400 and leaves the refused record in force until the next
save or reset. The description
field is folded into the name. A submission is a record some of whose fields may be
absent, as the form allows. A SoftAP step that fails
after the form is registered counts as provisioning.

### ControlRouter

A frame is a record of what the classifier tells apart: JSON or not, object or not, the
command, the id, and the stream arguments. A body may carry a number that no `long long`
can hold: its conversion is undefined in C, and modelled as any rate in the range after
the clamp. The heap holds a fixed number of copies, which bounds the worker. Counters are
kept modulo `CounterMod`. Replies go to the current viewer, who need not be the one who
asked. Allocations inside cJSON succeed, and so does `xTaskCreate`; copies that are
dropped for lack of memory are not counted by the code and so not by the model.

A critical section under the ring's mutex is one action. A push that has found the hooks
not armed (`control.c:211`) takes no mutex and gives no token, whatever boot does next, so
it is taken apart: `SkipLock`, `CheckRoom`, then `PushUnlocked`, which stores a count that
it may have read before pops of the task that boot started meanwhile, or `PopUnderPush`,
where the pop's `count--` overwrites the push's `count++`. Its writes of the slot and the
tail go with that of the count, since a pop looks at neither before; assumed is that
the stores reach memory in the order of the program. `late` is history: an unlocked push
has ended since the task last found the ring empty, and its frame may have no token.
`torn` is history too: a count was overwritten. What the task makes of a ring with a torn
count (it may take a copy that was freed) is not followed: a model's step that would need
the copy's text is not enabled, and the properties about the ring are stated up to there.

### Relay, ViewerHub

`Relay` has the requests of one camera (sessions of different MACs share nothing but the
lock) and reuses a session object when its goroutine has ended, so two of them are
enough for a removed session beside its successor. The camera is external: it
serves one connection, closes a second after the handshake, and may die without a word.
A connection closed from outside yields nothing more in the model; in the code one message
that the WebSocket library had already buffered may still be returned and published.
`RetriesForever` says that the current session is, for ever again, connected or dialling:
after a dial that failed as after a connection that broke.
`ViewerHub` has one callback that goes through the viewers in any order, offers, evicts
and offers again, each a step; the writer may take a frame between any two. A viewer
that stalls never reads; shutdown comes from reader, writer or hub. The subscription is
external: a full one drops the newest message and counts it (`lost`), and after `Close` no
more callbacks are made. `enqueue` implements one put of `DropOldest`, which takes effect
with the first send or with the eviction; that the buffer is full is found in a step before,
because the writer may come between the two, and then a frame is dropped although there is
room again. `joined` is history: how many messages `receive` had been called
with when the viewer attached, so that its account can be drawn up from the bus on.

### Discovery

A sweep's feeder, workers, closer and collector are separate processes; channels are
unbuffered, so a send and its receive are one action. Two networks may share hosts, so
what a sweep probes are pairs of a network and an offset in it. The module's names are
apart from those of `Relay`, so that one module can hold the proofs of both.
`Renumber` is external: a camera's lease changes, at most `MoveBound` times. The
context may be cancelled at any moment. One watched camera has a relay session that looks
its address up, dials, reads the hello and writes the registry from it. The feeders that a
cancelled sweep leaves behind are folded into one flag. Settings, the probe's parsing and
the list of interfaces are inputs.

## 3. Runs

| Run | Instance | Distinct states | Checks |
| --- | --- | --- | --- |
| `capture_queue` | 3 buffers, ring of 2, stream and snapshot | 17,128 | `Ownership`, `NoLostWakeup`, `ImplementsFifo`, `FramesComeBack` |
| `cams_safety` | 2 sockets, all faults | 2,192,676 | `TxExclusive`, `AtMostOneLateFrame`, `ViewerComplete`, `RegistrationLive`, `SlotNotStolen` |
| `cams_liveness` | 1 socket; peers close or vanish | 327,150 | `DeadViewerFreed`, `StopWordObeyed` |
| `cams_wifi_loss` | 1 socket; Wi-Fi lost | to the first violation | **violated:** `GateFollowsViewer` |
| `wifi_health` | delays 1, 2, 4; window 9; threshold 4 | 55,530 | `OneRetrySource`, `WindowExact`, `LightTells`, `RecoversAtThreshold`, `RecoveryCompletes`, `KeepsTrying` |
| `button` | grace 6, boot window 9, hold 3 and 9, late by 2, 42 units | 750,827 | `HeldWhenFired`, `HoldFires`, `CallsSpaced` |
| `button_tap` | same | to the first violation | **violated:** `OnlyAfterHold` |
| `device` | 2 submissions, power lost anywhere | 152,916 | `LoadsTheRecord`, `AckSurvives`, `PairKept` |
| `control_router` | 3 copies, ring of 2, 5 bodies, until the count is torn | 393,022 | `FreedOnce`, `NoLostWakeup`, `ImplementsLine`, `EveryCopyFreed` |
| `relay` | 2 viewers, 2 session objects, delays 2 to 3 | 152,228 | `ClaimsCounted`, `SessionAlive`, `NobodyStranded`, `OnlyCurrentIngests`, `RemovedEnds`, `RetriesForever` |
| `viewer_hub` | 2 viewers, queues of 2, bus of 1, 3 frames | 573,814 | `ImplementsBuffer`, `NoSilentLoss`, `NewestKept`, `CallbackEnds` |
| `discovery` | 2 cameras, 2 overlapping networks, 2 workers, 1 move | 337,672 | `NothingMissed`, `ScannerStops`, `Settles` |

What each property says is in the comment above it in its module. For each there is an
operator named as a *fault* in the module, a plausible slip in the C or Go code, and TLC finds
the property violated when it takes the place of the definition (`mutants` in
`PROJECT.json`).

### Bounds, and why they are enough

- *Queues.* A ring of two, as the capture queue has in the code; for the control ring (8 in
  the code) two is the least that wraps around while holding something. Three buffers or
  copies: one more than the ring holds, so that full rings are met by a producer.
- *Actors.* Two sockets, viewers or sessions: one that is leaving and the one that takes
  its place. The properties speak of at most two at a time.
- *Time.* The Wi-Fi delays are chosen so that one is shorter than the LED's pattern and one
  longer, as in the firmware, and the window so that outages do age out before the
  threshold is reached; the button's thresholds keep the inequalities of the Kconfig
  ranges. `Horizon` is far enough for every phase, for the cooldown and for holds of the
  last phase that follow one another.
- *Histories.* `FrameBound`, `MoveBound`, `EventBound`, `Cap` and `CounterMod` name every
  remaining bound. `FrameBound` is one more than a queue, so that drops happen, and two
  more than the bus, so that it overflows while a callback runs.

Deadlock is checked except in `relay`, `viewer_hub` and `discovery`, where the
process may really stop: the relay is closed, the frames are over, the program ends.

### Fairness

Weak fairness is assumed of each task that the scheduler runs whenever it is ready: a
C task blocks only where the model has a guard, and a Go goroutine likewise. No fairness is
given to viewers, pins, power, cameras and networks. Strong fairness in three places:

- `Probe(t)` in `CamsSession`: the transmit lock is a FreeRTOS mutex, whose waiters are
  queued, so a task that waits gets it although it is free only now and then;
- `Tick` in `WifiHealth`: time passes only when the handlers are done, and it does pass;
- `RunEnds` in `Discovery`: Go's `select` picks at random among the ready cases, so a
  cancelled context is not passed over for ever.

`Settles` has as its premise that leases and network are quiet from some point on.
In `Relay` the steps of a session's goroutine are fair, the dial among them, for it has a
deadline in the code; a read is fair only when its connection is no longer open, for it has
none. In `ViewerHub` only the bus callback is fair: `CallbackEnds` says that it needs
nobody else.

## 4. Proofs

Every module has its theorems in `..._proofs`, `Relay` and `Discovery` together in
`Backend_proofs`. They hold for any number
of buffers, consumers, sockets, viewers, sessions, networks and cameras, any depth and any
thresholds within the named assumptions, which are those of the module's `ASSUME`s.

| Module | Theorems | Inductive invariant and why it is needed |
| --- | --- | --- |
| `CaptureQueue_proofs` | `TypeCorrect`, `OwnershipCorrect`, `WakeupCorrect`, `Refinement` | `IndInv`: besides type and ownership, the occupied slots are the `count` ones from `head`, they hold buffers, and `count` is at most the tokens plus the consumers already woken (`TokenBalance`): the semaphore alone does not bound the ring, since a consumer holds a token between its wake-up and its pop |
| `CamsSession_proofs` | `TypeCorrect`, `TxExclusion`, `GateCorrect`, `ViewerCorrect`, `RegistrationCorrect`, `SlotCorrect`, `WordCorrect` | a task that is sending holds the lock (`SenderHoldsLock`); nothing is late while the gate is open, nor while the capture task believes it is (`NothingLateYet`); a viewer that came undisturbed holds the slot and nobody is past clearing it (`UndisturbedHolds`); only a running server routes `/cams`, and `ws_server` knows (`RouteLive`). For the stop word: it can only be lost to the pass that is due to see it, and `StepsToHalt` counts that pass's steps |
| `WifiHealth_proofs` | `TypeCorrect`, `RingCorrect`, `RetryCorrect`, `LightCorrect`, `WindowCorrect`, `ThresholdCorrect`, `OverdueCorrect`, `ArmedCorrect`, `RestartCorrect` | no event the Wi-Fi handler has yet to see can stop the backoff timer once it is armed (`TimerUncontested`), and an empty queue is at its first subscriber (`IdleAtFirst`); without them a retry could be cancelled and none follow. For the LED: what it shows is right, or the event that will put it right is coming (`LightInv`). For the window: the outages are the fresh entries of the ring and the one whose disconnection health.c has yet to see; a disconnection is the last event, and its station stays down for a tick, so no two outages share an age (`AccountInv`). A tick can only age outages, so the threshold is reached in the step that records one, which is where health.c looks (`ThresholdCorrect`); between two events it is never overdue (`NeverOverdue`). The restart hangs on the LED's one-shot: while the device recovers, timer or callback is there (`RestartArmed`) |
| `Backend_proofs` on `Relay` | `TypeCorrect`, `AliveCorrect`, `StrandingCorrect`, `IngestCorrect`, `ClaimsCorrect`, `RemovalCorrect`, `StrayCorrect`, `WindDownCorrect` | a session in the map has a positive count and an open relay (`SessionCounted`), its connection is registered while it consumes (`Registered`), so that its removal closes it, and between two dials it has none (`NoneBetweenDials`); with these, a request whose goroutines still run holds or held a claim (`ThreadsServe`). A session out of the map has its context cancelled (`RemovedCancelled`), a connection it opened all the same is one it is about to close (`StrayCloses`), and what it has left to do only shrinks (`StepsLeft`) |
| `Backend_proofs` on `Discovery` | `DiscoveryTypeCorrect`, `SweepCorrect`, `LeaveCorrect`, `SettledCorrect` | `SweepInv`: each host of the sweep is still to be fed, in a worker's hands or probed; an answer is with its worker, with the collector or in the registry; `found` closes when every worker has ended, and a worker ends only when `hosts` is closed or the context done. Without the second part an answer could be dropped between probe and registry unseen |
| `ViewerHub_proofs` | `TypeCorrect`, `OrderCorrect`, `NewestCorrect`, `LossCorrect`, `CallbackCorrect`, `Refinement` | what is queued is older than what the bus has next, and where the callback is in its three steps says which frame is in flight. For the account, what the viewer was offered is what the bus delivered since it attached, less the frame it is still to be offered (`Listed`), and the drops in hand are those of the step (`LossCounted`). That a second send always finds room (`QueueState`) is what makes the three operations one put |
| `Button_proofs` | `TypeCorrect`, `SpacingCorrect`, `HeldCorrect`, `HoldCorrect` | `SpacingInv`: after a call the machine is in RUNTIME, no press is left in progress when it is idle, and a press under way is the one that called or began after it; a later one must be held for longer than the cooldown. For the holds, `PastInv`, `HeldInv` and `FireInv` relate the pin's history to the debounce, the press under way and the phase |
| `Device_proofs` | `TypeCorrect`, `LoadCorrect`, `AckCorrect`, `PairCorrect` | `RecordInv`: what the keys hold when the schema version is current and nothing was cut, what boot has read of them so far, and how far the job has written |
| `ControlRouter_proofs` | `TypeCorrect`, `FreedCorrect`, `WakeupCorrect`, `Refinement` | until the count is torn, every copy has one owner (worker, ring, task or nobody) and the ring is well shaped (`Sound`); an unlocked push that has checked for room still has it, since pops only make room (`Room`). The token is there or the push was late (`NoLostWakeup`), whatever the count |

The three refinements are proved in the usual way: the initial states map to initial
states, and under the invariant each step maps to a step of the abstract specification
or to a stutter (in `ControlRouter`, each that does not tear the count). The abstract queue
of `FrameFifo` is the ring read from `head`; that of
`DropOldest` is the viewer's queue, with the frame in hand at its end once its place has been
made.

Of five liveness properties the part that needs no fairness is proved: what is bound to
happen is not prevented or put off by anybody, and in the first four of them a count of steps,
or the timer, says how far off it is at most. What TLC adds is that those steps are taken.

| Liveness property | Proved | Which says |
| --- | --- | --- |
| `StopWordObeyed` | `WordCorrect` (`StopWordKept`) | a word the capture task is bound to see stays, and the gate is closed within three of the task's steps, with no frame queued meanwhile |
| `RecoveryCompletes` | `RestartCorrect` (`RestartKept`) | a begun recovery stays begun until the restart, and its timer never goes back |
| `RemovedEnds` | `WindDownCorrect` (`WindsDown`) | a removed session never comes back, and each of its steps brings its end closer: five at most, one dial among them |
| `CallbackEnds` | `CallbackCorrect` (`CallbackBounded`) | each step of the callback brings its return closer, and no viewer, writer or publication puts it off |
| `Settles` | `SettledCorrect` (`SettledStays`) | on a quiet network with nothing stale in flight, a registry and a session that are right stay so |

The invariants and these step properties were first checked by TLC on the instances above;
the step properties are in no run, for each is there for its theorem.

Only model-checked: the liveness properties (`FramesComeBack`, `DeadViewerFreed`,
`StopWordObeyed`, `RecoveryCompletes`, `KeepsTrying`, `RetriesForever`, `RemovedEnds`,
`CallbackEnds`, `EveryCopyFreed`, `ScannerStops`, `Settles`), since the prover does not
treat fairness and ENABLED. Every invariant, action property and refinement of the passing
runs is a theorem.

## 5. Where code and documents disagree

Two have runs, whose traces show them:

- **`GateFollowsViewer`.** `ws_server_on_sta_disconnected` (`ws_server.c:395`) clears slot
  and sink itself and never raises the stop word; `ws_server.h:22-25` says that freeing
  the slot also raises it. After a loss of Wi-Fi the camera goes on capturing for nobody.
- **`OnlyAfterHold`.** A press accepted in the last moments of the strap grace leaves
  `g_press_in_progress` set when its release is seen in IDLE (`button.c:632`). The next
  tap counts from time zero, and calls the factory reset. `button.h:15-17` says only a
  hold does.

Others were met while modelling and have no run of their own:

- `boot.c:249` reads the button's boot latch before `button_init` starts the driver that
  sets it, so a hold at boot never provisions (`firmware-prd.md:237`). Once set, nothing
  reads the latch.
- `capture.c:566-568` says a stop word is never lost: one raised between the snapshot of a
  closed gate (551) and the exchange (570) is consumed without effect though the gate
  opened meanwhile. `StopWordObeyed` names that window as the only exception. A stale word,
  in turn, closes a gate that was opened after it (`capture.c:194`).
- A close that the HTTP server notices by itself raises no stop word (`ws_server.c:91`): no
  send fails, since the probe finds the session gone, and the gate stays open, as after a
  loss of Wi-Fi. The next handshake takes the slot over and finds it open.
- A status frame may overtake the hello (`ws_server.c:169-188`), and a late `viewer_clear`
  may remove the sink or the status timer of the next viewer (`ws_server.c:91`);
  `ViewerComplete` says that nothing else does.
- An address obtained before `ws_init` has subscribed leaves `/cams` unattached until the
  next one (`boot.c:208`).
- Wi-Fi handlers overwrite the LED's recovery pattern (`wifi_event.c:75`, `led.h:96-97`).
  The restart still comes (`RecoveryCompletes`).
- An outage that never ends counts once, so it never leads to recovery
  (`health_window.c:50`, `firmware-prd.md:197`).
- The factory reset is called again each cooldown while the wipe fails, not "exactly
  once" (`button.h:15-20`). A boot step that fails leaves the device half up
  (`boot.c:138-222`).
- While a record in force is changed or erased, a loss of power can leave the name of one
  network with the password of another, and boot goes on normally (`config.c:148,191`).
- `control.c:310-312` arms the hooks before the task is created, "so producers on the httpd
  worker can wake the consumer". A producer that has looked at them before (`control.c:211`)
  and pushes after cannot: its frame may wait for the receive's time-out of 1 s, the one
  exception of `NoLostWakeup`. Its `count++` takes no mutex and may run into the task's
  `count--`: then a frame is forgotten in its slot, or an empty slot counted as one.
- `capture.c:511,515` count the same event twice on the device. A numeric id does not
  always come back as it was sent (`control_route.c:217`, `control.h:12`).
- The hub counts a drop although nothing was lost when the writer takes the oldest frame
  between offer and eviction (`hub.go:237-245`).
- Two connections to one camera may be open while a removed session ends its dial
  (`relay.go:171`, `backend-milestones.md:51`); `StrayCorrect` says that it then closes its
  own.
- The registry has a second writer (`relay.go:219`), which `discovery.go:239-240` excludes,
  and an answer collected late can overwrite a newer address until the next sweep.
- The API calls a camera idle two minutes after it was last seen: sweeps that take long
  enough show an online camera as idle.

## 6. Not modelled

- The camera driver's initialisation is a boot step that succeeds or fails (`Device`); the
  runtime setters of its settings have no caller in the product.
- The outbound WebSocket client (`ws_event_handler.c`, `ws_backoff.c`, most of `ws.c`'s
  connection state) is compiled and not started: boot starts the server in its place.
- Identity, fragmentation, HTML, text assembly and metrics are formatting and I/O. The API
  is a read-only view, and the process only starts and closes the rest: `Relay.Close` and
  `Hub.Close` may come at any moment in their modules, so in any order.
- The frontend polls the API and opens one stream for each tile; its side of the protocol is
  the viewers of `Relay` and `ViewerHub`.
- Mocks and tests are not part of the product.

Message contents and the RSSI and heap samples are abstracted wherever no property is about
them. `PROJECT.json` gives a reason for each component.

## 7. Plan

The modules were written in this order: the firmware's live path (queue, session, command
line), what keeps a camera alive (Wi-Fi, health, LED, button, configuration), the backend. All
of that is done. What would come next:

1. The step properties of the remaining liveness properties: that a frame or a copy once
   popped goes back (`FramesComeBack`, `EveryCopyFreed`), that a cancelled sweep's
   goroutines only wind down (`ScannerStops`), that a dead viewer's send still to come will
   fail (`DeadViewerFreed`).
2. The order of text frames on the wire (hello, status, reply), if the code comes to
   promise one.
3. The same of the stop word: with a session's name in it, `StopWordObeyed` would need no
   exception and a stale one could be ruled out.
