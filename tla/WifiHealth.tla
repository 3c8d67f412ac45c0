----------------------------- MODULE WifiHealth -----------------------------
(***************************************************************************)
(* The station's reconnect loop and the soft recovery that watches it.     *)
(*                                                                         *)
(* wifi_event.c arms a backoff timer on every disconnection and calls      *)
(* esp_wifi_connect when it expires; health.c counts outage episodes in a  *)
(* sliding window and, at the threshold, shows the recovery pattern on the *)
(* LED and restarts the chip when led.c's one-shot timer expires.          *)
(*                                                                         *)
(* Two tasks run the code: the event loop, which hands each event to the   *)
(* subscribers in the order they subscribed (wifi, then health), and       *)
(* esp_timer, which runs the expired timers and may come between the two.  *)
(* Time is counted in ticks and moves on only when both have nothing to    *)
(* do: handlers take milliseconds, the timers seconds.  A behaviour starts *)
(* when health_task_body has subscribed, whatever wifi_init led to so far. *)
(***************************************************************************)
EXTENDS Integers, Sequences, FiniteSets

CONSTANTS
  Backoff,        \* s_backoff_ms[1..5]: ticks before the n-th retry
  Window,         \* s_window_us, in ticks
  Threshold,      \* s_threshold, CONFIG_FIRMWARE_SOFT_RECOVERY_FAILS
  Cap,            \* HEALTH_WINDOW_CAP
  LedTicks,       \* CONFIG_FIRMWARE_LED_RECOVERY_DURATION_MS, in ticks
  EventBound      \* events the default event loop holds

ASSUME BackoffAssumption ==
  /\ Backoff \in Seq(Nat \ {0})
  /\ Len(Backoff) > 0
ASSUME WindowAssumption == Window \in Nat \ {0}
ASSUME ThresholdAssumption ==     \* Kconfig ranges, health_window.h:20-23
  /\ Threshold \in Nat \ {0}
  /\ Cap \in Nat
  /\ Threshold <= Cap
ASSUME LedAssumption == LedTicks \in Nat \ {0}
ASSUME EventAssumption == EventBound \in Nat \ {0}

Off == -1                                \* a timer that is not armed
Events == {"disconnected", "got_ip"}
LedStates == {"WIFI_CONNECTING", "RECONNECT_BACKOFF", "CONNECTED_IDLE", "SOFT_RECOVERY"}
NoBlink == "none"                        \* the periodic timer is stopped
Ages == 0..(Window + 1)                  \* Window + 1 stands for any older age

VARIABLES
  link,         \* the station, as the Wi-Fi driver knows it
  events,       \* events posted to the default loop, oldest first
  stage,        \* the subscriber that gets the oldest event next
  failures,     \* s_consecutive_failures, up to the length of the table
  backoff,      \* ticks until s_backoff_handle expires
  led,          \* g_state
  blink,        \* the state whose period g_periodic_handle runs with, or NoBlink
  level,        \* the LED's pin, "on" or "off"
  toggle,       \* the static of led_periodic_cb
  oneshot,      \* ticks until g_oneshot_handle expires
  win,          \* s_win.ts_us, as ages, oldest first
  episode_open, \* s_win.episode_open
  recovering,   \* s_recovering
  reason,       \* last_recovery_reason is in NVS
  phase,        \* "up", or "restarting" once esp_restart is called
  outages,      \* history: the ages, within the window, of the outages so far
  out           \* history: an outage has begun and no address was leased since

radio == <<link, events>>
wifi == <<failures, backoff>>
lamp == <<led, blink, level, toggle>>
lights == <<lamp, oneshot>>
health == <<win, episode_open, recovering, reason>>
history == <<outages, out>>
vars == <<radio, stage, wifi, lights, health, phase, history>>

LampOK ==
  /\ led \in LedStates
  /\ blink \in LedStates \cup {NoBlink}
  /\ level \in {"on", "off"}
  /\ toggle \in {0, 1}

TypeOK ==
  /\ link \in {"connecting", "associated", "online", "down"}
  /\ events \in Seq(Events)
  /\ stage \in {"wifi", "health"}
  /\ failures \in 0..Len(Backoff)
  /\ backoff \in Nat \cup {Off}
  /\ LampOK
  /\ oneshot \in Nat \cup {Off}
  /\ win \in Seq(Ages)
  /\ Len(win) <= Cap
  /\ episode_open \in BOOLEAN
  /\ recovering \in BOOLEAN
  /\ reason \in BOOLEAN
  /\ phase \in {"up", "restarting"}
  /\ outages \subseteq 0..Window
  /\ out \in BOOLEAN
-----------------------------------------------------------------------------
\* wifi_backoff_delay_ms: the delay after the n-th failure; the last one repeats.
Delay(n) == Backoff[IF n >= Len(Backoff) THEN Len(Backoff) ELSE n]

\* s_consecutive_failures++, as far as the delay tells counts apart.
Counted(n) == IF n < Len(Backoff) THEN n + 1 ELSE n

\* What wifi_init and the retries so far may have left when health subscribes:
\* joining or joined without an address, down with a retry armed, or online.
Station(l, f, b, c) == [link |-> l, failures |-> f, backoff |-> b, led |-> c]

Stations ==
  LET Joining == {"connecting", "associated"}
  IN  {Station(l, 0, Off, "WIFI_CONNECTING") : l \in Joining}
      \cup {Station(l, f, Off, "RECONNECT_BACKOFF") : l \in Joining, f \in 1..Len(Backoff)}
      \cup {Station("down", f, Delay(f), "RECONNECT_BACKOFF") : f \in 1..Len(Backoff)}
      \cup {Station("online", 0, Off, "CONNECTED_IDLE")}

\* ... and where its blinking may be: led_set_state starts a pattern with the pin
\* on and leaves the callback's toggle where it is.
Lamps(c) ==
  CASE c = "CONNECTED_IDLE"  -> {0, 1} \X {"off"}
    [] c = "WIFI_CONNECTING" -> {<<0, "on">>, <<1, "off">>}
    [] OTHER                 -> {<<0, "on">>, <<1, "off">>, <<1, "on">>}

\* led_state_cfg: connected and idle is dark, every other state blinks.
Pattern(s) == IF s = "CONNECTED_IDLE" THEN NoBlink ELSE s

\* health_task_body: an empty window, a closed episode, nothing recovering.
Init ==
  /\ \E s \in Stations :
       /\ link = s.link
       /\ failures = s.failures
       /\ backoff = s.backoff
       /\ led = s.led
       /\ blink = Pattern(s.led)
       /\ \E p \in Lamps(s.led) : toggle = p[1] /\ level = p[2]
  /\ events = <<>>
  /\ stage = "wifi"
  /\ oneshot = Off
  /\ win = <<>>
  /\ episode_open = FALSE
  /\ recovering = FALSE
  /\ reason = FALSE
  /\ phase = "up"
  /\ outages = {}
  /\ out = FALSE
-----------------------------------------------------------------------------
(* led.c *)

\* Fault: led_set_state that stops the one-shot on every transition.
LedStopsOneShot(s) ==
  /\ led' = s
  /\ blink' = Pattern(s)
  /\ level' = IF Pattern(s) = NoBlink THEN "off" ELSE "on"
  /\ UNCHANGED toggle
  /\ oneshot' = IF s = "SOFT_RECOVERY" THEN LedTicks ELSE Off

\* Fault: going dark does not stop the periodic timer.
LedBlinksOn(s) ==
  /\ led' = s
  /\ blink' = IF Pattern(s) = NoBlink THEN blink ELSE s
  /\ level' = IF Pattern(s) = NoBlink THEN "off" ELSE "on"
  /\ oneshot' = IF s = "SOFT_RECOVERY" /\ oneshot = Off THEN LedTicks ELSE oneshot
  /\ UNCHANGED toggle

\* led_set_state: the periodic timer is stopped, and started again with the new
\* period unless the new state is dark; a timer just stopped does start.  The
\* recovery pattern also starts the one-shot, unless it runs.
LedSetState(s) ==
  /\ led' = s
  /\ blink' = Pattern(s)
  /\ level' = IF Pattern(s) = NoBlink THEN "off" ELSE "on"
  /\ UNCHANGED toggle
  /\ oneshot' = IF s = "SOFT_RECOVERY" /\ oneshot = Off THEN LedTicks ELSE oneshot

\* led_periodic_cb.  esp_timer's task preempts the event loop's on the same core,
\* so the callback runs between two calls of led_set_state, never inside one.
LedPeriodic ==
  /\ phase = "up"
  /\ blink # NoBlink
  /\ toggle' = 1 - toggle
  /\ level' = IF toggle' = 1 THEN "off" ELSE "on"
  /\ UNCHANGED <<radio, stage, wifi, led, blink, oneshot, health, phase, history>>

\* led_oneshot_cb and health_recovery_complete_cb: esp_restart.
OneShotFires ==
  /\ phase = "up"
  /\ oneshot = 0
  /\ oneshot' = Off
  /\ phase' = "restarting"
  /\ UNCHANGED <<radio, stage, wifi, lamp, health, history>>

\* The chip comes up again: only NVS survives.
Reboot ==
  /\ phase = "restarting"
  /\ \E s \in Stations :
       /\ link' = s.link
       /\ failures' = s.failures
       /\ backoff' = s.backoff
       /\ led' = s.led
       /\ blink' = Pattern(s.led)
       /\ \E p \in Lamps(s.led) : toggle' = p[1] /\ level' = p[2]
  /\ events' = <<>>
  /\ stage' = "wifi"
  /\ oneshot' = Off
  /\ win' = <<>>
  /\ episode_open' = FALSE
  /\ recovering' = FALSE
  /\ phase' = "up"
  /\ outages' = {}
  /\ out' = FALSE
  /\ UNCHANGED reason
-----------------------------------------------------------------------------
(* wifi_event.c: the first subscriber *)

\* Fault: on_sta_disconnected_handler that leaves the timer to the next failure.
ForgetRetry ==
  /\ failures' = Counted(failures)
  /\ UNCHANGED backoff
  /\ LedSetState("RECONNECT_BACKOFF")

\* on_sta_disconnected_handler.  An armed timer refuses esp_timer_start_once.
WifiOnDisconnected ==
  /\ failures' = Counted(failures)
  /\ backoff' = IF backoff = Off THEN Delay(Counted(failures)) ELSE backoff
  /\ LedSetState("RECONNECT_BACKOFF")

\* on_sta_got_ip_handler.  wifi_stop finds the station mode already set.
WifiOnGotIp ==
  /\ failures' = 0
  /\ backoff' = Off
  /\ LedSetState("CONNECTED_IDLE")

WifiHandler ==
  /\ phase = "up"
  /\ events # <<>>
  /\ stage = "wifi"
  /\ stage' = "health"
  /\ \/ Head(events) = "disconnected" /\ WifiOnDisconnected
     \/ Head(events) = "got_ip" /\ WifiOnGotIp
  /\ UNCHANGED <<radio, health, phase, history>>

\* Fault: a retry callback that never reaches esp_wifi_connect.
RetryNothing ==
  /\ phase = "up"
  /\ backoff = 0
  /\ backoff' = Off
  /\ UNCHANGED <<radio, stage, failures, lights, health, phase, history>>

\* wifi_event_retry_cb: esp_wifi_connect, which starts a join when none is under way.
Retry ==
  /\ phase = "up"
  /\ backoff = 0
  /\ backoff' = Off
  /\ link' = IF link = "down" THEN "connecting" ELSE link
  /\ UNCHANGED <<events, stage, failures, lights, health, phase, history>>
-----------------------------------------------------------------------------
(* health.c and health_window.c: the second subscriber *)

\* Fault: prune_stale with <= instead of <: the entry on the boundary goes too.
FirstFreshStrict(w) ==
  LET kept == {i \in 1..(Len(w) + 1) : i = Len(w) + 1 \/ w[i] < Window}
  IN  CHOOSE i \in kept : \A j \in kept : i <= j

\* prune_stale: the oldest entries go, up to the first one within the window.
FirstFresh(w) ==
  LET kept == {i \in 1..(Len(w) + 1) : i = Len(w) + 1 \/ w[i] <= Window}
  IN  CHOOSE i \in kept : \A j \in kept : i <= j

Prune(w) == SubSeq(w, FirstFresh(w), Len(w))

\* Fault: health_window_record without prune_stale.
RecordUnpruned(w) == Append(w, 0)

\* health_window_record: one entry per episode, and none when the ring is full.
Record(w) == IF Len(Prune(w)) < Cap THEN Append(Prune(w), 0) ELSE Prune(w)

\* health_persist_last_recovery_reason: NVS may refuse at any step.
PersistReason == reason' \in {reason, TRUE}

\* The threshold is met: the reason is written and the LED arms the restart.
Recover ==
  /\ recovering' = TRUE
  /\ PersistReason
  /\ LedSetState("SOFT_RECOVERY")

\* on_sta_disconnected
HealthOnDisconnected ==
  \/ /\ recovering
     /\ UNCHANGED <<health, lights>>
  \/ /\ ~recovering
     /\ win' = IF episode_open THEN win ELSE Record(win)
     /\ episode_open' = TRUE
     /\ IF Len(win') >= Threshold
        THEN Recover
        ELSE UNCHANGED <<recovering, reason, lights>>

\* on_got_ip: the outage is over.
HealthOnGotIp ==
  /\ episode_open' = FALSE
  /\ UNCHANGED <<win, recovering, reason, lights>>

HealthHandler ==
  /\ phase = "up"
  /\ events # <<>>
  /\ stage = "health"
  /\ stage' = "wifi"
  /\ events' = Tail(events)
  /\ \/ Head(events) = "disconnected" /\ HealthOnDisconnected
     \/ Head(events) = "got_ip" /\ HealthOnGotIp
  /\ UNCHANGED <<link, wifi, phase, history>>
-----------------------------------------------------------------------------
(* The Wi-Fi driver, the access point and its DHCP server *)

Post(e) ==
  /\ Len(events) < EventBound
  /\ events' = Append(events, e)

Untouched == UNCHANGED <<stage, wifi, lights, health, phase>>

Associate ==
  /\ phase = "up"
  /\ link = "connecting"
  /\ link' = "associated"
  /\ UNCHANGED <<events, history>>
  /\ Untouched

\* A lease, the first of this association or a new one after the old ran out.
Lease ==
  /\ phase = "up"
  /\ link = "associated"
  /\ link' = "online"
  /\ Post("got_ip")
  /\ out' = FALSE
  /\ UNCHANGED outages
  /\ Untouched

\* The lease runs out, not while the events of the last one are still handled;
\* nobody subscribes to IP_EVENT_STA_LOST_IP.
LoseLease ==
  /\ phase = "up"
  /\ link = "online"
  /\ events = <<>>
  /\ link' = "associated"
  /\ UNCHANGED <<events, history>>
  /\ Untouched

\* The join fails, or the association is lost.
Disconnect ==
  /\ phase = "up"
  /\ link \in {"connecting", "associated", "online"}
  /\ link' = "down"
  /\ Post("disconnected")
  /\ out' = TRUE
  /\ outages' = IF out THEN outages ELSE outages \cup {0}
  /\ Untouched

Driver == Associate \/ Lease \/ LoseLease \/ Disconnect
-----------------------------------------------------------------------------
Older(a) == IF a > Window THEN a ELSE a + 1

Elapse(t) == IF t = Off THEN Off ELSE t - 1

\* Every handler and expired timer has run; a tick goes by.
Quiet == phase = "up" /\ events = <<>> /\ backoff # 0 /\ oneshot # 0

Tick ==
  /\ Quiet
  /\ backoff' = Elapse(backoff)
  /\ oneshot' = Elapse(oneshot)
  /\ win' = [i \in DOMAIN win |-> Older(win[i])]
  /\ outages' = {a + 1 : a \in outages} \cap 0..Window
  /\ UNCHANGED <<radio, stage, failures, lamp, episode_open, recovering, reason, phase, out>>

Next ==
  \/ Driver
  \/ WifiHandler
  \/ HealthHandler
  \/ Retry
  \/ LedPeriodic
  \/ OneShotFires
  \/ Reboot
  \/ Tick

Spec == Init /\ [][Next]_vars

\* The event loop and esp_timer are tasks the scheduler runs, time goes by, and
\* the driver answers every join with an association or a failure.
FairSpec ==
  /\ Spec
  /\ WF_vars(WifiHandler)
  /\ WF_vars(HealthHandler)
  /\ WF_vars(Retry)
  /\ WF_vars(OneShotFires)
  /\ WF_vars(Reboot)
  /\ SF_vars(Tick)
  /\ WF_vars(link = "connecting" /\ (Associate \/ Disconnect))
-----------------------------------------------------------------------------
(* Properties *)

\* The disconnection at position i has not reached wifi_event.c yet.
Unhandled(i) == events[i] = "disconnected" /\ (i > 1 \/ stage = "wifi")

\* The chain of retries neither breaks nor doubles: while the station is down
\* exactly one thing will bring the next esp_wifi_connect, either the armed
\* backoff timer or one disconnection still to be handled, the latest event;
\* and nothing will while a join is under way or has succeeded.
OneRetrySource ==
  phase = "up" =>
    /\ backoff # Off => link = "down"
    /\ \A i \in DOMAIN events :
         Unhandled(i) => i = Len(events) /\ link = "down" /\ backoff = Off
    /\ link = "down" /\ backoff = Off => events # <<>> /\ Unhandled(Len(events))

\* The ring is never full while it can still decide: until recovery starts it
\* holds fewer entries than the threshold, so record never drops an outage
\* (the claim of health_window.h:20-24).
RingNeverFull == ~recovering => Len(win) < Threshold

\* The window counts outages, exactly: when no event is pending, the entries of
\* the ring that are within the window are the outages that began within it,
\* one for each, however many retries failed inside an outage and however late
\* its events were handled.  (Two outages never share an age: a backoff of at
\* least a tick lies between them.)
WindowExact ==
  Quiet /\ ~recovering =>
    LET kept == Prune(win)
    IN  /\ {kept[i] : i \in DOMAIN kept} = outages
        /\ Len(kept) = Cardinality(outages)

\* The LED tells the truth once the events are handled: dark, the pin off and the
\* timer stopped, while the station is online, blinking while it is not joined, and
\* with the backoff pattern while it is down, unless a recovery is being shown.
\* (The pin is the camera's flash: a blink that survived would drain the device,
\* led.c:70-73.  Not covered: nothing tells of a lease that ran out.)
Dark == blink = NoBlink /\ level = "off"

LightTells ==
  phase = "up" /\ events = <<>> =>
    /\ link = "online" => Dark
    /\ link \in {"connecting", "down"} => blink # NoBlink
    /\ link = "down" /\ ~recovering => blink = "RECONNECT_BACKOFF"

\* Soft recovery starts at the threshold of outages within the window and never
\* below it (firmware-milestones.md:1547).
RecoversAtThreshold ==
  [][~recovering /\ recovering' => Cardinality(outages) >= Threshold]_vars

\* ... nor later: once the events are handled, no station that has had so many
\* outages within the window is still without recovery.
NeverOverdue == Quiet /\ Cardinality(outages) >= Threshold => recovering

\* From the start of a recovery on, the one-shot runs towards the restart: no event,
\* LED transition or second outage stops it, puts it off, or ends the recovery
\* (led.c:256: esp_timer_start_once on a running timer is refused).
RestartArmed ==
  phase = "up" => IF recovering THEN oneshot \in 0..LedTicks ELSE oneshot = Off
RestartKept ==
  [][phase = "up" /\ recovering =>
       phase' = "restarting" \/ (recovering' /\ oneshot' \in 0..oneshot)]_vars

\* A recovery that started ends in a restart, whatever the network does.
RecoveryCompletes == recovering ~> phase = "restarting"

\* The reconnect loop never gives up: a station that is down tries again, or the
\* chip restarts (firmware-milestones.md:110).
KeepsTrying == link = "down" ~> (link = "connecting" \/ phase = "restarting")
=============================================================================
