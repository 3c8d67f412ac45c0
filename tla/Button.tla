------------------------------- MODULE Button -------------------------------
(***************************************************************************)
(* The boot button: button.c's debounced long-press machine, polled by a   *)
(* periodic esp_timer, and the factory reset boot.c hangs on it.           *)
(*                                                                         *)
(* Time is counted in poll periods (10 ms) since the chip started, as      *)
(* esp_timer_get_time does; a poll may come up to Late periods after the   *)
(* one before it.  The pin is whatever the user, the contacts and the boot *)
(* ROM make of it: each read may find it low (pressed) or high.  boot.c    *)
(* registers the callback right after button_init, long before a poll can  *)
(* reach the RUNTIME phase, so it is always there.                         *)
(***************************************************************************)
EXTENDS Integers

CONSTANTS
  StartTime,    \* the time button_init is called
  Grace,        \* CONFIG_FIRMWARE_BOOT_BUTTON_STRAP_GRACE_MS
  BootWindow,   \* CONFIG_FIRMWARE_BOOT_BUTTON_BOOT_TIME_WINDOW_MS
  BootLong,     \* CONFIG_FIRMWARE_BOOT_BUTTON_BOOT_LONGPRESS_MS
  RuntimeLong,  \* CONFIG_FIRMWARE_BOOT_BUTTON_RUNTIME_LONGPRESS_MS
  TapMax,       \* CONFIG_FIRMWARE_BOOT_BUTTON_TAP_MAX_MS
  Debounce,     \* CONFIG_FIRMWARE_BOOT_BUTTON_DEBOUNCE_MS
  Late,         \* the longest time from one poll to the next
  Horizon       \* bound: the polls stop here, only a reset follows

Cooldown == 4 * Debounce

ASSUME TimesAssumption ==
  /\ {Grace, BootWindow, TapMax} \subseteq Nat
  /\ {StartTime, Debounce, Late, Horizon} \subseteq Nat \ {0}
  /\ StartTime <= Horizon
ASSUME LongPressAssumption ==      \* from the Kconfig ranges
  /\ {BootLong, RuntimeLong} \subseteq Nat
  /\ BootLong > TapMax
  /\ RuntimeLong > TapMax
  /\ RuntimeLong > Cooldown
ASSUME LateAssumption ==           \* no poll is late by a whole long press
  Late + Debounce <= RuntimeLong

Never == -1                        \* INT64_MIN in g_last_edge_us
GraceEnd == StartTime + Grace      \* g_strap_release_us
BootEnd == GraceEnd + BootWindow   \* g_boot_time_end_us

VARIABLES
  button,     \* button.c's state, see Buttons
  running,    \* FALSE once esp_restart has been called
  now,        \* esp_timer_get_time at the last poll
  low_since,  \* history: first read of the present run of low reads
  high_since, \* history: first read of the present run of high reads
  opened,     \* history: first low read since the pin was last high for Debounce
  quiet,      \* history: no low read in the last Debounce of the grace, or as it ends
  last_call   \* history: the last time the callback was called

history == <<low_since, high_since, opened, quiet, last_call>>
vars == <<button, running, now, history>>

Times == 0..(Horizon + Late)
Buttons ==
  [phase: {"STRAP_GRACE", "BOOT_TIME", "RUNTIME"},
   state: {"IDLE", "PRESSED"},
   press_start: Times,             \* g_press_start_us
   in_progress: BOOLEAN,           \* g_press_in_progress
   runtime_start: Times,           \* g_runtime_press_start_us
   fired_at: Times,                \* g_runtime_cb_fired_at_us, 0: not yet
   last_edge: Times \cup {Never},  \* g_last_edge_us
   pressed_at_boot: BOOLEAN]       \* g_boot_button_pressed_at_boot

TypeOK ==
  /\ button \in Buttons
  /\ running \in BOOLEAN
  /\ now \in Times
  /\ {low_since, high_since, opened, last_call} \subseteq Times \cup {Never}
  /\ quiet \in BOOLEAN

-----------------------------------------------------------------------------
(* button_poll_once, piece by piece: each maps the state to the next one.   *)

Bouncing(b, t) == b.last_edge # Never /\ t - b.last_edge < Debounce

(* The strap-grace part follows the pin but leaves state alone. *)
GraceEdge(b, low, t) ==
  IF low = b.in_progress \/ Bouncing(b, t) THEN b
  ELSE [b EXCEPT !.in_progress = low,
                 !.press_start = IF low THEN t ELSE 0,
                 !.last_edge = t]

LeaveGrace(b, t) ==
  IF t < GraceEnd THEN b
  ELSE [b EXCEPT !.phase = "BOOT_TIME", !.state = "IDLE"]

EnterRuntime(b, t) ==
  IF b.phase # "BOOT_TIME" \/ t < BootEnd THEN b
  ELSE [b EXCEPT !.phase = "RUNTIME",
                 !.runtime_start = IF b.state = "PRESSED" THEN t ELSE @]

Held(b, t) == b.phase = "BOOT_TIME" /\ t - b.press_start >= BootLong

PressUnseeded(b, t) ==   \* fault
  IF Bouncing(b, t) THEN b
  ELSE [b EXCEPT !.state = "PRESSED", !.in_progress = TRUE,
                 !.press_start = IF b.in_progress THEN @ ELSE t,
                 !.fired_at = 0, !.last_edge = t]
Press(b, t) ==
  IF Bouncing(b, t) THEN b
  ELSE [b EXCEPT !.state = "PRESSED",
                 !.in_progress = TRUE,
                 !.press_start = IF b.in_progress THEN @ ELSE t,
                 !.runtime_start =
                   IF b.in_progress \/ b.phase # "RUNTIME" THEN @ ELSE t,
                 !.fired_at = 0,
                 !.last_edge = t]

DueOften(b, t) ==        \* fault
  b.phase = "RUNTIME" /\ t - b.runtime_start >= RuntimeLong

DueByDeadline(b, t) ==   \* fault
  /\ b.phase = "RUNTIME"
  /\ t - b.runtime_start >= BootEnd + RuntimeLong
  /\ b.fired_at = 0 \/ t - b.fired_at >= Cooldown

(* The callback is due: held long enough, and not within the cooldown. *)
Due(b, t) ==
  /\ b.phase = "RUNTIME"
  /\ t - b.runtime_start >= RuntimeLong
  /\ b.fired_at = 0 \/ t - b.fired_at >= Cooldown

StillHeld(b, t) ==
  [b EXCEPT !.pressed_at_boot = @ \/ Held(b, t),
            !.fired_at = IF Due(b, t) THEN t ELSE @]

Release(b, t) ==
  IF Bouncing(b, t) THEN b
  ELSE [b EXCEPT !.state = "IDLE",
                 !.in_progress = FALSE,
                 !.press_start = 0,
                 !.runtime_start = 0,
                 !.fired_at = 0,
                 !.last_edge = t,
                 !.pressed_at_boot =
                   @ \/ (t - b.press_start > TapMax /\ Held(b, t))]

(* The switch on g_state, once the phase is settled. *)
Machine(b, low, t) ==
  CASE b.state = "IDLE" /\ low -> Press(b, t)
    [] b.state = "IDLE" /\ ~low -> b
    [] b.state = "PRESSED" /\ low -> StillHeld(b, t)
    [] b.state = "PRESSED" /\ ~low -> Release(b, t)

(* The switch calls the callback: while the button is held, or on the      *)
(* release of a press longer than a tap.                                   *)
Calls(b, low, t) ==
  /\ b.state = "PRESSED"
  /\ Due(b, t)
  /\ low \/ (~Bouncing(b, t) /\ t - b.press_start > TapMax)

(* The phase part of a poll: sg is the read that only the grace makes. *)
Phase(sg, t) ==
  IF button.phase = "STRAP_GRACE" THEN LeaveGrace(GraceEdge(button, sg, t), t)
  ELSE button

-----------------------------------------------------------------------------
BootState ==
  [phase |-> "STRAP_GRACE", state |-> "IDLE", press_start |-> 0,
   in_progress |-> FALSE, runtime_start |-> 0, fired_at |-> 0,
   last_edge |-> Never, pressed_at_boot |-> FALSE]

(* button_init *)
Init ==
  /\ button = BootState
  /\ running = TRUE
  /\ now = StartTime
  /\ low_since = Never
  /\ high_since = Never
  /\ opened = Never
  /\ quiet = TRUE
  /\ last_call = Never

(* What the history makes of a poll at time t whose reads of the pin are   *)
(* sg, if it is made, and low.                                             *)
Watch(sg, low, t) ==
  /\ low_since' =
       IF ~low THEN Never ELSE IF ~sg \/ low_since = Never THEN t ELSE low_since
  /\ high_since' =
       IF low THEN Never ELSE IF sg \/ high_since = Never THEN t ELSE high_since
  /\ opened' = IF low THEN IF opened = Never THEN t ELSE opened
               ELSE IF high_since # Never /\ t - high_since >= Debounce THEN Never
               ELSE opened

(* A poll that leaves the machine in its strap grace. *)
PollInGrace(t) ==
  \E sg \in BOOLEAN :
    /\ Phase(sg, t).phase = "STRAP_GRACE"
    /\ button' = Phase(sg, t)
    /\ now' = t
    /\ Watch(sg, sg, t)
    /\ quiet' = (quiet /\ ~(sg /\ t >= GraceEnd - Debounce))
    /\ UNCHANGED <<running, last_call>>

(* A poll past the grace.  The first one reads the pin twice, and the reads *)
(* may differ.                                                             *)
Settled(sg, t) == EnterRuntime(Phase(sg, t), t)

PollAndRun(t) ==
  \E sg, low \in BOOLEAN :
    /\ sg = low \/ button.phase = "STRAP_GRACE"
    /\ Phase(sg, t).phase # "STRAP_GRACE"
    /\ ~Calls(Settled(sg, t), low, t)
    /\ button' = Machine(Settled(sg, t), low, t)
    /\ now' = t
    /\ Watch(sg, low, t)
    /\ quiet' = (quiet /\ ~(sg /\ button.phase = "STRAP_GRACE"))
    /\ UNCHANGED <<running, last_call>>

(* The callback, boot_factory_reset_and_restart: a wipe that fails returns, *)
(* one that succeeds restarts the chip.                                    *)
PollAndReset(t) ==
  \E sg, low, wiped \in BOOLEAN :
    /\ sg = low \/ button.phase = "STRAP_GRACE"
    /\ Phase(sg, t).phase # "STRAP_GRACE"
    /\ Calls(Settled(sg, t), low, t)
    /\ button' = Machine(Settled(sg, t), low, t)
    /\ running' = ~wiped
    /\ now' = t
    /\ last_call' = t
    /\ Watch(sg, low, t)
    /\ quiet' = (quiet /\ ~(sg /\ button.phase = "STRAP_GRACE"))

Poll ==
  /\ running
  /\ \E d \in 1..Late :
       /\ now + d <= Horizon
       /\ \/ PollInGrace(now + d)
          \/ PollAndRun(now + d)
          \/ PollAndReset(now + d)

(* The chip restarts, by esp_restart or by a loss of power. *)
Reset ==
  /\ button' = BootState
  /\ running' = TRUE
  /\ now' = StartTime
  /\ low_since' = Never
  /\ high_since' = Never
  /\ opened' = Never
  /\ quiet' = TRUE
  /\ last_call' = Never

Next == Poll \/ Reset

Spec == Init /\ [][Next]_vars

-----------------------------------------------------------------------------
Later(s, t) == IF s > t THEN s ELSE t

(* A factory reset is the user's doing: when the callback is called, the   *)
(* pin has been low for RUNTIME_LONGPRESS without a release as long as the *)
(* debounce filter asks for (button.h:15-20).                              *)
OnlyAfterHold ==
  last_call = now => opened # Never /\ now - opened >= RuntimeLong

(* So it is whenever no press was under way as the strap grace ended.      *)
HeldWhenFired == quiet => OnlyAfterHold

(* Holding the button works: whatever bounces and taps came before, a pin  *)
(* that stays low through RUNTIME_LONGPRESS of the RUNTIME phase, and the  *)
(* debounce filter's and the timer's delays, has called the callback.      *)
HoldFires ==
  /\ running
  /\ low_since # Never
  /\ now - Later(low_since, BootEnd + Late) >= RuntimeLong + Debounce + Late
  => last_call >= low_since

(* Calls that follow a failed wipe are a cooldown apart, so that the poll  *)
(* after a long callback does not at once call it again.                   *)
CallsSpaced ==
  [][last_call' # last_call /\ last_call # Never /\ last_call' # Never
       => last_call' - last_call >= Cooldown]_vars
=============================================================================
