-------------------------- MODULE WifiHealth_proofs --------------------------
(***************************************************************************)
(* Proofs about WifiHealth, for any backoff table, window, threshold and   *)
(* ring capacity the assumptions allow: the types, that the ring of the    *)
(* failure window never drops an outage and counts each exactly once, that *)
(* the chain of retries neither breaks nor doubles, and that the LED tells *)
(* how the station is.                                                     *)
(***************************************************************************)
EXTENDS WifiHealth, WellFoundedInduction, SequenceTheorems, FiniteSetTheorems, TLAPS

\* Every set of naturals with an element has a least one.
LEMMA LeastNatural ==
  ASSUME NEW S \in SUBSET Nat, S # {}
  PROVE  \E i \in S : \A j \in S : i <= j
<1>1. IsWellFoundedOn(OpToRel(<, Nat), Nat)
  BY NatLessThanWellFounded
<1>2. PICK i \in S : \A j \in S : ~ (<<j, i>> \in OpToRel(<, Nat))
  BY <1>1, WFMin, Zenon
<1>3. \A j \in S : ~(j < i)
  BY <1>2 DEF OpToRel
<1> QED
  BY <1>3

\* What prune_stale leaves is a suffix of the ring.
LEMMA PruneShortens ==
  ASSUME NEW w \in Seq(Ages)
  PROVE  /\ Prune(w) \in Seq(Ages)
         /\ Len(Prune(w)) <= Len(w)
<1> DEFINE kept == {i \in 1..(Len(w) + 1) : i = Len(w) + 1 \/ w[i] <= Window}
<1>1. kept \in SUBSET Nat /\ Len(w) + 1 \in kept
  OBVIOUS
<1>2. \E i \in kept : \A j \in kept : i <= j
  <2> HIDE DEF kept
  <2> QED
    BY <1>1, LeastNatural
<1>3. FirstFresh(w) \in kept
  BY <1>2 DEF FirstFresh
<1>4. FirstFresh(w) \in 1..(Len(w) + 1)
  BY <1>3
<1> HIDE DEF kept
<1>5. CASE FirstFresh(w) = Len(w) + 1
  BY <1>4, <1>5 DEF Prune
<1>6. CASE FirstFresh(w) \in 1..Len(w)
  BY <1>6 DEF Prune
<1> QED
  BY <1>4, <1>5, <1>6

\* What health_window_record leaves is typed, within the capacity, and at most
\* one entry longer.
LEMMA RecordBounded ==
  ASSUME NEW w \in Seq(Ages), Len(w) <= Cap
  PROVE  /\ Record(w) \in Seq(Ages)
         /\ Len(Record(w)) <= Cap
         /\ Len(Record(w)) <= Len(w) + 1
<1>1. 0 \in Ages
  BY WindowAssumption DEF Ages
<1>2. Prune(w) \in Seq(Ages) /\ Len(Prune(w)) <= Len(w)
  BY PruneShortens
<1>3. CASE Len(Prune(w)) < Cap
  BY <1>1, <1>2, <1>3, ThresholdAssumption DEF Record
<1>4. CASE ~(Len(Prune(w)) < Cap)
  BY <1>2, <1>4, ThresholdAssumption DEF Record
<1> QED
  BY <1>3, <1>4

\* Every delay of the table is at least a tick.
LEMMA DelayPositive ==
  ASSUME NEW n \in Nat \ {0}
  PROVE  Delay(n) \in Nat \ {0}
BY BackoffAssumption DEF Delay

\* The types of the states a boot can start in.
LEMMA StationTypes ==
  ASSUME NEW s \in Stations
  PROVE  /\ s.link \in {"connecting", "associated", "online", "down"}
         /\ s.failures \in 0..Len(Backoff)
         /\ s.backoff \in Nat \cup {Off}
         /\ s.led \in LedStates
         /\ s.backoff # Off <=> s.link = "down"
         /\ s.link = "online" => s.led = "CONNECTED_IDLE"
         /\ s.link = "down" => s.led = "RECONNECT_BACKOFF"
         /\ s.link = "connecting" => s.led # "CONNECTED_IDLE"
<1>1. \A n \in 1..Len(Backoff) : Delay(n) \in Nat \ {0}
  BY DelayPositive, BackoffAssumption
<1> QED
  BY <1>1, BackoffAssumption DEF Stations, Station, LedStates, Off

\* What a boot may leave of the LED is typed, and dark when the timer is stopped.
LEMMA LampTypes ==
  ASSUME NEW c \in LedStates, NEW p \in Lamps(c)
  PROVE  /\ p[1] \in {0, 1} /\ p[2] \in {"on", "off"}
         /\ Pattern(c) \in LedStates \cup {NoBlink}
         /\ Pattern(c) = NoBlink => c = "CONNECTED_IDLE" /\ p[2] = "off"
<1>1. CASE c = "CONNECTED_IDLE"
  BY <1>1 DEF Lamps, Pattern, LedStates, NoBlink
<1>2. CASE c = "WIFI_CONNECTING"
  BY <1>2 DEF Lamps, Pattern, LedStates, NoBlink
<1>3. CASE c \notin {"CONNECTED_IDLE", "WIFI_CONNECTING"}
  BY <1>3 DEF Lamps, Pattern, LedStates, NoBlink
<1> QED
  BY <1>1, <1>2, <1>3

\* led_set_state leaves the LED and its alarm typed.
LEMMA LedTypes ==
  ASSUME LampOK, oneshot \in Nat \cup {Off}, NEW c \in LedStates, LedSetState(c)
  PROVE  LampOK' /\ oneshot' \in Nat \cup {Off}
BY LedAssumption DEF LampOK, LedSetState, Pattern, LedStates, NoBlink

\* With no event to hand out, the loop is at the first subscriber.
IdleAtFirst == events = <<>> => stage = "wifi"

\* No lease that would stop the backoff timer waits behind its arming.
TimerUncontested ==
  backoff # Off => events = <<>> \/ (Len(events) = 1 /\ stage = "health")

\* The inductive invariant.  OneRetrySource needs both: a disconnection posted to
\* an empty queue is one wifi_event.c has yet to see, and no event it has yet to
\* see can stop the timer of a station that is down.
IndInv == TypeOK /\ RingNeverFull /\ IdleAtFirst /\ TimerUncontested /\ OneRetrySource

LEMMA IndInit == Init => IndInv
<1> SUFFICES ASSUME Init
             PROVE  IndInv
  OBVIOUS
<1>1. TypeOK
  <2>1. PICK s \in Stations : link = s.link /\ failures = s.failures
                              /\ backoff = s.backoff /\ led = s.led
    BY DEF Init
  <2>2. /\ episode_open \in BOOLEAN
        /\ recovering \in BOOLEAN
        /\ reason \in BOOLEAN
        /\ out \in BOOLEAN
    BY Zenon DEF Init
  <2>3. LampOK
    BY StationTypes, LampTypes DEF Init, LampOK
  <2> QED
    BY <2>1, <2>2, <2>3, StationTypes, ThresholdAssumption DEF Init, TypeOK
<1>2. RingNeverFull
  BY ThresholdAssumption DEF Init, RingNeverFull
<1>3. OneRetrySource
  BY StationTypes DEF Init, OneRetrySource, Unhandled, Off
<1>4. IdleAtFirst /\ TimerUncontested
  BY DEF Init, IdleAtFirst, TimerUncontested
<1> QED
  BY <1>1, <1>2, <1>3, <1>4 DEF IndInv

Flags ==
  /\ episode_open \in BOOLEAN
  /\ recovering \in BOOLEAN
  /\ reason \in BOOLEAN
  /\ out \in BOOLEAN

\* The flags stay flags: the Boolean part of the types.
LEMMA FlagsNext == Flags /\ [Next]_vars => Flags'
<1> SUFFICES ASSUME Flags, [Next]_vars
             PROVE  Flags'
  OBVIOUS
<1> USE DEF Flags, health, history
<1>1. CASE Driver
  BY <1>1, Zenon DEF Driver, Associate, Lease, LoseLease, Disconnect, Untouched
<1>2. CASE WifiHandler \/ Retry \/ LedPeriodic \/ OneShotFires \/ Tick
  BY <1>2, Zenon DEF WifiHandler, Retry, LedPeriodic, OneShotFires, Tick
<1>3. CASE HealthHandler
  <2>1. CASE HealthOnDisconnected
    <3>1. CASE Recover
      BY <1>3, <2>1, <3>1, Zenon DEF HealthHandler, HealthOnDisconnected, Recover, PersistReason
    <3>2. CASE ~Recover
      BY <1>3, <2>1, <3>2, Zenon DEF HealthHandler, HealthOnDisconnected
    <3> QED
      BY <3>1, <3>2
  <2>2. CASE HealthOnGotIp
    BY <1>3, <2>2, Zenon DEF HealthHandler, HealthOnGotIp
  <2> QED
    BY <1>3, <2>1, <2>2 DEF HealthHandler
<1>4. CASE Reboot
  BY <1>4, Zenon DEF Reboot
<1>5. CASE UNCHANGED vars
  BY <1>5, Zenon DEF vars
<1> QED
  BY <1>1, <1>2, <1>3, <1>4, <1>5, Zenon DEF Next

\* The ring over a disconnection: typed, within the capacity, and short of the
\* threshold until recovery starts.
LEMMA RingOnDisconnected ==
  ASSUME TypeOK, RingNeverFull, HealthOnDisconnected
  PROVE  /\ win' \in Seq(Ages)
         /\ Len(win') <= Cap
         /\ LampOK'
         /\ oneshot' \in Nat \cup {Off}
         /\ RingNeverFull'
<1> USE ThresholdAssumption, LedAssumption
<1>1. CASE recovering
  BY <1>1 DEF HealthOnDisconnected, TypeOK, LampOK, RingNeverFull, health, lights, lamp
<1>2. CASE ~recovering
  <2>1. win' = IF episode_open THEN win ELSE Record(win)
    BY <1>2 DEF HealthOnDisconnected
  <2>2. /\ win' \in Seq(Ages)
        /\ Len(win') <= Cap
    BY <2>1, RecordBounded DEF TypeOK
  <2>3. CASE Len(win') >= Threshold
    <3>1. Recover
      BY <1>2, <2>3 DEF HealthOnDisconnected
    <3>2. LampOK' /\ oneshot' \in Nat \cup {Off}
      BY <3>1, LedTypes DEF Recover, LedStates, TypeOK
    <3> QED
      BY <2>2, <3>1, <3>2 DEF Recover, RingNeverFull
  <2>4. CASE ~(Len(win') >= Threshold)
    <3>1. UNCHANGED lights
      BY <1>2, <2>4 DEF HealthOnDisconnected
    <3> QED
      BY <2>2, <2>4, <3>1 DEF lights, lamp, TypeOK, LampOK, RingNeverFull
  <2> QED
    BY <2>3, <2>4
<1> QED
  BY <1>1, <1>2

\* Types and the ring, over every step.
LEMMA RingNext ==
  ASSUME TypeOK, RingNeverFull, [Next]_vars
  PROVE  TypeOK' /\ RingNeverFull'
<1> USE BackoffAssumption, WindowAssumption, ThresholdAssumption, LedAssumption
<1>0. Flags'
  BY FlagsNext DEF TypeOK, Flags
<1>a. \A n \in Nat \ {0} : Delay(n) \in Nat \ {0}
  BY DelayPositive
<1>1. CASE Driver
  <2>1. /\ link' \in {"connecting", "associated", "online", "down"}
        /\ events' \in Seq(Events)
    <3>1. CASE Associate \/ LoseLease
      BY <3>1 DEF Associate, LoseLease, TypeOK
    <3>2. CASE Lease
      BY <3>2 DEF Lease, Post, TypeOK, Events
    <3>3. CASE Disconnect
      BY <3>3 DEF Disconnect, Post, TypeOK, Events
    <3> QED
      BY <1>1, <3>1, <3>2, <3>3 DEF Driver
  <2>2. outages' \subseteq 0..Window
    <3>1. outages' \subseteq outages \cup {0}
      BY <1>1, Zenon DEF Driver, Associate, Lease, LoseLease, Disconnect, history
    <3> QED
      BY <3>1 DEF TypeOK
  <2>3. Untouched
    BY <1>1 DEF Driver, Associate, Lease, LoseLease, Disconnect
  <2> QED
    BY <1>0, <2>1, <2>2, <2>3 DEF Untouched, TypeOK, Flags, RingNeverFull, wifi, lights, lamp, LampOK, health
<1>2. CASE WifiHandler
  <2>1. CASE WifiOnDisconnected
    <3>1. Counted(failures) \in 1..Len(Backoff)
      BY DEF Counted, TypeOK
    <3>2. /\ failures' \in 0..Len(Backoff)
          /\ backoff' \in Nat \cup {Off}
      BY <1>a, <2>1, <3>1 DEF WifiOnDisconnected, TypeOK
    <3>3. LampOK' /\ oneshot' \in Nat \cup {Off}
      BY <2>1, LedTypes DEF WifiOnDisconnected, TypeOK, LedStates
    <3> QED
      BY <1>0, <1>2, <3>2, <3>3 DEF WifiHandler, TypeOK, Flags, RingNeverFull, radio, health, history
  <2>2. CASE WifiOnGotIp
    <3>1. LampOK' /\ oneshot' \in Nat \cup {Off}
      BY <2>2, LedTypes DEF WifiOnGotIp, TypeOK, LedStates
    <3> QED
      BY <1>0, <1>2, <2>2, <3>1 DEF WifiHandler, WifiOnGotIp, TypeOK, Flags,
           RingNeverFull, radio, health, history, Off
  <2> QED
    BY <1>2, <2>1, <2>2 DEF WifiHandler
<1>3. CASE HealthHandler
  <2>1. events' \in Seq(Events)
    BY <1>3 DEF HealthHandler, TypeOK
  <2>2. /\ win' \in Seq(Ages)
        /\ Len(win') <= Cap
        /\ LampOK'
        /\ oneshot' \in Nat \cup {Off}
        /\ RingNeverFull'
    <3>1. CASE HealthOnDisconnected
      BY <3>1, RingOnDisconnected
    <3>2. CASE HealthOnGotIp
      BY <3>2 DEF HealthOnGotIp, TypeOK, LampOK, RingNeverFull, lights, lamp
    <3> QED
      BY <1>3, <3>1, <3>2 DEF HealthHandler
  <2> QED
    BY <1>0, <1>3, <2>1, <2>2 DEF HealthHandler, TypeOK, Flags, wifi, history
<1>4. CASE Retry \/ OneShotFires \/ LedPeriodic
  <2>1. LampOK'
    BY <1>4 DEF Retry, OneShotFires, LedPeriodic, TypeOK, LampOK, lights, lamp
  <2> QED
    BY <1>0, <1>4, <2>1 DEF Retry, OneShotFires, LedPeriodic, TypeOK, Flags, RingNeverFull,
         radio, wifi, lights, health, history, Off
<1>5. CASE Reboot
  <2>1. PICK s \in Stations : link' = s.link /\ failures' = s.failures
                              /\ backoff' = s.backoff /\ led' = s.led
    BY <1>5 DEF Reboot
  <2>2. LampOK'
    BY <1>5, StationTypes, LampTypes DEF Reboot, LampOK
  <2> QED
    BY <1>0, <1>5, <2>1, <2>2, StationTypes DEF Reboot, TypeOK, Flags, RingNeverFull, Off
<1>6. CASE Tick
  <2>1. /\ win' \in Seq(Ages)
        /\ Len(win') = Len(win)
    <3>1. \A a \in Ages : Older(a) \in Ages
      BY DEF Older, Ages
    <3>2. win' = [i \in 1..Len(win) |-> Older(win[i])]
      BY <1>6 DEF Tick, TypeOK
    <3>3. Len(win) \in Nat /\ \A i \in 1..Len(win) : win[i] \in Ages
      BY DEF TypeOK
    <3>4. win' \in [1..Len(win) -> Ages]
      BY <3>1, <3>2, <3>3
    <3>5. win' \in Seq(Ages)
      BY <3>3, <3>4, SeqDef
    <3> QED
      BY <3>3, <3>4, <3>5, LenProperties
  <2>2. backoff' \in Nat \cup {Off} /\ oneshot' \in Nat \cup {Off}
    BY <1>6 DEF Tick, Quiet, Elapse, TypeOK, Off
  <2>3. outages' \subseteq 0..Window
    BY <1>6 DEF Tick
  <2> QED
    BY <1>0, <1>6, <2>1, <2>2, <2>3 DEF Tick, TypeOK, LampOK, lamp, Flags, RingNeverFull, radio
<1>7. CASE UNCHANGED vars
  BY <1>7 DEF vars, TypeOK, LampOK, lamp, RingNeverFull, radio, wifi, lights, health, history
<1> QED
  BY <1>1, <1>2, <1>3, <1>4, <1>5, <1>6, <1>7 DEF Next

\* The chain of retries, over every step.
LEMMA RetryNext ==
  ASSUME TypeOK, OneRetrySource, IdleAtFirst, TimerUncontested, [Next]_vars
  PROVE  OneRetrySource'
<1> USE DEF OneRetrySource, Unhandled, IdleAtFirst, TimerUncontested, TypeOK, Off
<1>a. \A n \in Nat \ {0} : Delay(n) \in Nat \ {0}
  BY DelayPositive
<1>1. CASE Driver
  <2>1. CASE Associate \/ LoseLease
    BY <2>1 DEF Associate, LoseLease, Untouched, wifi
  <2>2. CASE Lease
    BY <2>2 DEF Lease, Post, Untouched, wifi, Events
  <2>3. CASE Disconnect
    BY <2>3 DEF Disconnect, Post, Untouched, wifi, Events
  <2> QED
    BY <1>1, <2>1, <2>2, <2>3 DEF Driver
<1>2. CASE WifiHandler
  <2>1. CASE Head(events) = "disconnected"
    <3>1. Counted(failures) \in Nat \ {0}
      BY BackoffAssumption DEF Counted
    <3>2. link = "down" /\ backoff = -1 /\ Len(events) = 1
      <4>1. phase = "up" /\ stage = "wifi" /\ 1 \in DOMAIN events /\ events[1] = "disconnected"
        BY <1>2, <2>1 DEF WifiHandler
      <4> QED
        BY <4>1
    <3>3. backoff' \in Nat
      BY <1>a, <1>2, <2>1, <3>1, <3>2 DEF WifiHandler, WifiOnDisconnected
    <3> QED
      BY <1>2, <2>1, <3>2, <3>3 DEF WifiHandler, radio
  <2>2. CASE Head(events) = "got_ip"
    <3>1. phase = "up" /\ stage = "wifi" /\ 1 \in DOMAIN events /\ events[1] = "got_ip"
      BY <1>2, <2>2 DEF WifiHandler
    <3>2. backoff = -1 /\ backoff' = -1
      BY <1>2, <2>2, <3>1 DEF WifiHandler, WifiOnGotIp
    <3>3. /\ \A i \in DOMAIN events : events[i] = "disconnected" => i = Len(events) /\ link = "down"
          /\ link = "down" => events[Len(events)] = "disconnected" /\ Len(events) > 1
      BY <3>1, <3>2
    <3>4. UNCHANGED <<link, events, phase>>
      BY <1>2 DEF WifiHandler, radio
    <3> QED
      BY <3>1, <3>2, <3>3, <3>4
  <2> QED
    BY <1>2, <2>1, <2>2 DEF WifiHandler
<1>3. CASE HealthHandler
  <2>1. phase = "up" /\ stage = "health" /\ stage' = "wifi" /\ events # <<>>
    BY <1>3 DEF HealthHandler
  <2>2. /\ Len(events') = Len(events) - 1
        /\ \A i \in DOMAIN events' : i + 1 \in DOMAIN events /\ events'[i] = events[i + 1]
    BY <1>3 DEF HealthHandler
  <2>3. /\ Len(events') \in Nat
        /\ DOMAIN events' = 1..Len(events')
        /\ events' = <<>> <=> Len(events') = 0
    <3>1. events' \in Seq(Events)
      BY <1>3, <2>1 DEF HealthHandler
    <3> QED
      BY <3>1, EmptySeq
  <2>4. link' = link /\ backoff' = backoff /\ phase' = phase
    BY <1>3 DEF HealthHandler, wifi
  <2>5. ASSUME NEW i \in DOMAIN events', events'[i] = "disconnected"
        PROVE  i = Len(events') /\ link = "down" /\ backoff = -1
    <3>1. i + 1 \in DOMAIN events /\ events[i + 1] = "disconnected" /\ i + 1 > 1
      BY <2>2, <2>3, <2>5
    <3> QED
      BY <2>1, <2>2, <2>3, <3>1
  <2>6. ASSUME link = "down", backoff = -1
        PROVE  events' # <<>> /\ events'[Len(events')] = "disconnected"
    <3>1. events[Len(events)] = "disconnected" /\ Len(events) > 1
      BY <2>1, <2>6
    <3> QED
      BY <2>2, <2>3, <3>1
  <2>7. backoff # -1 => link = "down"
    BY <2>1
  <2> QED
    BY <2>1, <2>4, <2>5, <2>6, <2>7
<1>4. CASE Retry
  BY <1>4 DEF Retry
<1>5. CASE OneShotFires \/ LedPeriodic
  BY <1>5 DEF OneShotFires, LedPeriodic, radio, wifi
<1>6. CASE Reboot
  <2>1. PICK s \in Stations : link' = s.link /\ backoff' = s.backoff
    BY <1>6 DEF Reboot
  <2>2. s.backoff # Off <=> s.link = "down"
    BY StationTypes
  <2> QED
    BY <1>6, <2>1, <2>2 DEF Reboot
<1>7. CASE Tick
  BY <1>7 DEF Tick, Quiet, Elapse, radio
<1>8. CASE UNCHANGED vars
  BY <1>8 DEF vars, radio, wifi
<1> QED
  BY <1>1, <1>2, <1>3, <1>4, <1>5, <1>6, <1>7, <1>8 DEF Next

\* The event loop, over every step.
LEMMA IdleNext == TypeOK /\ IdleAtFirst /\ [Next]_vars => IdleAtFirst'
BY DEF TypeOK, IdleAtFirst, Next, vars, radio, Driver, Associate, Lease, LoseLease, Disconnect,
       Untouched, Post, WifiHandler, HealthHandler, Retry, LedPeriodic, OneShotFires, Reboot, Tick

\* The timer and the events still to be seen, over every step.
LEMMA TimerNext ==
  ASSUME TypeOK, OneRetrySource, IdleAtFirst, TimerUncontested, [Next]_vars
  PROVE  TimerUncontested'
<1> USE DEF OneRetrySource, Unhandled, IdleAtFirst, TimerUncontested, TypeOK, Off
<1>1. CASE Driver
  BY <1>1 DEF Driver, Associate, Lease, LoseLease, Disconnect, Untouched, Post, wifi, history
<1>2. CASE WifiHandler
  <2>1. CASE Head(events) = "disconnected"
    <3>1. phase = "up" /\ stage = "wifi" /\ 1 \in DOMAIN events /\ events[1] = "disconnected"
      BY <1>2, <2>1 DEF WifiHandler
    <3>2. Len(events) = 1
      BY <3>1
    <3> QED
      BY <1>2, <3>2 DEF WifiHandler, radio
  <2>2. CASE Head(events) = "got_ip"
    BY <1>2, <2>2 DEF WifiHandler, WifiOnGotIp
  <2> QED
    BY <1>2, <2>1, <2>2 DEF WifiHandler
<1>3. CASE HealthHandler
  BY <1>3 DEF HealthHandler, wifi
<1>4. CASE Retry \/ OneShotFires \/ LedPeriodic
  BY <1>4 DEF Retry, OneShotFires, LedPeriodic, radio, wifi
<1>5. CASE Reboot
  BY <1>5 DEF Reboot
<1>6. CASE Tick
  BY <1>6 DEF Tick, Quiet, radio
<1>7. CASE UNCHANGED vars
  BY <1>7 DEF vars, radio, wifi
<1> QED
  BY <1>1, <1>2, <1>3, <1>4, <1>5, <1>6, <1>7 DEF Next

\* The latest event, and wifi_event.c has yet to see it.
Unseen(e) ==
  events # <<>> /\ events[Len(events)] = e /\ (Len(events) > 1 \/ stage = "wifi")

\* A stopped pattern leaves the pin off, and a disconnection on its way from
\* wifi_event.c to health.c has started one.
PinFollows ==
  /\ blink = NoBlink => level = "off"
  /\ stage = "health" /\ events # <<>> /\ Head(events) = "disconnected" => blink # NoBlink

\* What the LED shows is right, or the event that will put it right is coming.
OnlineTold == link = "online" => blink = NoBlink \/ Unseen("got_ip")

DownTold ==
  link = "down" => \/ Unseen("disconnected")
                   \/ blink # NoBlink /\ (recovering \/ blink = "RECONNECT_BACKOFF")

JoiningTold ==
  link = "connecting" => /\ blink # NoBlink
                         /\ events = <<>> \/ (Len(events) = 1 /\ stage = "health")

LightInv == PinFollows /\ OnlineTold /\ DownTold /\ JoiningTold

LEMMA LightInit == Init => LightInv
BY StationTypes, LampTypes
   DEF Init, LightInv, PinFollows, OnlineTold, DownTold, JoiningTold, Unseen, Pattern,
       Lamps, Stations, Station, NoBlink

\* The handlers of the first subscriber: what they show fits the latest event, or
\* a later one is still to come.
LEMMA LightWifi ==
  ASSUME IndInv, LightInv, WifiHandler
  PROVE  LightInv'
<1> USE DEF IndInv, TypeOK, LightInv, PinFollows, OnlineTold, DownTold, JoiningTold, Unseen, Off
<1>0. /\ phase = "up" /\ stage = "wifi" /\ stage' = "health"
      /\ 1 \in DOMAIN events /\ events[1] = Head(events) /\ events # <<>>
      /\ UNCHANGED <<link, events, recovering>>
  BY DEF WifiHandler, radio, health
<1>1. CASE Head(events) = "disconnected"
  <2>1. link = "down"
    BY <1>0, <1>1 DEF OneRetrySource, Unhandled
  <2>2. blink' = "RECONNECT_BACKOFF"
    BY <1>1 DEF WifiHandler, WifiOnDisconnected, LedSetState, Pattern
  <2> QED
    BY <1>0, <2>1, <2>2 DEF NoBlink
<1>2. CASE Head(events) = "got_ip"
  <2>1. blink' = NoBlink /\ level' = "off"
    BY <1>2 DEF WifiHandler, WifiOnGotIp, LedSetState, Pattern
  <2>2. link # "connecting"
    BY <1>0
  <2>3. link = "down" => Unseen("disconnected") /\ Len(events) > 1
    BY <1>0, <1>2 DEF OneRetrySource, Unhandled, TimerUncontested
  <2> QED
    BY <1>0, <1>2, <2>1, <2>2, <2>3
<1> QED
  BY <1>1, <1>2 DEF WifiHandler

\* The handlers of the second: only a disconnection that reaches the threshold
\* changes the LED, and what comes after it in the queue is untouched.
LEMMA LightHealth ==
  ASSUME IndInv, LightInv, HealthHandler
  PROVE  LightInv'
<1> USE DEF IndInv, TypeOK, LightInv, PinFollows, OnlineTold, DownTold, JoiningTold, Unseen
<1>0. /\ stage = "health" /\ stage' = "wifi" /\ events # <<>> /\ link' = link
      /\ events' = Tail(events)
  BY DEF HealthHandler
<1>1. /\ Len(events') = Len(events) - 1
      /\ events' = <<>> <=> Len(events) = 1
      /\ Len(events) > 1 => events'[Len(events')] = events[Len(events)]
  <2>1. /\ events' \in Seq(Events)
        /\ Len(events') = Len(events) - 1
        /\ \A i \in 1..Len(events') : events'[i] = events[i + 1]
    BY <1>0
  <2>2. events' = <<>> <=> Len(events') = 0
    BY <2>1, EmptySeq
  <2> QED
    BY <1>0, <2>1, <2>2
<1>2. \/ UNCHANGED <<blink, level>> /\ (recovering => recovering')
      \/ Head(events) = "disconnected" /\ blink' = "SOFT_RECOVERY" /\ recovering'
  BY DEF HealthHandler, HealthOnDisconnected, HealthOnGotIp, Recover, LedSetState, Pattern,
         lights, lamp, health
<1>3. CASE UNCHANGED <<blink, level>> /\ (recovering => recovering')
  BY <1>0, <1>1, <1>3
<1>4. CASE Head(events) = "disconnected" /\ blink' = "SOFT_RECOVERY" /\ recovering'
  BY <1>0, <1>1, <1>4 DEF NoBlink
<1> QED
  BY <1>2, <1>3, <1>4

LEMMA LightNext ==
  ASSUME IndInv, LightInv, [Next]_vars
  PROVE  LightInv'
<1> USE DEF IndInv, TypeOK, LightInv, PinFollows, OnlineTold, DownTold, JoiningTold, Unseen
<1>1. CASE Driver
  <2>1. UNCHANGED <<blink, level, stage, recovering>>
    BY <1>1 DEF Driver, Associate, Lease, LoseLease, Disconnect, Untouched, lights, lamp, health
  <2>2. CASE Associate \/ LoseLease
    BY <2>1, <2>2 DEF Associate, LoseLease
  <2>3. CASE Lease
    BY <2>1, <2>3 DEF Lease, Post, IdleAtFirst, Events
  <2>4. CASE Disconnect
    BY <2>1, <2>4 DEF Disconnect, Post, IdleAtFirst, Events
  <2> QED
    BY <1>1, <2>2, <2>3, <2>4 DEF Driver
<1>2. CASE WifiHandler
  BY <1>2, LightWifi
<1>3. CASE HealthHandler
  BY <1>3, LightHealth
<1>4. CASE Retry
  BY <1>4 DEF Retry, TimerUncontested, OneRetrySource, Unhandled, Off, lights, lamp, health
<1>5. CASE LedPeriodic
  BY <1>5 DEF LedPeriodic, radio, health
<1>6. CASE OneShotFires
  BY <1>6 DEF OneShotFires, radio, lamp, health
<1>7. CASE Reboot
  <2>1. PICK s \in Stations : /\ link' = s.link /\ blink' = Pattern(s.led)
                              /\ \E p \in Lamps(s.led) : level' = p[2]
    BY <1>7 DEF Reboot
  <2> QED
    BY <1>7, <2>1, StationTypes, LampTypes DEF Reboot, Pattern, NoBlink
<1>8. CASE Tick
  BY <1>8 DEF Tick, radio, lamp
<1>9. CASE UNCHANGED vars
  BY <1>9 DEF vars, radio, lights, lamp, health
<1> QED
  BY <1>1, <1>2, <1>3, <1>4, <1>5, <1>6, <1>7, <1>8, <1>9 DEF Next

LEMMA IndNext == IndInv /\ [Next]_vars => IndInv'
BY RingNext, IdleNext, RetryNext, TimerNext DEF IndInv

\* IndInv holds in every reachable state.
THEOREM Inductive == Spec => []IndInv
BY IndInit, IndNext, PTL DEF Spec

\* Every variable keeps its type, for any table, window, threshold and ring.
THEOREM TypeCorrect == Spec => []TypeOK
<1>1. IndInv => TypeOK
  BY DEF IndInv
<1> QED
  BY <1>1, Inductive, PTL

\* The ring never fills before recovery starts, so record never drops an outage
\* whatever threshold Kconfig allows (health_window.h:20-24).
THEOREM RingCorrect == Spec => []RingNeverFull
<1>1. IndInv => RingNeverFull
  BY DEF IndInv
<1> QED
  BY <1>1, Inductive, PTL

\* A station that is down always has exactly one retry coming, and a station that
\* is joining or joined has none.
THEOREM RetryCorrect == Spec => []OneRetrySource
<1>1. IndInv => OneRetrySource
  BY DEF IndInv
<1> QED
  BY <1>1, Inductive, PTL

\* Once the events are handled the LED is dark while the station is online, blinks
\* while it is not joined, and shows the backoff while it is down, for any table, window and threshold.
THEOREM LightCorrect == Spec => []LightTells
<1>1. IndInv /\ LightInv /\ [Next]_vars => LightInv'
  BY LightNext
<1>2. LightInv => LightTells
  BY DEF LightInv, PinFollows, OnlineTold, DownTold, JoiningTold, Unseen, LightTells, Dark
<1> QED
  BY <1>1, <1>2, LightInit, Inductive, PTL DEF Spec
-----------------------------------------------------------------------------
(* The window counts outages *)

InWindow(w) == {w[i] : i \in {j \in DOMAIN w : w[j] <= Window}}

\* Ages fall from each entry to the next, unless they have saturated.
Falling(w) == \A i, j \in DOMAIN w : i < j => w[j] < w[i] \/ w[i] = Window + 1

\* Where prune_stale cuts: what goes is stale and, ages falling, what stays is not.
LEMMA PruneCuts ==
  ASSUME NEW w \in Seq(Ages), Falling(w)
  PROVE  \E k \in 1..(Len(w) + 1) :
           /\ Prune(w) = SubSeq(w, k, Len(w))
           /\ \A j \in 1..Len(w) : w[j] <= Window <=> k <= j
<1> DEFINE kept == {i \in 1..(Len(w) + 1) : i = Len(w) + 1 \/ w[i] <= Window}
<1>1. kept \in SUBSET Nat /\ Len(w) + 1 \in kept
  OBVIOUS
<1>2. \E i \in kept : \A j \in kept : i <= j
  <2> HIDE DEF kept
  <2> QED
    BY <1>1, LeastNatural
<1> DEFINE k == FirstFresh(w)
<1>3. k \in kept /\ \A j \in kept : k <= j
  BY <1>2 DEF FirstFresh
<1>4. ASSUME NEW j \in 1..Len(w)
      PROVE  w[j] <= Window <=> k <= j
  <2>1. w[j] <= Window => k <= j
    BY <1>3
  <2>2. CASE k = j
    BY <1>3, <2>2
  <2>3. CASE k < j
    <3>1. k \in 1..Len(w) /\ w[k] <= Window
      BY <1>3, <2>3
    <3>2. w[j] < w[k] \/ w[k] = Window + 1
      BY <2>3, <3>1 DEF Falling
    <3>3. w[k] \in Nat /\ w[j] \in Nat
      BY <3>1, WindowAssumption DEF Ages
    <3>4. w[j] <= Window /\ k <= j
      <4>1. k \in Nat /\ j \in Nat
        BY <3>1
      <4> HIDE DEF k
      <4> QED
        BY <2>3, <3>1, <3>2, <3>3, <4>1, WindowAssumption
    <3> QED
      BY <3>4
  <2>4. k \in Nat
    BY <1>1, <1>3
  <2> HIDE DEF k
  <2> QED
    BY <2>1, <2>2, <2>3, <2>4
<1>5. Prune(w) = SubSeq(w, k, Len(w)) /\ k \in 1..(Len(w) + 1)
  BY <1>3 DEF Prune
<1> HIDE DEF k
<1> QED
  BY <1>4, <1>5

\* What prune_stale leaves: the ages within the window, each once and falling.
LEMMA PruneKeeps ==
  ASSUME NEW w \in Seq(Ages), Falling(w)
  PROVE  /\ Prune(w) \in Seq(Ages)
         /\ InWindow(w) = {Prune(w)[i] : i \in DOMAIN Prune(w)}
         /\ \A i \in DOMAIN Prune(w) : Prune(w)[i] <= Window
         /\ \A i, j \in DOMAIN Prune(w) : i < j => Prune(w)[j] < Prune(w)[i]
<1> DEFINE p == Prune(w)
<1>1. PICK k \in 1..(Len(w) + 1) :
        /\ p = SubSeq(w, k, Len(w))
        /\ \A j \in 1..Len(w) : w[j] <= Window <=> k <= j
  BY PruneCuts
<1>2. p \in Seq(Ages)
  BY PruneShortens
<1> HIDE DEF p
<1>3. /\ Len(p) = Len(w) + 1 - k
      /\ \A i \in 1..Len(p) : p[i] = w[k + i - 1] /\ k + i - 1 \in 1..Len(w)
  <2>1. CASE k = Len(w) + 1
    <3>1. Len(p) = 0
      BY <1>1, <2>1
    <3> QED
      BY <2>1, <3>1
  <2>2. CASE k \in 1..Len(w)
    BY <1>1, <2>2
  <2> QED
    BY <2>1, <2>2
<1>4. DOMAIN p = 1..Len(p) /\ DOMAIN w = 1..Len(w) /\ Len(w) \in Nat /\ Len(p) \in Nat
  BY <1>2
<1>5. \A i \in DOMAIN p : p[i] <= Window
  BY <1>1, <1>3, <1>4
<1>6. ASSUME NEW i \in DOMAIN p, NEW j \in DOMAIN p, i < j
      PROVE  p[j] < p[i]
  <2>0. i \in 1..Len(p) /\ j \in 1..Len(p)
    BY <1>4, <1>6
  <2>1. p[i] = w[k + i - 1] /\ p[j] = w[k + j - 1] /\ k + i - 1 < k + j - 1
        /\ k + i - 1 \in DOMAIN w /\ k + j - 1 \in DOMAIN w
    <3>1. k + i - 1 < k + j - 1
      BY <1>1, <1>4, <1>6, <2>0
    <3> QED
      BY <1>3, <1>4, <2>0, <3>1
  <2>2. p[j] < p[i] \/ p[i] = Window + 1
    BY <2>1 DEF Falling
  <2> QED
    BY <1>5, <2>2, WindowAssumption
<1>7. InWindow(w) = {p[i] : i \in DOMAIN p}
  <2>1. ASSUME NEW j \in DOMAIN w, w[j] <= Window
        PROVE  \E i \in DOMAIN p : p[i] = w[j]
    <3>1. k <= j
      BY <1>1, <1>4, <2>1
    <3>2. j - k + 1 \in 1..Len(p) /\ k + (j - k + 1) - 1 = j
      BY <1>1, <1>3, <1>4, <2>1, <3>1
    <3>3. j - k + 1 \in DOMAIN p /\ p[j - k + 1] = w[j]
      BY <1>3, <1>4, <3>2
    <3> QED
      BY <3>3
  <2>2. ASSUME NEW i \in DOMAIN p
        PROVE  \E j \in DOMAIN w : w[j] <= Window /\ p[i] = w[j]
    BY <1>3, <1>4, <1>5
  <2> QED
    BY <2>1, <2>2 DEF InWindow
<1> QED
  BY <1>2, <1>5, <1>6, <1>7 DEF p

LastIs(e) == events # <<>> /\ events[Len(events)] = e

\* The latest outage is not in the ring yet: its disconnection is still to reach
\* health.c, with the episode closed or a lease before it.
Pending == LastIs("disconnected") /\ (Len(events) > 1 \/ ~episode_open)

\* A disconnection is the last event, for only the backoff timer, which it arms,
\* brings the station on; the timer expires with the queue empty.
QueueShape ==
  /\ \A i \in DOMAIN events :
       events[i] = "disconnected" => i = Len(events) /\ link = "down"
  /\ backoff = 0 => events = <<>>

\* The station is down for at least a tick after an outage begins.
FreshIsDown == 0 \in outages => link = "down" /\ backoff # 0

EpisodeFollows == out = (LastIs("disconnected") \/ (events = <<>> /\ episode_open))

Recorded ==
  /\ outages = InWindow(win) \cup (IF Pending THEN {0} ELSE {})
  /\ Pending => \A i \in DOMAIN win : win[i] # 0
  /\ Falling(win)

\* Inductive with IndInv.  Recovery, once it started, records nothing more.
AccountInv ==
  phase = "up" => /\ QueueShape /\ FreshIsDown
                  /\ ~recovering => EpisodeFollows /\ Recorded

\* A station that is not down has no timer armed and no disconnection pending.
LEMMA NotDown ==
  ASSUME IndInv, QueueShape, phase = "up", link # "down"
  PROVE  /\ backoff = Off
         /\ \A i \in DOMAIN events : events[i] = "got_ip"
         /\ ~LastIs("disconnected") /\ ~Pending
<1>1. backoff = Off
  BY DEF IndInv, OneRetrySource
<1>2. events \in Seq(Events)
  BY DEF IndInv, TypeOK
<1>3. \A i \in DOMAIN events : events[i] = "got_ip"
  BY <1>2 DEF QueueShape, Events
<1>4. ~LastIs("disconnected")
  BY <1>2, <1>3 DEF LastIs
<1> QED
  BY <1>1, <1>3, <1>4 DEF Pending

\* An event posted to the queue is its last.
LEMMA Posted ==
  ASSUME IndInv, NEW e \in Events, Post(e)
  PROVE  /\ events' \in Seq(Events) /\ events' # <<>>
         /\ Len(events') = Len(events) + 1 /\ Len(events) \in Nat
         /\ events'[Len(events')] = e
         /\ \A i \in 1..Len(events) : events'[i] = events[i]
         /\ DOMAIN events' = 1..Len(events') /\ DOMAIN events = 1..Len(events)
BY DEF IndInv, TypeOK, Post

\* The driver's steps: an outage begins and its event is on the way.
LEMMA AccountDriver ==
  ASSUME IndInv, AccountInv, Driver
  PROVE  AccountInv'
<1>1. /\ phase = "up" /\ phase' = "up" /\ link # "down"
      /\ UNCHANGED <<backoff, win, episode_open, recovering>>
  BY DEF Driver, Associate, Lease, LoseLease, Disconnect, Untouched, wifi, health
<1>2. QueueShape /\ FreshIsDown /\ (~recovering => EpisodeFollows /\ Recorded)
  BY <1>1 DEF AccountInv
<1>3. /\ backoff = Off /\ 0 \notin outages
      /\ \A i \in DOMAIN events : events[i] = "got_ip"
      /\ ~LastIs("disconnected") /\ ~Pending
  BY <1>1, <1>2, NotDown DEF FreshIsDown
<1>4. CASE Associate \/ LoseLease
  <2>1. UNCHANGED <<events, outages, out>>
    BY <1>4 DEF Associate, LoseLease, history
  <2>2. QueueShape' /\ FreshIsDown'
    BY <1>1, <1>2, <1>3, <2>1 DEF QueueShape, FreshIsDown
  <2>3. ~recovering => EpisodeFollows' /\ Recorded'
    BY <1>1, <1>2, <2>1 DEF EpisodeFollows, Recorded, LastIs, Pending
  <2> QED
    BY <1>1, <2>2, <2>3 DEF AccountInv
<1>5. CASE Lease
  <2>1. Post("got_ip") /\ out' = FALSE /\ outages' = outages
    BY <1>5 DEF Lease
  <2>2. /\ events' # <<>> /\ events'[Len(events')] = "got_ip"
        /\ \A i \in DOMAIN events' : events'[i] = "got_ip"
    BY <1>3, <2>1, Posted DEF Events
  <2>3. ~LastIs("disconnected")' /\ ~Pending'
    BY <2>2 DEF LastIs, Pending
  <2>4. QueueShape' /\ FreshIsDown'
    BY <1>1, <1>3, <2>1, <2>2 DEF QueueShape, FreshIsDown, Off
  <2>5. EpisodeFollows'
    BY <2>1, <2>2, <2>3 DEF EpisodeFollows
  <2>6. ~recovering => Recorded'
    BY <1>1, <1>2, <1>3, <2>1, <2>3 DEF Recorded
  <2> QED
    BY <1>1, <2>4, <2>5, <2>6 DEF AccountInv
<1>6. CASE Disconnect
  <2>1. /\ Post("disconnected") /\ out' = TRUE /\ link' = "down"
        /\ outages' = IF out THEN outages ELSE outages \cup {0}
    BY <1>6 DEF Disconnect
  <2>2. /\ events' # <<>> /\ events'[Len(events')] = "disconnected"
        /\ Len(events') = Len(events) + 1 /\ Len(events) \in Nat
        /\ \A i \in DOMAIN events' : events'[i] = "disconnected" => i = Len(events')
    BY <1>3, <2>1, Posted DEF Events
  <2>3. LastIs("disconnected")' /\ (Pending' = (events # <<>> \/ ~episode_open))
    <3>1. Len(events') > 1 <=> events # <<>>
      <4>1. events \in Seq(Events)
        BY DEF IndInv, TypeOK
      <4> QED
        BY <2>2, <4>1
    <3> QED
      BY <1>1, <2>2, <3>1 DEF LastIs, Pending
  <2>4. QueueShape' /\ FreshIsDown'
    BY <1>1, <1>3, <2>1, <2>2 DEF QueueShape, FreshIsDown, Off
  <2>5. EpisodeFollows'
    BY <2>1, <2>3 DEF EpisodeFollows
  <2>6. ASSUME ~recovering
        PROVE  Recorded'
    <3>1. out <=> (events = <<>> /\ episode_open)
      BY <1>2, <1>3, <2>6 DEF EpisodeFollows
    <3>2. Pending' <=> ~out
      BY <2>3, <3>1
    <3>3. outages = InWindow(win) /\ Falling(win)
      BY <1>2, <1>3, <2>6 DEF Recorded
    <3>4. outages' = InWindow(win) \cup (IF Pending' THEN {0} ELSE {})
      BY <2>1, <3>2, <3>3
    <3>5. \A i \in DOMAIN win : win[i] # 0
      BY <1>3, <3>3, WindowAssumption DEF InWindow
    <3> QED
      BY <1>1, <3>3, <3>4, <3>5 DEF Recorded
  <2> QED
    BY <1>1, <2>4, <2>5, <2>6 DEF AccountInv
<1> QED
  BY <1>4, <1>5, <1>6 DEF Driver

\* The first subscriber only arms or stops the timer.
LEMMA AccountWifi ==
  ASSUME IndInv, AccountInv, WifiHandler
  PROVE  AccountInv'
<1>1. /\ phase = "up" /\ events # <<>> /\ stage = "wifi"
      /\ UNCHANGED <<link, events, phase, win, episode_open, recovering, outages, out>>
  BY DEF WifiHandler, radio, health, history
<1>2. QueueShape /\ FreshIsDown /\ (~recovering => EpisodeFollows /\ Recorded)
  BY <1>1 DEF AccountInv
<1>3. backoff' = Off \/ backoff' \in Nat \ {0}
  <2>1. CASE WifiOnGotIp
    BY <2>1 DEF WifiOnGotIp
  <2>2. CASE WifiOnDisconnected
    <3>1. Counted(failures) \in Nat \ {0}
      BY BackoffAssumption DEF Counted, IndInv, TypeOK
    <3>2. Delay(Counted(failures)) \in Nat \ {0}
      BY <3>1, DelayPositive
    <3>3. backoff # 0 /\ backoff \in Nat \cup {Off}
      BY <1>1, <1>2 DEF QueueShape, IndInv, TypeOK
    <3> QED
      BY <2>2, <3>2, <3>3 DEF WifiOnDisconnected
  <2> QED
    BY <2>1, <2>2 DEF WifiHandler
<1>4. backoff' # 0
  BY <1>3 DEF Off
<1>5. QueueShape' /\ FreshIsDown'
  BY <1>1, <1>2, <1>4 DEF QueueShape, FreshIsDown
<1>6. ~recovering => EpisodeFollows' /\ Recorded'
  BY <1>1, <1>2 DEF EpisodeFollows, Recorded, LastIs, Pending
<1> QED
  BY <1>1, <1>5, <1>6 DEF AccountInv

\* Recording the latest outage leaves an entry for each outage and nothing else.
LEMMA OutageRecorded ==
  ASSUME IndInv, Recorded, Pending, ~recovering
  PROVE  /\ Record(win) \in Seq(Ages)
         /\ {Record(win)[i] : i \in DOMAIN Record(win)} = outages
         /\ \A i, j \in DOMAIN Record(win) : i < j => Record(win)[j] < Record(win)[i]
<1>1. /\ outages = InWindow(win) \cup {0} /\ Falling(win)
      /\ \A i \in DOMAIN win : win[i] # 0
  BY DEF Recorded
<1>2. win \in Seq(Ages) /\ Len(win) < Threshold
  BY DEF IndInv, TypeOK, RingNeverFull
<1> DEFINE p == Prune(win)
           w == Record(win)
<1>3. /\ p \in Seq(Ages)
      /\ InWindow(win) = {p[i] : i \in DOMAIN p}
      /\ \A i \in DOMAIN p : p[i] <= Window
      /\ \A i, j \in DOMAIN p : i < j => p[j] < p[i]
  BY <1>1, <1>2, PruneKeeps
<1>4. w = Append(p, 0)
  <2>1. Len(p) <= Len(win)
    BY <1>2, PruneShortens
  <2>2. Len(p) \in Nat /\ Len(win) \in Nat
    BY <1>2, <1>3
  <2>3. Len(p) < Cap
    <3> HIDE DEF p
    <3> QED
      BY <1>2, <2>1, <2>2, ThresholdAssumption
  <2> QED
    BY <2>3 DEF Record
<1> HIDE DEF p, w
<1>5. 0 \in Ages
  BY WindowAssumption DEF Ages
<1>6. /\ w \in Seq(Ages)
      /\ DOMAIN w = 1..(Len(p) + 1) /\ DOMAIN p = 1..Len(p) /\ Len(p) \in Nat
      /\ w[Len(p) + 1] = 0
      /\ \A i \in 1..Len(p) : w[i] = p[i]
  BY <1>3, <1>4, <1>5
<1>7. \A i \in 1..Len(p) : p[i] # 0 /\ p[i] \in Nat
  <2>1. ASSUME NEW i \in 1..Len(p)
        PROVE  p[i] # 0 /\ p[i] \in Nat
    <3>1. p[i] \in InWindow(win)
      BY <1>3, <1>6
    <3>2. p[i] # 0
      BY <1>1, <3>1 DEF InWindow
    <3>3. p[i] \in Ages
      BY <1>3, <1>6
    <3> QED
      BY <3>2, <3>3, WindowAssumption DEF Ages
  <2> QED
    BY <2>1
<1>8. {w[i] : i \in DOMAIN w} = outages
  <2>1. \A i \in DOMAIN w : w[i] \in InWindow(win) \cup {0}
    BY <1>3, <1>6
  <2>2. \A a \in InWindow(win) : \E i \in DOMAIN w : w[i] = a
    BY <1>3, <1>6
  <2>3. Len(p) + 1 \in DOMAIN w
    BY <1>6
  <2> QED
    BY <1>1, <1>6, <2>1, <2>2, <2>3
<1>9. ASSUME NEW i \in DOMAIN w, NEW j \in DOMAIN w, i < j
      PROVE  w[j] < w[i]
  <2>1. i \in 1..Len(p) /\ w[i] = p[i]
    BY <1>6, <1>9
  <2>2. CASE j = Len(p) + 1
    <3>1. p[i] # 0 /\ p[i] \in Nat
      BY <1>7, <2>1
    <3> QED
      BY <1>6, <2>1, <2>2, <3>1
  <2>3. CASE j \in 1..Len(p)
    BY <1>3, <1>6, <1>9, <2>1, <2>3
  <2> QED
    BY <1>6, <1>9, <2>2, <2>3
<1> QED
  BY <1>6, <1>8, <1>9 DEF w

\* The second: the disconnection of a new episode puts an age of 0 in the ring.
LEMMA AccountHealth ==
  ASSUME IndInv, AccountInv, HealthHandler
  PROVE  AccountInv'
<1>1. /\ phase = "up" /\ events # <<>> /\ events' = Tail(events)
      /\ UNCHANGED <<link, backoff, phase, outages, out>>
  BY DEF HealthHandler, wifi, history
<1>2. QueueShape /\ FreshIsDown /\ (~recovering => EpisodeFollows /\ Recorded)
  BY <1>1 DEF AccountInv
<1>3. /\ events \in Seq(Events) /\ events' \in Seq(Events)
      /\ Len(events') = Len(events) - 1 /\ Len(events) \in Nat
      /\ Head(events) = events[1] /\ 1 \in DOMAIN events
      /\ DOMAIN events' = 1..Len(events') /\ DOMAIN events = 1..Len(events)
      /\ \A i \in 1..Len(events') : events'[i] = events[i + 1]
  <2>1. events \in Seq(Events)
    BY DEF IndInv, TypeOK
  <2> QED
    BY <1>1, <2>1
<1>4. events' = <<>> <=> Len(events) = 1
  BY <1>3, EmptySeq
<1>5. QueueShape' /\ FreshIsDown'
  <2>1. ASSUME NEW i \in DOMAIN events', events'[i] = "disconnected"
        PROVE  i = Len(events') /\ link = "down"
    <3>1. i + 1 \in DOMAIN events /\ events[i + 1] = "disconnected"
      BY <1>3, <2>1
    <3> QED
      BY <1>2, <1>3, <2>1, <3>1 DEF QueueShape
  <2>2. backoff # 0
    BY <1>1, <1>2 DEF QueueShape
  <2> QED
    BY <1>1, <1>2, <2>1, <2>2 DEF QueueShape, FreshIsDown
<1>6. ASSUME ~recovering', Head(events) = "disconnected"
      PROVE  EpisodeFollows' /\ Recorded'
  <2>1. HealthOnDisconnected
    BY <1>6 DEF HealthHandler
  <2>2. ~recovering
    BY <1>6, <2>1, Zenon DEF HealthOnDisconnected, health
  <2>3. win' = (IF episode_open THEN win ELSE Record(win)) /\ episode_open' = TRUE
    BY <2>1, <2>2 DEF HealthOnDisconnected
  <2>4. Len(events) = 1 /\ events' = <<>> /\ LastIs("disconnected")
    BY <1>2, <1>3, <1>4, <1>6 DEF QueueShape, LastIs
  <2>5. out = TRUE
    BY <1>2, <2>2, <2>4 DEF EpisodeFollows
  <2>6. EpisodeFollows'
    BY <1>1, <2>3, <2>4, <2>5 DEF EpisodeFollows
  <2>7. ~Pending'
    BY <2>4 DEF Pending, LastIs
  <2>8. CASE episode_open
    <3>1. ~Pending /\ win' = win
      BY <2>3, <2>4, <2>8 DEF Pending
    <3> QED
      BY <1>1, <1>2, <2>2, <2>6, <2>7, <3>1 DEF Recorded
  <2>9. CASE ~episode_open
    <3>1. Pending
      BY <2>4, <2>9 DEF Pending
    <3>2. Recorded /\ win' = Record(win)
      BY <1>2, <2>2, <2>3, <2>9
    <3>3. /\ {win'[i] : i \in DOMAIN win'} = outages
          /\ \A i, j \in DOMAIN win' : i < j => win'[j] < win'[i]
      BY <2>2, <3>1, <3>2, OutageRecorded
    <3>4. \A i \in DOMAIN win' : win'[i] <= Window
      <4>1. outages \subseteq 0..Window
        BY DEF IndInv, TypeOK
      <4>2. ASSUME NEW i \in DOMAIN win'
            PROVE  win'[i] <= Window
        <5>1. win'[i] \in outages
          BY <3>3
        <5>2. win'[i] \in 0..Window
          BY <4>1, <5>1
        <5> QED
          BY <5>2
      <4> QED
        BY <4>2
    <3>5. InWindow(win') = outages
      BY <3>3, <3>4 DEF InWindow
    <3> QED
      BY <1>1, <2>6, <2>7, <3>3, <3>5 DEF Recorded, Falling
  <2> QED
    BY <2>8, <2>9
<1>7. ASSUME ~recovering', Head(events) = "got_ip"
      PROVE  EpisodeFollows' /\ Recorded'
  <2>1. HealthOnGotIp
    BY <1>7 DEF HealthHandler
  <2>2. win' = win /\ episode_open' = FALSE /\ ~recovering
    BY <1>7, <2>1, Zenon DEF HealthOnGotIp
  <2>3. LastIs("disconnected")' <=> LastIs("disconnected")
    <3>1. CASE Len(events) = 1
      BY <1>3, <1>4, <1>7, <3>1 DEF LastIs
    <3>2. CASE Len(events) > 1
      BY <1>1, <1>3, <1>4, <3>2 DEF LastIs
    <3> QED
      BY <1>3, <3>1, <3>2
  <2>4. LastIs("disconnected") => Len(events) > 1
    BY <1>3, <1>7 DEF LastIs
  <2>5. Pending' <=> Pending
    BY <2>2, <2>3, <2>4 DEF Pending
  <2>6. EpisodeFollows'
    BY <1>1, <1>2, <2>2, <2>3 DEF EpisodeFollows
  <2>7. Recorded'
    BY <1>1, <1>2, <2>2, <2>5 DEF Recorded
  <2> QED
    BY <2>6, <2>7
<1> QED
  BY <1>1, <1>5, <1>6, <1>7 DEF AccountInv, HealthHandler

\* A tick ages the ring and the outages alike.
LEMMA AccountTick ==
  ASSUME IndInv, AccountInv, Tick
  PROVE  AccountInv'
<1>1. /\ phase = "up" /\ events = <<>> /\ backoff # 0
      /\ backoff' = Elapse(backoff)
      /\ win' = [i \in DOMAIN win |-> Older(win[i])]
      /\ outages' = {a + 1 : a \in outages} \cap 0..Window
      /\ UNCHANGED <<link, events, phase, episode_open, recovering, out>>
  BY DEF Tick, Quiet, radio
<1>2. QueueShape /\ FreshIsDown /\ (~recovering => EpisodeFollows /\ Recorded)
  BY <1>1 DEF AccountInv
<1>3. outages \subseteq 0..Window /\ win \in Seq(Ages)
  BY DEF IndInv, TypeOK
<1>4. 0 \notin outages'
  BY <1>1, <1>3, WindowAssumption
<1>5. QueueShape' /\ FreshIsDown'
  BY <1>1, <1>2, <1>4 DEF QueueShape, FreshIsDown
<1>6. ~Pending /\ ~Pending'
  BY <1>1 DEF Pending, LastIs
<1>7. EpisodeFollows => EpisodeFollows'
  BY <1>1 DEF EpisodeFollows, LastIs
<1>8. ASSUME ~recovering
      PROVE  Recorded'
  <2>1. outages = InWindow(win) /\ Falling(win)
    BY <1>2, <1>6, <1>8 DEF Recorded
  <2>2. \A i \in DOMAIN win : win[i] \in 0..(Window + 1) /\ win'[i] = Older(win[i])
    <3>1. \A i \in DOMAIN win : win[i] \in Ages
      BY <1>3
    <3> QED
      BY <1>1, <3>1 DEF Ages
  <2>3. DOMAIN win' = DOMAIN win
    BY <1>1
  <2>4. outages' = InWindow(win')
    <3>1. ASSUME NEW a \in outages'
          PROVE  a \in InWindow(win')
      <4>1. PICK b \in InWindow(win) : a = b + 1 /\ a \in 0..Window
        BY <1>1, <2>1, <3>1
      <4>2. PICK i \in DOMAIN win : win[i] = b /\ b <= Window
        BY <4>1 DEF InWindow
      <4>3. win'[i] = a /\ a <= Window
        BY <2>2, <4>1, <4>2, WindowAssumption DEF Older
      <4> QED
        BY <2>3, <4>3 DEF InWindow
    <3>2. ASSUME NEW a \in InWindow(win')
          PROVE  a \in outages'
      <4>1. PICK i \in DOMAIN win : win'[i] = a /\ a <= Window
        BY <2>3, <3>2 DEF InWindow
      <4>2. win[i] <= Window /\ a = win[i] + 1 /\ a \in 0..Window
        BY <2>2, <4>1, WindowAssumption DEF Older
      <4>3. win[i] \in InWindow(win)
        BY <4>2 DEF InWindow
      <4> QED
        BY <1>1, <2>1, <4>2, <4>3
    <3> QED
      BY <3>1, <3>2
  <2>5. Falling(win')
    <3>1. ASSUME NEW i \in DOMAIN win, NEW j \in DOMAIN win, i < j
          PROVE  win'[j] < win'[i] \/ win'[i] = Window + 1
      <4>1. win[j] < win[i] \/ win[i] = Window + 1
        BY <2>1, <3>1 DEF Falling
      <4> QED
        BY <2>2, <4>1, WindowAssumption DEF Older
    <3> QED
      BY <2>3, <3>1 DEF Falling
  <2> QED
    BY <1>6, <2>4, <2>5 DEF Recorded
<1> QED
  BY <1>1, <1>2, <1>5, <1>7, <1>8 DEF AccountInv

\* An empty queue, an empty ring and no outage agree.
LEMMA NothingYet ==
  ASSUME events = <<>>, win = <<>>, outages = {}, out = FALSE, episode_open = FALSE
  PROVE  QueueShape /\ FreshIsDown /\ EpisodeFollows /\ Recorded
<1>1. ~LastIs("disconnected") /\ ~Pending
  BY DEF LastIs, Pending
<1>2. QueueShape /\ FreshIsDown
  BY DEF QueueShape, FreshIsDown
<1>3. EpisodeFollows
  BY <1>1 DEF EpisodeFollows
<1>4. DOMAIN win = {}
  OBVIOUS
<1>5. InWindow(win) = {} /\ Falling(win)
  BY <1>4 DEF InWindow, Falling
<1>6. Recorded
  BY <1>1, <1>4, <1>5 DEF Recorded
<1> QED
  BY <1>2, <1>3, <1>6

LEMMA AccountInit == Init => AccountInv
<1> SUFFICES ASSUME Init
             PROVE  AccountInv
  OBVIOUS
<1>2. events = <<>> /\ win = <<>> /\ outages = {} /\ out = FALSE /\ episode_open = FALSE
  BY DEF Init
<1>3. QueueShape /\ FreshIsDown /\ EpisodeFollows /\ Recorded
  BY <1>2, NothingYet
<1> QED
  BY <1>3 DEF AccountInv

LEMMA AccountNext ==
  ASSUME IndInv, AccountInv, [Next]_vars
  PROVE  AccountInv'
<1>1. CASE Driver
  BY <1>1, AccountDriver
<1>2. CASE WifiHandler
  BY <1>2, AccountWifi
<1>3. CASE HealthHandler
  BY <1>3, AccountHealth
<1>4. CASE Tick
  BY <1>4, AccountTick
<1>5. CASE Retry
  <2>1. /\ phase = "up" /\ backoff = 0 /\ backoff' = Off /\ events' = events
        /\ UNCHANGED <<phase, win, episode_open, recovering, outages, out>>
    BY <1>5 DEF Retry, health, history
  <2>2. QueueShape /\ FreshIsDown /\ (~recovering => EpisodeFollows /\ Recorded)
    BY <2>1 DEF AccountInv
  <2>3. QueueShape' /\ FreshIsDown'
    BY <2>1, <2>2 DEF QueueShape, FreshIsDown, Off
  <2>4. ~recovering => EpisodeFollows' /\ Recorded'
    BY <2>1, <2>2 DEF EpisodeFollows, Recorded, LastIs, Pending
  <2> QED
    BY <2>1, <2>3, <2>4 DEF AccountInv
<1>6. CASE LedPeriodic \/ UNCHANGED vars
  <2>1. UNCHANGED <<link, events, backoff, phase, win, episode_open, recovering, outages, out>>
    BY <1>6 DEF LedPeriodic, vars, radio, wifi, health, history
  <2> QED
    BY <2>1 DEF AccountInv, QueueShape, FreshIsDown, EpisodeFollows, Recorded, LastIs, Pending
<1>7. CASE OneShotFires
  BY <1>7 DEF OneShotFires, AccountInv
<1>8. CASE Reboot
  <2>1. /\ events' = <<>> /\ win' = <<>> /\ outages' = {} /\ out' = FALSE
        /\ episode_open' = FALSE
    BY <1>8 DEF Reboot
  <2>2. /\ ~LastIs("disconnected")' /\ ~Pending'
        /\ DOMAIN win' = {} /\ DOMAIN events' = {}
    BY <2>1 DEF LastIs, Pending
  <2>3. InWindow(win') = {} /\ Falling(win')
    BY <2>2 DEF InWindow, Falling
  <2>4. QueueShape' /\ FreshIsDown'
    BY <2>1, <2>2 DEF QueueShape, FreshIsDown
  <2>5. EpisodeFollows' /\ Recorded'
    BY <2>1, <2>2, <2>3 DEF EpisodeFollows, Recorded
  <2> QED
    BY <2>4, <2>5 DEF AccountInv
<1> QED
  BY <1>1, <1>2, <1>3, <1>4, <1>5, <1>6, <1>7, <1>8 DEF Next

\* Falling ages are as many as the entries that hold them.
LEMMA OnePerEntry ==
  ASSUME NEW p \in Seq(Ages), \A i, j \in DOMAIN p : i < j => p[j] < p[i]
  PROVE  Len(p) = Cardinality({p[i] : i \in DOMAIN p})
<1> DEFINE T == {p[i] : i \in 1..Len(p)}
           f == [i \in 1..Len(p) |-> p[i]]
<1>1. Len(p) \in Nat /\ DOMAIN p = 1..Len(p) /\ \A i \in 1..Len(p) : p[i] \in Nat
  BY WindowAssumption DEF Ages
<1>2. \A i, j \in 1..Len(p) : i # j => p[i] # p[j]
  <2>1. SUFFICES ASSUME NEW i \in 1..Len(p), NEW j \in 1..Len(p), i # j
                 PROVE  p[i] # p[j]
    OBVIOUS
  <2>2. i < j \/ j < i
    BY <2>1
  <2>3. p[j] < p[i] \/ p[i] < p[j]
    BY <1>1, <2>2
  <2> QED
    BY <1>1, <2>3
<1>3. f \in Bijection(1..Len(p), T)
  BY <1>2 DEF Bijection, Injection, Surjection, IsInjective
<1>4. ExistsBijection(1..Len(p), T)
  BY <1>3 DEF ExistsBijection
<1>5. Cardinality(T) = Len(p)
  <2> HIDE DEF T
  <2> QED
    BY <1>1, <1>4, FS_CountingElements
<1> QED
  BY <1>1, <1>5

\* Recovery starts in health.c's handler of a disconnection, nowhere else.
LEMMA OnlyHealthRecovers ==
  ASSUME [Next]_vars, ~recovering, recovering'
  PROVE  HealthHandler /\ HealthOnDisconnected /\ Head(events) = "disconnected"
<1> USE DEF health, history
<1>1. CASE Driver
  BY <1>1, Zenon DEF Driver, Associate, Lease, LoseLease, Disconnect, Untouched
<1>2. CASE WifiHandler \/ Retry \/ LedPeriodic \/ OneShotFires \/ Tick
  BY <1>2, Zenon DEF WifiHandler, Retry, LedPeriodic, OneShotFires, Tick
<1>3. CASE HealthHandler
  <2>1. ~HealthOnGotIp
    BY Zenon DEF HealthOnGotIp
  <2> QED
    BY <1>3, <2>1, Zenon DEF HealthHandler
<1>4. CASE Reboot
  BY <1>4, Zenon DEF Reboot
<1>5. CASE UNCHANGED vars
  BY <1>5, Zenon DEF vars
<1> QED
  BY <1>1, <1>2, <1>3, <1>4, <1>5, Zenon DEF Next

THEOREM AccountCorrect == Spec => []AccountInv
<1>1. IndInv /\ AccountInv /\ [Next]_vars => AccountInv'
  BY AccountNext
<1> QED
  BY <1>1, AccountInit, Inductive, PTL DEF Spec

\* The window holds the outages that began within it and counts each once, for any
\* table of delays, window, threshold and ring.
THEOREM WindowCorrect == Spec => []WindowExact
<1>1. IndInv /\ AccountInv => WindowExact
  <2> SUFFICES ASSUME IndInv, AccountInv, Quiet, ~recovering
               PROVE  /\ {Prune(win)[i] : i \in DOMAIN Prune(win)} = outages
                      /\ Len(Prune(win)) = Cardinality(outages)
    BY DEF WindowExact
  <2>1. outages = InWindow(win) /\ Falling(win)
    BY DEF AccountInv, Recorded, Quiet, Pending, LastIs
  <2>2. win \in Seq(Ages)
    BY DEF IndInv, TypeOK
  <2>3. /\ Prune(win) \in Seq(Ages)
        /\ InWindow(win) = {Prune(win)[i] : i \in DOMAIN Prune(win)}
        /\ \A i, j \in DOMAIN Prune(win) : i < j => Prune(win)[j] < Prune(win)[i]
    BY <2>1, <2>2, PruneKeeps
  <2>4. Len(Prune(win)) = Cardinality({Prune(win)[i] : i \in DOMAIN Prune(win)})
    BY <2>3, OnePerEntry
  <2> QED
    BY <2>1, <2>3, <2>4
<1> QED
  BY <1>1, AccountCorrect, Inductive, PTL

\* Soft recovery starts with as many outages in the window as the threshold asks for:
\* the step in health.c that starts it has just recorded the last of them.
THEOREM ThresholdCorrect == Spec => RecoversAtThreshold
<1> DEFINE Step == ~recovering /\ recovering' => Cardinality(outages) >= Threshold
<1>1. ASSUME IndInv, AccountInv, [Next]_vars
      PROVE  [Step]_vars
  <2>1. SUFFICES ASSUME ~recovering, recovering'
                 PROVE  Cardinality(outages) >= Threshold
    OBVIOUS
  <2>2. HealthHandler /\ HealthOnDisconnected /\ Head(events) = "disconnected"
    BY <1>1, <2>1, OnlyHealthRecovers
  <2>3. /\ win' = IF episode_open THEN win ELSE Record(win)
        /\ Len(win') >= Threshold
    BY <2>1, <2>2 DEF HealthOnDisconnected
  <2>4. /\ phase = "up" /\ events \in Seq(Events) /\ win \in Seq(Ages)
        /\ Len(win) < Threshold
    BY <1>1, <2>1, <2>2 DEF IndInv, TypeOK, RingNeverFull, HealthHandler
  <2>5. ~episode_open /\ win' = Record(win)
    <3>1. Len(win) \in Nat
      BY <2>4
    <3> QED
      BY <2>3, <2>4, <3>1, ThresholdAssumption
  <2>6. QueueShape /\ Recorded
    BY <1>1, <2>1, <2>4 DEF AccountInv
  <2>7. Pending
    <3>1. events # <<>> /\ events[1] = "disconnected" /\ 1 \in DOMAIN events
      BY <2>2, <2>4 DEF HealthHandler
    <3>2. 1 = Len(events)
      BY <2>6, <3>1 DEF QueueShape
    <3> QED
      BY <2>5, <3>1, <3>2 DEF Pending, LastIs
  <2>8. Cardinality(outages) = Len(win')
    BY <1>1, <2>1, <2>5, <2>6, <2>7, OutageRecorded, OnePerEntry
  <2> QED
    BY <2>3, <2>8
<1> QED
  BY <1>1, AccountCorrect, Inductive, PTL DEF Spec, RecoversAtThreshold

\* ... and it does start then: with its events handled, no station that has had
\* that many outages goes on as before.
THEOREM OverdueCorrect == Spec => []NeverOverdue
<1>1. ASSUME IndInv, WindowExact
      PROVE  NeverOverdue
  <2> SUFFICES ASSUME Quiet, ~recovering
               PROVE  ~(Cardinality(outages) >= Threshold)
    BY DEF NeverOverdue
  <2>1. win \in Seq(Ages) /\ Len(win) < Threshold
    BY <1>1 DEF IndInv, TypeOK, RingNeverFull
  <2>2. Cardinality(outages) = Len(Prune(win))
    BY <1>1 DEF WindowExact
  <2>3. Prune(win) \in Seq(Ages) /\ Len(Prune(win)) <= Len(win)
    BY <2>1, PruneShortens
  <2>4. Len(Prune(win)) \in Nat /\ Len(win) \in Nat
    BY <2>1, <2>3
  <2> QED
    BY <2>1, <2>2, <2>3, <2>4, ThresholdAssumption
<1> QED
  BY <1>1, Inductive, WindowCorrect, PTL

\* While the chip is up, a step that is no recovery's start leaves both it and the
\* one-shot alone, lets the one-shot run on, or restarts the chip.
LEMMA RestartStep ==
  ASSUME TypeOK, RestartArmed, phase = "up", [Next]_vars
  PROVE  \/ UNCHANGED <<phase, recovering, oneshot>>
         \/ UNCHANGED <<phase, recovering>> /\ oneshot # 0 /\ oneshot' = Elapse(oneshot)
         \/ ~recovering /\ recovering' /\ oneshot' = LedTicks /\ UNCHANGED phase
         \/ phase' = "restarting"
<1> USE DEF health, history, lights, lamp
<1>1. CASE Driver
  BY <1>1 DEF Driver, Associate, Lease, LoseLease, Disconnect, Untouched
<1>2. CASE WifiHandler
  <2>1. oneshot' = oneshot
    BY <1>2 DEF WifiHandler, WifiOnDisconnected, WifiOnGotIp, LedSetState
  <2> QED
    BY <1>2, <2>1 DEF WifiHandler
<1>3. CASE HealthHandler
  <2>1. UNCHANGED phase
    BY <1>3 DEF HealthHandler
  <2>2. CASE HealthOnDisconnected /\ ~recovering /\ Recover
    <3>1. recovering'
      BY <2>2, Zenon DEF Recover
    <3>2. oneshot = Off
      BY <2>2 DEF RestartArmed
    <3>3. oneshot' = LedTicks
      BY <2>2, <3>2 DEF Recover, LedSetState
    <3> QED
      BY <2>1, <2>2, <3>1, <3>3
  <2>3. CASE HealthOnDisconnected /\ ~(~recovering /\ Recover)
    BY <2>1, <2>3, Zenon DEF HealthOnDisconnected
  <2>4. CASE HealthOnGotIp
    BY <2>1, <2>4, Zenon DEF HealthOnGotIp
  <2> QED
    BY <1>3, <2>2, <2>3, <2>4 DEF HealthHandler
<1>4. CASE Retry \/ LedPeriodic
  BY <1>4, Zenon DEF Retry, LedPeriodic
<1>5. CASE OneShotFires
  BY <1>5 DEF OneShotFires
<1>6. CASE Reboot
  BY <1>6 DEF Reboot
<1>7. CASE Tick
  <2>1. UNCHANGED <<phase, recovering>>
    BY <1>7, Zenon DEF Tick
  <2> QED
    BY <1>7, <2>1 DEF Tick, Quiet
<1>8. CASE UNCHANGED vars
  BY <1>8, Zenon DEF vars
<1> QED
  BY <1>1, <1>2, <1>3, <1>4, <1>5, <1>6, <1>7, <1>8, Zenon DEF Next

\* The one-shot runs exactly while the station recovers.
THEOREM ArmedCorrect == Spec => []RestartArmed
<1>1. Init => RestartArmed
  BY DEF Init, RestartArmed
<1>2. TypeOK /\ RestartArmed /\ [Next]_vars => RestartArmed'
  <2> SUFFICES ASSUME TypeOK, RestartArmed, [Next]_vars
               PROVE  RestartArmed'
    OBVIOUS
  <2>1. CASE phase = "up"
    <3>1. oneshot \in Nat \cup {Off} /\ LedTicks \in Nat
      BY LedAssumption DEF TypeOK
    <3>2. CASE UNCHANGED <<phase, recovering, oneshot>>
      BY <3>2, Zenon DEF RestartArmed
    <3>3. CASE UNCHANGED <<phase, recovering>> /\ oneshot # 0 /\ oneshot' = Elapse(oneshot)
      BY <2>1, <3>1, <3>3 DEF RestartArmed, Elapse, Off
    <3>4. CASE recovering' /\ oneshot' = LedTicks
      BY <3>1, <3>4 DEF RestartArmed
    <3>5. CASE phase' = "restarting"
      BY <3>5 DEF RestartArmed
    <3> QED
      BY <2>1, <3>2, <3>3, <3>4, <3>5, RestartStep
  <2>2. CASE phase # "up"
    BY <2>2 DEF RestartArmed, Next, vars, Driver, Associate, Lease, LoseLease,
                Disconnect, WifiHandler, HealthHandler, Retry, LedPeriodic, OneShotFires,
                Reboot, Tick, Quiet
  <2> QED
    BY <2>1, <2>2
<1>3. IndInv => TypeOK
  BY DEF IndInv
<1> QED
  BY <1>1, <1>2, <1>3, Inductive, PTL DEF Spec

\* No step stops the one-shot of a recovery, puts it off, or ends the recovery: what
\* a begun recovery needs to end in a restart is only that time goes by.
THEOREM RestartCorrect == Spec => RestartKept
<1> DEFINE Step == phase = "up" /\ recovering =>
                     phase' = "restarting" \/ (recovering' /\ oneshot' \in 0..oneshot)
<1>1. ASSUME TypeOK, RestartArmed, [Next]_vars
      PROVE  Step
  <2> SUFFICES ASSUME phase = "up", recovering, phase' # "restarting"
               PROVE  recovering' /\ oneshot' \in 0..oneshot
    OBVIOUS
  <2>1. oneshot \in Nat
    BY <1>1, LedAssumption DEF RestartArmed
  <2>2. \/ UNCHANGED <<phase, recovering, oneshot>>
        \/ UNCHANGED <<phase, recovering>> /\ oneshot # 0 /\ oneshot' = Elapse(oneshot)
    BY <1>1, RestartStep
  <2>3. recovering'
    BY <2>2, Zenon
  <2>4. oneshot' \in 0..oneshot
    <3>1. oneshot' = oneshot \/ (oneshot # 0 /\ oneshot' = Elapse(oneshot))
      BY <2>2, Zenon
    <3> QED
      BY <2>1, <3>1 DEF Elapse, Off
  <2> QED
    BY <2>3, <2>4
<1>2. IndInv => TypeOK
  BY DEF IndInv
<1> QED
  BY <1>1, <1>2, ArmedCorrect, Inductive, PTL DEF Spec, RestartKept
=============================================================================
