---------------------------- MODULE Button_proofs ----------------------------
(***************************************************************************)
(* What holds of the button for any thresholds: its state stays typed, two *)
(* calls of the factory reset are a cooldown apart, a real hold calls it,  *)
(* and outside the strap grace's last moments nothing else does.           *)
(***************************************************************************)
EXTENDS Button, TLAPS

LEMMA SomeTimes ==
  /\ {StartTime, Grace, BootWindow, TapMax, BootLong, RuntimeLong} \subseteq Nat
  /\ {Debounce, Late, Horizon} \subseteq Nat
  /\ StartTime > 0 /\ Debounce > 0 /\ StartTime <= Horizon
  /\ Cooldown \in Nat /\ RuntimeLong > Cooldown
  /\ GraceEnd \in Nat /\ BootEnd \in Nat
  /\ Times \subseteq Nat /\ 0 \in Times
  BY TimesAssumption, LongPressAssumption DEF Cooldown, GraceEnd, BootEnd, Times

(* Every piece of button_poll_once keeps the state typed.                  *)
LEMMA PiecesTyped ==
  ASSUME NEW b \in Buttons, NEW t \in Times, NEW low \in BOOLEAN
  PROVE  /\ GraceEdge(b, low, t) \in Buttons
         /\ LeaveGrace(b, t) \in Buttons
         /\ EnterRuntime(b, t) \in Buttons
         /\ Machine(b, low, t) \in Buttons
<1>1. GraceEdge(b, low, t) \in Buttons
  BY SomeTimes DEF GraceEdge, Buttons
<1>2. LeaveGrace(b, t) \in Buttons
  BY DEF LeaveGrace, Buttons
<1>3. EnterRuntime(b, t) \in Buttons
  BY DEF EnterRuntime, Buttons
<1>4. Press(b, t) \in Buttons
  BY SomeTimes DEF Press, Buttons
<1>5. StillHeld(b, t) \in Buttons
  BY SomeTimes DEF StillHeld, Buttons, Held
<1>6. Release(b, t) \in Buttons
  BY SomeTimes DEF Release, Buttons, Held
<1>7. Machine(b, low, t) \in Buttons
  <2>1. b.state \in {"IDLE", "PRESSED"}
    BY DEF Buttons
  <2>2. CASE b.state = "IDLE"
    BY <2>2, <1>4 DEF Machine
  <2>3. CASE b.state = "PRESSED"
    BY <2>3, <1>5, <1>6 DEF Machine
  <2> QED BY <2>1, <2>2, <2>3
<1> QED BY <1>1, <1>2, <1>3, <1>7

LEMMA SettledTyped ==
  ASSUME TypeOK, NEW t \in Times, NEW sg \in BOOLEAN
  PROVE  Phase(sg, t) \in Buttons /\ Settled(sg, t) \in Buttons
  BY PiecesTyped DEF TypeOK, Phase, Settled

LEMMA WatchTyped ==
  ASSUME TypeOK, NEW t \in Times, NEW sg \in BOOLEAN, NEW low \in BOOLEAN,
         Watch(sg, low, t)
  PROVE  {low_since', high_since', opened'} \subseteq Times \cup {Never}
  BY DEF TypeOK, Watch

(* The state of button.c and the model's record of the pin stay typed.     *)
THEOREM TypeCorrect == Spec => []TypeOK
<1>1. Init => TypeOK
  <2> SUFFICES ASSUME Init PROVE TypeOK
    OBVIOUS
  <2>1. BootState \in Buttons
    BY SomeTimes DEF BootState, Buttons
  <2>2. StartTime \in Times
    BY SomeTimes, TimesAssumption DEF Times
  <2> QED BY <2>1, <2>2 DEF Init, TypeOK
<1>2. TypeOK /\ [Next]_vars => TypeOK'
  <2> SUFFICES ASSUME TypeOK, [Next]_vars PROVE TypeOK'
    OBVIOUS
  <2>1. CASE Poll
    <3>1. PICK d \in 1..Late :
            /\ now + d <= Horizon
            /\ PollInGrace(now + d) \/ PollAndRun(now + d) \/ PollAndReset(now + d)
      BY <2>1 DEF Poll
    <3> DEFINE t == now + d
    <3>2. t \in Times
      BY <3>1, SomeTimes DEF Times, TypeOK
    <3> HIDE DEF t
    <3>3. CASE PollInGrace(t)
      <4>1. PICK sg \in BOOLEAN :
              /\ button' = Phase(sg, t)
              /\ now' = t
              /\ Watch(sg, sg, t)
              /\ quiet' = (quiet /\ ~(sg /\ t >= GraceEnd - Debounce))
              /\ UNCHANGED <<running, last_call>>
        BY <3>3 DEF PollInGrace
      <4>2. {low_since', high_since', opened'} \subseteq Times \cup {Never}
        BY <4>1, <3>2, WatchTyped
      <4> QED BY <4>1, <4>2, <3>2, SettledTyped DEF TypeOK
    <3>4. CASE PollAndRun(t)
      <4>1. PICK sg \in BOOLEAN, low \in BOOLEAN :
              /\ button' = Machine(Settled(sg, t), low, t)
              /\ now' = t
              /\ Watch(sg, low, t)
              /\ quiet' = (quiet /\ ~(sg /\ button.phase = "STRAP_GRACE"))
              /\ UNCHANGED <<running, last_call>>
        BY <3>4 DEF PollAndRun
      <4>2. {low_since', high_since', opened'} \subseteq Times \cup {Never}
        BY <4>1, <3>2, WatchTyped
      <4>3. button' \in Buttons
        BY <4>1, <3>2, SettledTyped, PiecesTyped
      <4> QED BY <4>1, <4>2, <4>3, <3>2 DEF TypeOK
    <3>5. CASE PollAndReset(t)
      <4>1. PICK sg \in BOOLEAN, low \in BOOLEAN, wiped \in BOOLEAN :
              /\ button' = Machine(Settled(sg, t), low, t)
              /\ running' = ~wiped
              /\ now' = t
              /\ last_call' = t
              /\ Watch(sg, low, t)
              /\ quiet' = (quiet /\ ~(sg /\ button.phase = "STRAP_GRACE"))
        BY <3>5 DEF PollAndReset
      <4>2. {low_since', high_since', opened'} \subseteq Times \cup {Never}
        BY <4>1, <3>2, WatchTyped
      <4>3. button' \in Buttons
        BY <4>1, <3>2, SettledTyped, PiecesTyped
      <4> QED BY <4>1, <4>2, <4>3, <3>2 DEF TypeOK
    <3> QED BY <3>1, <3>3, <3>4, <3>5 DEF t
  <2>2. CASE Reset
    <3>1. BootState \in Buttons
      BY SomeTimes DEF BootState, Buttons
    <3>2. StartTime \in Times
      BY SomeTimes, TimesAssumption DEF Times
    <3> QED BY <2>2, <3>1, <3>2 DEF Reset, TypeOK
  <2>3. CASE UNCHANGED vars
    BY <2>3 DEF vars, history, TypeOK
  <2> QED BY <2>1, <2>2, <2>3 DEF Next
<1> QED BY <1>1, <1>2, PTL DEF Spec

-----------------------------------------------------------------------------
(* Once called, the callback cannot be called again before the cooldown:   *)
(* either the press that called it goes on, and fired_at remembers, or a   *)
(* later press has to be held from its start, for RUNTIME_LONGPRESS, which *)
(* is longer than the cooldown.                                            *)
Remembered(b) ==
  last_call # Never =>
    /\ b.phase = "RUNTIME"
    /\ b.state = "IDLE" => ~b.in_progress
    /\ b.state = "PRESSED" => b.fired_at = last_call \/ b.runtime_start >= last_call

SpacingInv ==
  /\ Remembered(button)
  /\ last_call # Never => last_call > 0 /\ last_call <= now

LEMMA InitSpacing == Init => SpacingInv
  BY DEF Init, SpacingInv, Remembered

(* What a poll does once the callback has been called: the phase pieces    *)
(* leave the state alone.                                                  *)
LEMMA SettledRuntime ==
  ASSUME button.phase = "RUNTIME", NEW t, NEW sg
  PROVE  Phase(sg, t) = button /\ Settled(sg, t) = button
  BY DEF Phase, Settled, EnterRuntime

(* The machine, told by the state it starts from. *)
LEMMA MachineCases ==
  ASSUME NEW b \in Buttons, NEW t, NEW low \in BOOLEAN
  PROVE  /\ b.state = "IDLE" /\ low => Machine(b, low, t) = Press(b, t)
         /\ b.state = "IDLE" /\ ~low => Machine(b, low, t) = b
         /\ b.state = "PRESSED" /\ low => Machine(b, low, t) = StillHeld(b, t)
         /\ b.state = "PRESSED" /\ ~low => Machine(b, low, t) = Release(b, t)
         /\ b.state \in {"IDLE", "PRESSED"}
  BY DEF Machine, Buttons

LEMMA NextSpacing ==
  ASSUME TypeOK, SpacingInv, [Next]_vars
  PROVE  /\ SpacingInv'
         /\ last_call' # last_call /\ last_call # Never /\ last_call' # Never
              => last_call' - last_call >= Cooldown
<1>1. CASE Poll
  <2>1. PICK d \in 1..Late :
          /\ now + d <= Horizon
          /\ PollInGrace(now + d) \/ PollAndRun(now + d) \/ PollAndReset(now + d)
    BY <1>1 DEF Poll
  <2> DEFINE t == now + d
  <2>2. t \in Times /\ t > now /\ t > 0
    BY <2>1, SomeTimes DEF Times, TypeOK
  <2> HIDE DEF t
  <2>3. CASE PollInGrace(t)
    <3>1. PICK sg \in BOOLEAN : Phase(sg, t).phase = "STRAP_GRACE" /\ last_call' = last_call
      BY <2>3 DEF PollInGrace
    <3>2. last_call = Never
      BY <3>1, SettledRuntime DEF SpacingInv, Remembered
    <3> QED BY <3>1, <3>2 DEF SpacingInv, Remembered
  <2>4. CASE PollAndRun(t)
    <3>1. PICK sg \in BOOLEAN, low \in BOOLEAN :
            /\ ~Calls(Settled(sg, t), low, t)
            /\ button' = Machine(Settled(sg, t), low, t)
            /\ now' = t
            /\ last_call' = last_call
      BY <2>4 DEF PollAndRun
    <3>2. CASE last_call = Never
      BY <3>1, <3>2 DEF SpacingInv, Remembered
    <3>3. CASE last_call # Never
      <4>1. button' = Machine(button, low, t) /\ ~Calls(button, low, t)
        BY <3>1, <3>3, SettledRuntime DEF SpacingInv, Remembered
      <4>2. button \in Buttons /\ last_call \in Times
        BY <3>3 DEF TypeOK
      <4>3. CASE button.state = "IDLE" /\ low
        <5>1. button' = Press(button, t)
          BY <4>1, <4>2, <4>3, MachineCases
        <5>2. button.phase = "RUNTIME" /\ ~button.in_progress
          BY <3>3, <4>3 DEF SpacingInv, Remembered
        <5>3. Remembered(button)'
          <6>1. CASE Bouncing(button, t)
            BY <3>1, <5>1, <6>1 DEF Remembered, SpacingInv, Press
          <6>2. CASE ~Bouncing(button, t)
            <7>1. /\ button'.state = "PRESSED"
                  /\ button'.phase = "RUNTIME"
                  /\ button'.runtime_start = t
              BY <4>2, <5>1, <5>2, <6>2 DEF Press, Buttons
            <7>2. t >= last_call
              BY <3>3, <4>2, <2>2, SomeTimes DEF SpacingInv, TypeOK
            <7> QED BY <3>1, <7>1, <7>2 DEF Remembered
          <6> QED BY <6>1, <6>2
        <5> QED BY <3>1, <5>3, <2>2, <4>2, SomeTimes DEF SpacingInv, TypeOK
      <4>4. CASE button.state = "IDLE" /\ ~low
        BY <3>1, <4>1, <4>2, <4>4, MachineCases, <2>2, SomeTimes
           DEF SpacingInv, Remembered, TypeOK
      <4>5. CASE button.state = "PRESSED" /\ low
        <5>1. button' = StillHeld(button, t) /\ ~Due(button, t)
          BY <4>1, <4>2, <4>5, MachineCases DEF Calls
        <5>2. Remembered(button)'
          BY <3>1, <3>3, <4>2, <5>1 DEF Remembered, SpacingInv, StillHeld, Buttons
        <5> QED BY <3>1, <5>2, <2>2, <4>2, SomeTimes DEF SpacingInv, TypeOK
      <4>6. CASE button.state = "PRESSED" /\ ~low
        <5>1. button' = Release(button, t)
          BY <4>1, <4>2, <4>6, MachineCases
        <5>2. Remembered(button)'
          BY <3>1, <3>3, <4>2, <5>1 DEF Remembered, SpacingInv, Release, Buttons
        <5> QED BY <3>1, <5>2, <2>2, <4>2, SomeTimes DEF SpacingInv, TypeOK
      <4> QED BY <4>2, <4>3, <4>4, <4>5, <4>6, MachineCases
    <3> QED BY <3>2, <3>3
  <2>5. CASE PollAndReset(t)
    <3>1. PICK sg \in BOOLEAN, low \in BOOLEAN :
            /\ Calls(Settled(sg, t), low, t)
            /\ button' = Machine(Settled(sg, t), low, t)
            /\ now' = t
            /\ last_call' = t
      BY <2>5 DEF PollAndReset
    <3>2. Settled(sg, t) \in Buttons
      BY <2>2, SettledTyped
    <3>3. Settled(sg, t).state = "PRESSED" /\ Due(Settled(sg, t), t)
          /\ Settled(sg, t).phase = "RUNTIME"
      BY <3>1 DEF Calls, Due
    <3>4. Remembered(button)'
      <4>1. CASE low
        <5>1. button' = StillHeld(Settled(sg, t), t)
          BY <3>1, <3>2, <3>3, <4>1, MachineCases
        <5> QED BY <5>1, <3>1, <3>2, <3>3 DEF StillHeld, Buttons, Remembered
      <4>2. CASE ~low
        <5>1. button' = Release(Settled(sg, t), t) /\ ~Bouncing(Settled(sg, t), t)
          BY <3>1, <3>2, <3>3, <4>2, MachineCases DEF Calls
        <5> QED BY <5>1, <3>1, <3>2, <3>3 DEF Release, Buttons, Remembered
      <4> QED BY <4>1, <4>2
    <3>5. SpacingInv'
      BY <3>1, <3>4, <2>2, SomeTimes DEF SpacingInv
    <3>6. ASSUME last_call # Never PROVE t - last_call >= Cooldown
      <4>1. Settled(sg, t) = button
        BY <3>6, SettledRuntime DEF SpacingInv, Remembered
      <4>2. button \in Buttons /\ last_call \in Times
        BY <3>6 DEF TypeOK
      <4>3. button.fired_at = last_call \/ button.runtime_start >= last_call
        BY <3>3, <3>6, <4>1 DEF SpacingInv, Remembered
      <4>4. /\ t - button.runtime_start >= RuntimeLong
            /\ button.fired_at = 0 \/ t - button.fired_at >= Cooldown
            /\ last_call > 0
            /\ button.runtime_start \in Nat /\ button.fired_at \in Nat
            /\ t \in Nat /\ last_call \in Nat
        BY <3>3, <3>6, <4>1, <4>2, <2>2, SomeTimes DEF Due, SpacingInv, Buttons
      <4> QED BY <4>3, <4>4, SomeTimes
    <3> QED BY <3>1, <3>5, <3>6
  <2> QED BY <2>1, <2>3, <2>4, <2>5 DEF t
<1>2. CASE Reset
  BY <1>2 DEF Reset, SpacingInv, Remembered
<1>3. CASE UNCHANGED vars
  BY <1>3 DEF vars, history, SpacingInv, Remembered
<1> QED BY <1>1, <1>2, <1>3 DEF Next

(* A factory reset that failed is not tried again within the cooldown,     *)
(* button.c:137-147, whatever the user does with the button meanwhile.     *)
THEOREM SpacingCorrect == Spec => CallsSpaced
<1>1. Init => SpacingInv
  BY InitSpacing
<1>2. TypeOK /\ SpacingInv /\ [Next]_vars => SpacingInv'
  BY NextSpacing
<1>3. TypeOK /\ SpacingInv /\ [Next]_vars =>
        [last_call' # last_call /\ last_call # Never /\ last_call' # Never
           => last_call' - last_call >= Cooldown]_vars
  BY NextSpacing
<1>4. Spec => []TypeOK
  BY TypeCorrect
<1> QED BY <1>1, <1>2, <1>3, <1>4, PTL DEF Spec, CallsSpaced
-----------------------------------------------------------------------------
(* What a real hold does, and what it takes to call the factory reset.     *)

(* Times the machine has seen are past, and it presses only after the grace. *)
PastInv ==
  /\ button.phase = "STRAP_GRACE" =>
       button.state = "IDLE" /\ last_call = Never /\ now <= GraceEnd
  /\ button.phase = "BOOT_TIME" => now <= BootEnd
  /\ button.state = "PRESSED" => button.last_edge # Never
  /\ button.last_edge <= now
  /\ button.runtime_start <= now
  /\ button.fired_at # 0 => button.fired_at <= last_call
  /\ last_call <= now
  /\ {low_since, high_since, opened} \subseteq Never..now
  /\ low_since = Never \/ high_since = Never

(* A press in the grace that is still in progress began early; after the    *)
(* grace a press the machine is in began when the pin fell, and a rise it   *)
(* has ignored is no older than the debounce filter.                        *)
HeldInv ==
  quiet =>
    /\ button.phase = "STRAP_GRACE" /\ button.in_progress =>
         button.last_edge < GraceEnd - Debounce
    /\ button.phase # "STRAP_GRACE" /\ button.state = "IDLE" => ~button.in_progress
    /\ button.state = "PRESSED" =>
         /\ opened # Never /\ opened <= button.last_edge
         /\ button.phase = "RUNTIME" => button.last_edge <= button.runtime_start
         /\ high_since # Never =>
              button.last_edge <= high_since /\ now - button.last_edge < Debounce

(* From when on a pin that stays low is timed. *)
From == Later(low_since, BootEnd + Late)

(* A pin that stays low is pressed within the debounce filter's delay, and  *)
(* called within the long press of that, or it was a cooldown ago.          *)
FireInv ==
  low_since # Never /\ button.phase # "STRAP_GRACE" =>
    /\ button.state = "IDLE" =>
         /\ now - button.last_edge < Debounce
         /\ button.last_edge <= Later(low_since, GraceEnd + Late)
         /\ button.last_edge # Never
    /\ button.state = "PRESSED" /\ button.phase = "RUNTIME" =>
         /\ button.runtime_start < From + Debounce + Late
         /\ \/ last_call >= low_since
            \/ now - button.runtime_start < RuntimeLong
            \/ button.fired_at < low_since /\ now - button.fired_at < Cooldown
            \/ now < From + Debounce + Late

LEMMA SomeDelays ==
  /\ Late + Debounce <= RuntimeLong
  /\ RuntimeLong > Cooldown /\ RuntimeLong > 0
  /\ GraceEnd <= BootEnd /\ StartTime <= GraceEnd
  BY TimesAssumption, LongPressAssumption, LateAssumption
     DEF GraceEnd, BootEnd, Cooldown

(* A poll past the grace, whether or not it calls.                         *)
SettledPoll(sg, low, t) ==
  /\ sg = low \/ button.phase = "STRAP_GRACE"
  /\ Phase(sg, t).phase # "STRAP_GRACE"
  /\ button' = Machine(Settled(sg, t), low, t)
  /\ now' = t
  /\ Watch(sg, low, t)
  /\ quiet' = (quiet /\ ~(sg /\ button.phase = "STRAP_GRACE"))
  /\ last_call' = IF Calls(Settled(sg, t), low, t) THEN t ELSE last_call

LEMMA ButtonNumbers ==
  ASSUME NEW b \in Buttons
  PROVE  /\ b.last_edge \in Int /\ b.runtime_start \in Nat
         /\ b.fired_at \in Nat /\ b.press_start \in Nat
         /\ b.in_progress \in BOOLEAN
         /\ b.state \in {"IDLE", "PRESSED"}
<1>1. Times \subseteq Nat
  BY SomeTimes
<1>2. b.last_edge \in Times \cup {-1}
  BY DEF Buttons, Never
<1>3. b.last_edge \in Int
  <2>1. CASE b.last_edge = -1
    BY <2>1
  <2>2. CASE b.last_edge \in Times
    <3>1. b.last_edge \in Nat
      BY <1>1, <2>2
    <3> QED BY <3>1
  <2> QED BY <1>2, <2>1, <2>2
<1>4. b.runtime_start \in Nat /\ b.fired_at \in Nat /\ b.press_start \in Nat
  BY <1>1 DEF Buttons
<1> QED BY <1>3, <1>4 DEF Buttons

(* What a poll may be. *)
LEMMA PollForms ==
  ASSUME TypeOK, Poll
  PROVE  \E t \in Times :
           /\ now < t /\ t <= now + Late
           /\ \/ \E sg \in BOOLEAN :
                   /\ Phase(sg, t).phase = "STRAP_GRACE"
                   /\ button' = Phase(sg, t)
                   /\ now' = t
                   /\ Watch(sg, sg, t)
                   /\ quiet' = (quiet /\ ~(sg /\ t >= GraceEnd - Debounce))
                   /\ last_call' = last_call
              \/ \E sg \in BOOLEAN, low \in BOOLEAN : SettledPoll(sg, low, t)
<1>1. PICK d \in 1..Late :
        /\ now + d <= Horizon
        /\ PollInGrace(now + d) \/ PollAndRun(now + d) \/ PollAndReset(now + d)
  BY DEF Poll
<1> DEFINE t == now + d
<1>2. t \in Times /\ now < t /\ t <= now + Late
  BY <1>1, SomeTimes DEF Times, TypeOK
<1> HIDE DEF t
<1>3. CASE PollInGrace(t)
  BY <1>2, <1>3 DEF PollInGrace
<1>4. CASE PollAndRun(t)
  BY <1>2, <1>4 DEF PollAndRun, SettledPoll
<1>5. CASE PollAndReset(t)
  BY <1>2, <1>5 DEF PollAndReset, SettledPoll
<1> QED BY <1>1, <1>3, <1>4, <1>5 DEF t

(* What the phase part of a poll past the grace hands to the switch.       *)
LEMMA SettledFacts ==
  ASSUME TypeOK, PastInv, NEW t \in Times, now < t, t <= now + Late,
         NEW sg \in BOOLEAN, Phase(sg, t).phase # "STRAP_GRACE"
  PROVE  LET s == Settled(sg, t) IN
         /\ s \in Buttons
         /\ s.phase \in {"BOOT_TIME", "RUNTIME"}
         /\ s.phase = "BOOT_TIME" => t < BootEnd
         /\ s.state = button.state /\ s.fired_at = button.fired_at
         /\ s.last_edge <= t
         /\ button.phase # "STRAP_GRACE" =>
              s.last_edge = button.last_edge /\ s.in_progress = button.in_progress
         /\ button.phase = "STRAP_GRACE" =>
              /\ t <= GraceEnd + Late /\ GraceEnd <= t
              /\ s.state = "IDLE"
              /\ s.last_edge = GraceEdge(button, sg, t).last_edge
              /\ s.in_progress = GraceEdge(button, sg, t).in_progress
         /\ s.runtime_start \in {button.runtime_start, t}
         /\ s.state = "PRESSED" /\ s.phase = "RUNTIME" /\ button.phase # "RUNTIME" =>
              s.runtime_start = t /\ t <= BootEnd + Late
         /\ button.phase = "RUNTIME" => s = button
<1>1. Settled(sg, t) \in Buttons /\ button \in Buttons /\ now \in Nat /\ t \in Nat
  BY SettledTyped, SomeTimes DEF TypeOK
<1>2. button.phase \in {"STRAP_GRACE", "BOOT_TIME", "RUNTIME"}
  BY <1>1 DEF Buttons
<1>3. CASE button.phase = "RUNTIME"
  <2>1. Settled(sg, t) = button
    BY <1>3, SettledRuntime
  <2>2. button.last_edge <= t
    BY <1>1, ButtonNumbers DEF PastInv
  <2> QED BY <1>1, <1>3, <2>1, <2>2
<1>4. CASE button.phase = "BOOT_TIME"
  <2>1. Settled(sg, t) = EnterRuntime(button, t)
    BY <1>4 DEF Settled, Phase
  <2> QED BY <2>1, <1>1, <1>4, SomeTimes DEF EnterRuntime, PastInv, Buttons
<1>5. CASE button.phase = "STRAP_GRACE"
  <2> DEFINE g == GraceEdge(button, sg, t)
  <2>1. g \in Buttons
    BY <1>1, PiecesTyped
  <2>2. /\ g.state = "IDLE" /\ g.fired_at = button.fired_at /\ g.phase = "STRAP_GRACE"
        /\ g.last_edge <= t /\ g.runtime_start = button.runtime_start
    BY <1>1, <1>5, SomeTimes DEF GraceEdge, PastInv, Buttons
  <2>3. Phase(sg, t) = LeaveGrace(g, t)
    BY <1>5 DEF Phase
  <2> HIDE DEF g
  <2>4. GraceEnd <= t
    BY <1>1, <2>2, <2>3, SomeTimes DEF LeaveGrace
  <2>5. Phase(sg, t) = [g EXCEPT !.phase = "BOOT_TIME", !.state = "IDLE"]
    BY <1>1, <2>3, <2>4, SomeTimes DEF LeaveGrace
  <2>6. /\ Settled(sg, t).state = "IDLE"
        /\ Settled(sg, t).last_edge = g.last_edge
        /\ Settled(sg, t).fired_at = g.fired_at
        /\ Settled(sg, t).in_progress = g.in_progress
        /\ Settled(sg, t).runtime_start = g.runtime_start
        /\ Settled(sg, t).phase = IF t < BootEnd THEN "BOOT_TIME" ELSE "RUNTIME"
    BY <2>1, <2>5 DEF Settled, EnterRuntime, Buttons
  <2>7. t <= GraceEnd + Late
    BY <1>1, <1>5, SomeTimes DEF PastInv
  <2>8. g.last_edge = GraceEdge(button, sg, t).last_edge
        /\ g.in_progress = GraceEdge(button, sg, t).in_progress
    BY DEF g
  <2> QED BY <1>1, <1>5, <2>2, <2>4, <2>6, <2>7, <2>8 DEF PastInv
<1> QED BY <1>2, <1>3, <1>4, <1>5

(* The switch, told by what it does. *)
Switches(b, low, t, m) ==
  /\ m \in Buttons
  /\ m.phase = b.phase
  /\ b.state = "IDLE" /\ low /\ ~Bouncing(b, t) =>
       /\ m.state = "PRESSED" /\ m.in_progress = TRUE /\ m.last_edge = t
       /\ m.fired_at = 0
       /\ m.runtime_start = IF b.in_progress \/ b.phase # "RUNTIME"
                            THEN b.runtime_start ELSE t
  /\ b.state = "IDLE" /\ (low => Bouncing(b, t)) => m = b
  /\ b.state = "PRESSED" /\ low =>
       /\ m.state = "PRESSED" /\ m.last_edge = b.last_edge
       /\ m.in_progress = b.in_progress /\ m.runtime_start = b.runtime_start
       /\ m.fired_at = IF Due(b, t) THEN t ELSE b.fired_at
  /\ b.state = "PRESSED" /\ ~low /\ Bouncing(b, t) => m = b
  /\ b.state = "PRESSED" /\ ~low /\ ~Bouncing(b, t) =>
       /\ m.state = "IDLE" /\ m.in_progress = FALSE /\ m.last_edge = t
       /\ m.fired_at = 0 /\ m.runtime_start = 0
  /\ b.state \in {"IDLE", "PRESSED"}

LEMMA MachineFacts ==
  ASSUME NEW b \in Buttons, NEW t \in Times, NEW low \in BOOLEAN
  PROVE  Switches(b, low, t, Machine(b, low, t))
<1> USE DEF Switches
<1>1. Machine(b, low, t) \in Buttons
  BY PiecesTyped
<1>2. CASE b.state = "IDLE" /\ low
  <2>1. Machine(b, low, t) = Press(b, t)
    BY <1>2, MachineCases
  <2>2. CASE Bouncing(b, t)
    BY <1>2, <2>1, <2>2 DEF Press
  <2>3. CASE ~Bouncing(b, t)
    BY <1>1, <1>2, <2>1, <2>3 DEF Press, Buttons
  <2> QED BY <2>2, <2>3
<1>3. CASE b.state = "IDLE" /\ ~low
  BY <1>1, <1>3, MachineCases
<1>4. CASE b.state = "PRESSED" /\ low
  <2>1. Machine(b, low, t) = StillHeld(b, t)
    BY <1>4, MachineCases
  <2> QED BY <1>1, <1>4, <2>1 DEF StillHeld, Buttons
<1>5. CASE b.state = "PRESSED" /\ ~low
  <2>1. Machine(b, low, t) = Release(b, t)
    BY <1>5, MachineCases
  <2>2. CASE Bouncing(b, t)
    BY <1>1, <1>5, <2>1, <2>2 DEF Release
  <2>3. CASE ~Bouncing(b, t)
    BY <1>1, <1>5, <2>1, <2>3 DEF Release, Buttons
  <2> QED BY <2>2, <2>3
<1> QED BY <1>2, <1>3, <1>4, <1>5, MachineCases

LEMMA InitHold == Init => PastInv /\ HeldInv /\ FireInv
<1> SUFFICES ASSUME Init PROVE PastInv /\ HeldInv /\ FireInv
  OBVIOUS
<1>1. /\ button.phase = "STRAP_GRACE" /\ button.state = "IDLE"
      /\ button.last_edge = -1 /\ button.runtime_start = 0 /\ button.fired_at = 0
      /\ button.in_progress = FALSE
  BY DEF Init, BootState, Never
<1>2. now = StartTime /\ low_since = -1 /\ high_since = -1 /\ opened = -1 /\ last_call = -1
  BY DEF Init, Never
<1>3. PastInv
  BY <1>1, <1>2, SomeTimes, SomeDelays DEF PastInv, Never
<1>4. HeldInv
  BY <1>1 DEF HeldInv
<1>5. FireInv
  BY <1>2 DEF FireInv, Never
<1> QED BY <1>3, <1>4, <1>5

(* The history of the pin after a poll. *)
LEMMA WatchFacts ==
  ASSUME TypeOK, PastInv, NEW t \in Times, now < t,
         NEW sg \in BOOLEAN, NEW low \in BOOLEAN, Watch(sg, low, t)
  PROVE  /\ {low_since', high_since', opened'} \subseteq Never..t
         /\ low_since' = Never \/ high_since' = Never
         /\ low => opened' # Never /\ opened' \in {opened, t} /\ high_since' = Never
         /\ low => low_since' # Never /\ (low_since' = t \/ (low_since # Never /\ low_since' = low_since))
         /\ ~low => low_since' = Never /\ high_since' # Never
         /\ ~low => opened' = opened \/ (high_since # Never /\ t - high_since >= Debounce)
         /\ ~low => high_since' = t \/ (high_since # Never /\ high_since' = high_since)
         /\ opened # Never /\ opened' # Never => opened' = opened
<1>1. now \in Nat /\ t \in Nat /\ t > 0 /\ t # Never
  BY SomeTimes DEF TypeOK, Never
<1>2. /\ low_since \in Int /\ high_since \in Int /\ opened \in Int
      /\ Never <= low_since /\ low_since <= t
      /\ Never <= high_since /\ high_since <= t
      /\ Never <= opened /\ opened <= t
  BY <1>1 DEF PastInv, Never
<1>3. CASE low
  BY <1>1, <1>2, <1>3 DEF Watch, Never
<1>4. CASE ~low
  BY <1>1, <1>2, <1>4 DEF Watch, Never
<1> QED BY <1>3, <1>4

(* A poll in the grace moves nothing but the record of the pin.            *)
LEMMA GraceHold ==
  ASSUME TypeOK, PastInv, HeldInv, FireInv,
         NEW t \in Times, now < t, t <= now + Late, NEW sg \in BOOLEAN,
         Phase(sg, t).phase = "STRAP_GRACE", button' = Phase(sg, t), now' = t,
         Watch(sg, sg, t), quiet' = (quiet /\ ~(sg /\ t >= GraceEnd - Debounce)),
         last_call' = last_call
  PROVE  PastInv' /\ HeldInv' /\ FireInv'
<1>1. button \in Buttons /\ now \in Nat /\ t \in Nat
  BY SomeTimes DEF TypeOK
<1>2. button.phase = "STRAP_GRACE"
  BY SettledRuntime, <1>1 DEF Phase
<1> DEFINE g == GraceEdge(button, sg, t)
<1>3. g \in Buttons
  BY <1>1, PiecesTyped
<1>4. /\ g.state = "IDLE" /\ g.fired_at = button.fired_at /\ g.phase = "STRAP_GRACE"
      /\ g.last_edge <= t /\ g.runtime_start = button.runtime_start
      /\ \/ g.last_edge = t /\ g.in_progress = sg
         \/ g.last_edge = button.last_edge /\ g.in_progress = button.in_progress
  BY <1>1, <1>2, SomeTimes DEF GraceEdge, PastInv, Buttons, Never
<1>5. Phase(sg, t) = LeaveGrace(g, t)
  BY <1>2 DEF Phase
<1> HIDE DEF g
<1>6. button' = g /\ t < GraceEnd
  BY <1>1, <1>3, <1>4, <1>5, SomeTimes DEF LeaveGrace, Buttons
<1>7. PastInv'
  <2>1. /\ {low_since', high_since', opened'} \subseteq Never..t
        /\ low_since' = Never \/ high_since' = Never
    BY WatchFacts
  <2>2. last_call = Never
    BY <1>2 DEF PastInv
  <2>3. button.runtime_start <= t /\ (button.fired_at # 0 => button.fired_at <= last_call)
    BY <1>1, ButtonNumbers DEF PastInv
  <2> QED BY <1>1, <1>4, <1>6, <2>1, <2>2, <2>3, SomeTimes DEF PastInv, Never
<1>8. HeldInv'
  <2> SUFFICES ASSUME quiet' PROVE HeldInv'
    BY DEF HeldInv
  <2>1. quiet /\ ~(sg /\ t >= GraceEnd - Debounce)
    OBVIOUS
  <2>2. ASSUME g.in_progress PROVE g.last_edge < GraceEnd - Debounce
    <3>1. CASE g.last_edge = t /\ g.in_progress = sg
      BY <1>1, <2>1, <2>2, <3>1, SomeTimes
    <3>2. CASE g.last_edge = button.last_edge /\ g.in_progress = button.in_progress
      BY <1>2, <2>1, <2>2, <3>2 DEF HeldInv
    <3> QED BY <1>4, <3>1, <3>2
  <2> QED BY <1>4, <1>6, <2>2 DEF HeldInv
<1>9. FireInv'
  BY <1>4, <1>6 DEF FireInv
<1> QED BY <1>7, <1>8, <1>9

(* A poll past the grace. *)
LEMMA SettledHold ==
  ASSUME TypeOK, PastInv, HeldInv, FireInv,
         NEW t \in Times, now < t, t <= now + Late,
         NEW sg \in BOOLEAN, NEW low \in BOOLEAN, SettledPoll(sg, low, t)
  PROVE  PastInv' /\ HeldInv' /\ FireInv' /\ HeldWhenFired'
<1> DEFINE s == Settled(sg, t)
           m == Machine(s, low, t)
           called == Calls(s, low, t)
<1>1. button \in Buttons /\ now \in Nat /\ t \in Nat
  BY SomeTimes DEF TypeOK
<1>2. /\ sg = low \/ button.phase = "STRAP_GRACE"
      /\ button' = m /\ now' = t /\ Watch(sg, low, t)
      /\ quiet' = (quiet /\ ~(sg /\ button.phase = "STRAP_GRACE"))
      /\ last_call' = IF called THEN t ELSE last_call
  BY DEF SettledPoll
<1>3. /\ s \in Buttons
      /\ s.phase \in {"BOOT_TIME", "RUNTIME"}
      /\ s.phase = "BOOT_TIME" => t < BootEnd
      /\ s.state = button.state /\ s.fired_at = button.fired_at
      /\ s.last_edge <= t
      /\ button.phase # "STRAP_GRACE" =>
           s.last_edge = button.last_edge /\ s.in_progress = button.in_progress
      /\ button.phase = "STRAP_GRACE" =>
           /\ t <= GraceEnd + Late /\ GraceEnd <= t
           /\ s.state = "IDLE"
           /\ s.last_edge = GraceEdge(button, sg, t).last_edge
           /\ s.in_progress = GraceEdge(button, sg, t).in_progress
      /\ s.runtime_start \in {button.runtime_start, t}
      /\ s.state = "PRESSED" /\ s.phase = "RUNTIME" /\ button.phase # "RUNTIME" =>
           s.runtime_start = t /\ t <= BootEnd + Late
      /\ button.phase = "RUNTIME" => s = button
  BY SettledFacts DEF SettledPoll
<1>4. /\ called => s.state = "PRESSED" /\ Due(s, t) /\ (low \/ ~Bouncing(s, t))
      /\ s.state = "PRESSED" /\ Due(s, t) /\ low => called
  BY DEF Calls
<1> HIDE DEF s, called
<1>5. /\ m \in Buttons
      /\ m.phase = s.phase
      /\ s.state = "IDLE" /\ low /\ ~Bouncing(s, t) =>
           /\ m.state = "PRESSED" /\ m.in_progress = TRUE /\ m.last_edge = t
           /\ m.fired_at = 0
           /\ m.runtime_start = IF s.in_progress \/ s.phase # "RUNTIME"
                                THEN s.runtime_start ELSE t
      /\ s.state = "IDLE" /\ (low => Bouncing(s, t)) => m = s
      /\ s.state = "PRESSED" /\ low =>
           /\ m.state = "PRESSED" /\ m.last_edge = s.last_edge
           /\ m.in_progress = s.in_progress /\ m.runtime_start = s.runtime_start
           /\ m.fired_at = IF Due(s, t) THEN t ELSE s.fired_at
      /\ s.state = "PRESSED" /\ ~low /\ Bouncing(s, t) => m = s
      /\ s.state = "PRESSED" /\ ~low /\ ~Bouncing(s, t) =>
           /\ m.state = "IDLE" /\ m.in_progress = FALSE /\ m.last_edge = t
           /\ m.fired_at = 0 /\ m.runtime_start = 0
      /\ s.state \in {"IDLE", "PRESSED"}
  <2>1. Switches(s, low, t, m)
    BY <1>3, MachineFacts
  <2> QED BY <2>1 DEF Switches
<1> HIDE DEF m
<1>6. /\ {low_since', high_since', opened'} \subseteq Never..t
      /\ low_since' = Never \/ high_since' = Never
      /\ low => opened' # Never /\ opened' \in {opened, t} /\ high_since' = Never
      /\ low => low_since' # Never /\ (low_since' = t \/ (low_since # Never /\ low_since' = low_since))
      /\ ~low => low_since' = Never /\ high_since' # Never
      /\ ~low => opened' = opened \/ (high_since # Never /\ t - high_since >= Debounce)
      /\ ~low => high_since' = t \/ (high_since # Never /\ high_since' = high_since)
      /\ opened # Never /\ opened' # Never => opened' = opened
  BY <1>2, WatchFacts
<1>7. /\ s.last_edge \in Int /\ s.runtime_start \in Nat /\ s.fired_at \in Nat
      /\ button.last_edge \in Int /\ button.runtime_start \in Nat
      /\ m.last_edge \in Int /\ m.runtime_start \in Nat /\ m.fired_at \in Nat
      /\ s.in_progress \in BOOLEAN /\ button.in_progress \in BOOLEAN
      /\ last_call \in Int /\ last_call < t
      /\ low_since \in Int /\ high_since \in Int /\ opened \in Int
      /\ low_since' \in Int /\ high_since' \in Int /\ opened' \in Int
  <2>1. last_call \in Times \cup {Never} /\ last_call <= now
    BY DEF TypeOK, PastInv
  <2>2. last_call \in Int /\ last_call < t
    <3>1. CASE last_call = Never
      BY <3>1, <1>1 DEF Never
    <3>2. CASE last_call \in Times
      <4>1. last_call \in Nat
        BY <3>2, SomeTimes
      <4> QED BY <4>1, <2>1, <1>1
    <3> QED BY <2>1, <3>1, <3>2
  <2>3. low_since \in Int /\ high_since \in Int /\ opened \in Int
    BY <1>1 DEF PastInv, Never
  <2>4. low_since' \in Int /\ high_since' \in Int /\ opened' \in Int
    BY <1>1, <1>6 DEF Never
  <2> QED BY <1>1, <1>3, <1>5, ButtonNumbers, <2>2, <2>3, <2>4
<1>8. last_call' \in Int /\ last_call <= last_call' /\ last_call' <= t
  BY <1>1, <1>2, <1>7
<1>9. s.state = "PRESSED" => s.last_edge = button.last_edge /\ s.last_edge # Never
  BY <1>3 DEF PastInv
<1>10. s.runtime_start <= t /\ (s.fired_at # 0 => s.fired_at <= last_call)
  BY <1>1, <1>3, <1>7 DEF PastInv
<1>11. PastInv'
  <2>1. m.state = "PRESSED" => m.last_edge # Never
    BY <1>1, <1>5, <1>9 DEF Never
  <2>2. m.last_edge <= t /\ m.runtime_start <= t
    BY <1>1, <1>3, <1>5, <1>7, <1>10
  <2>3. m.fired_at # 0 => m.fired_at <= last_call'
    BY <1>1, <1>2, <1>4, <1>5, <1>7, <1>8, <1>10
  <2> QED BY <1>1, <1>2, <1>3, <1>5, <1>6, <1>8, <2>1, <2>2, <2>3, SomeTimes DEF PastInv
<1>12. ASSUME quiet'
       PROVE  /\ quiet
              /\ s.state = "IDLE" => s.in_progress = FALSE
              /\ s.state = "PRESSED" =>
                   /\ opened # Never /\ opened <= s.last_edge
                   /\ s.phase = "RUNTIME" => s.last_edge <= s.runtime_start
                   /\ high_since # Never =>
                        s.last_edge <= high_since /\ now - s.last_edge < Debounce
  <2>1. quiet /\ ~(sg /\ button.phase = "STRAP_GRACE")
    BY <1>2, <1>12
  <2>2. CASE button.phase = "STRAP_GRACE"
    <3>1. sg = FALSE /\ s.state = "IDLE" /\ GraceEnd <= t
      BY <1>3, <2>1, <2>2
    <3>2. button.in_progress => ~Bouncing(button, t)
      BY <1>1, <1>7, <2>1, <2>2, <3>1, SomeTimes DEF HeldInv, Bouncing
    <3>3. GraceEdge(button, sg, t).in_progress = FALSE
      BY <1>1, <1>7, <3>1, <3>2 DEF GraceEdge, Buttons
    <3> QED BY <1>3, <2>1, <2>2, <3>1, <3>3
  <2>3. CASE button.phase # "STRAP_GRACE"
    <3>1. /\ button.state = "IDLE" => ~button.in_progress
          /\ button.state = "PRESSED" =>
               /\ opened # Never /\ opened <= button.last_edge
               /\ button.phase = "RUNTIME" => button.last_edge <= button.runtime_start
               /\ high_since # Never =>
                    button.last_edge <= high_since /\ now - button.last_edge < Debounce
      BY <2>1, <2>3 DEF HeldInv
    <3> QED BY <1>3, <1>7, <2>1, <2>3, <3>1
  <2> QED BY <2>2, <2>3
<1>13. HeldInv'
  <2> SUFFICES ASSUME quiet' PROVE HeldInv'
    BY DEF HeldInv
  <2>1. m.state = "IDLE" => m.in_progress = FALSE
    BY <1>5, <1>12
  <2>2. ASSUME m.state = "PRESSED"
        PROVE  /\ opened' # Never /\ opened' <= m.last_edge
               /\ m.phase = "RUNTIME" => m.last_edge <= m.runtime_start
               /\ high_since' # Never =>
                    m.last_edge <= high_since' /\ t - m.last_edge < Debounce
    <3>1. CASE s.state = "IDLE"
      <4>1. low /\ ~Bouncing(s, t) /\ s.in_progress = FALSE
        BY <1>5, <1>12, <2>2, <3>1
      <4> QED BY <1>1, <1>5, <1>6, <1>7, <3>1, <4>1 DEF Never
    <3>2. CASE s.state = "PRESSED" /\ low
      BY <1>5, <1>6, <1>12, <3>2
    <3>3. CASE s.state = "PRESSED" /\ ~low
      <4>1. m = s /\ Bouncing(s, t)
        BY <1>5, <2>2, <3>3
      <4>2. t - s.last_edge < Debounce
        BY <4>1 DEF Bouncing
      <4>3. opened' = opened
        BY <1>1, <1>6, <1>7, <1>12, <3>3, <4>2, SomeTimes
      <4> QED BY <1>1, <1>3, <1>6, <1>7, <1>12, <3>3, <4>1, <4>2, <4>3
    <3> QED BY <1>5, <3>1, <3>2, <3>3
  <2> QED BY <1>2, <1>3, <1>5, <2>1, <2>2 DEF HeldInv
<1>14. HeldWhenFired'
  <2> SUFFICES ASSUME quiet', last_call' = t
               PROVE  opened' # Never /\ t - opened' >= RuntimeLong
    BY <1>2 DEF HeldWhenFired, OnlyAfterHold
  <2>1. called /\ s.state = "PRESSED" /\ s.phase = "RUNTIME"
        /\ t - s.runtime_start >= RuntimeLong
    BY <1>2, <1>4, <1>7 DEF Due
  <2>2. /\ opened # Never /\ opened <= s.last_edge /\ s.last_edge <= s.runtime_start
        /\ high_since # Never =>
             s.last_edge <= high_since /\ now - s.last_edge < Debounce
    BY <1>12, <2>1
  <2>3. opened' = opened
    <3>1. CASE low
      BY <1>6, <2>2, <3>1
    <3>2. CASE ~low
      <4>1. t - s.last_edge >= Debounce + Late
        BY <1>1, <1>7, <2>1, <2>2, SomeTimes, SomeDelays
      <4>2. now - s.last_edge >= Debounce
        BY <1>1, <1>7, <4>1, SomeTimes
      <4>3. high_since = Never
        BY <1>1, <1>7, <2>2, <4>2, SomeTimes
      <4> QED BY <1>6, <3>2, <4>3
    <3> QED BY <3>1, <3>2
  <2> QED BY <1>1, <1>7, <2>1, <2>2, <2>3, SomeTimes
<1>15. FireInv'
  <2> SUFFICES ASSUME low PROVE FireInv'
    BY <1>6 DEF FireInv
  <2> DEFINE from == Later(low_since', BootEnd + Late)
  <2>1. low_since' \in Int /\ low_since' # Never
        /\ (low_since' = t \/ (low_since # Never /\ low_since' = low_since))
    BY <1>6, <1>7
  <2>2. from \in Int /\ low_since' <= from /\ BootEnd + Late <= from
        /\ (low_since' = low_since => from = From)
    BY <2>1, SomeTimes DEF Later, From
  <2>3. from = From'
    BY DEF From, Later
  <2> HIDE DEF from
  <2>4. ASSUME m.state = "IDLE"
        PROVE  /\ t - m.last_edge < Debounce
               /\ m.last_edge <= Later(low_since', GraceEnd + Late)
               /\ m.last_edge # Never
    <3>1. s.state = "IDLE" /\ Bouncing(s, t) /\ m = s
      BY <1>5, <2>4
    <3>2. t - s.last_edge < Debounce /\ s.last_edge # Never
      BY <3>1 DEF Bouncing
    <3>3. s.last_edge <= Later(low_since', GraceEnd + Late)
      <4>1. CASE low_since' = t
        BY <1>1, <1>3, <1>7, <4>1, SomeTimes DEF Later
      <4>2. CASE button.phase = "STRAP_GRACE"
        BY <1>1, <1>3, <1>7, <4>2, SomeTimes DEF Later
      <4>3. CASE low_since # Never /\ low_since' = low_since /\ button.phase # "STRAP_GRACE"
        BY <1>3, <3>1, <4>3 DEF FireInv
      <4> QED BY <2>1, <4>1, <4>2, <4>3
    <3> QED BY <3>1, <3>2, <3>3
  <2>5. ASSUME m.state = "PRESSED", m.phase = "RUNTIME"
        PROVE  /\ m.runtime_start < from + Debounce + Late
               /\ \/ last_call' >= low_since'
                  \/ t - m.runtime_start < RuntimeLong
                  \/ m.fired_at < low_since' /\ t - m.fired_at < Cooldown
                  \/ t < from + Debounce + Late
    <3>1. CASE s.state = "IDLE"
      <4>1. m.runtime_start <= t
        BY <1>1, <1>5, <1>7, <1>10, <2>5, <3>1
      <4>2. t < from + Debounce + Late
        <5>1. CASE low_since' = t
          BY <1>1, <2>2, <5>1, SomeTimes
        <5>2. CASE button.phase = "STRAP_GRACE"
          BY <1>1, <1>3, <2>2, <5>2, SomeTimes, SomeDelays
        <5>3. CASE low_since # Never /\ low_since' = low_since /\ button.phase # "STRAP_GRACE"
          <6>1. /\ now - button.last_edge < Debounce
                /\ button.last_edge <= Later(low_since, GraceEnd + Late)
            BY <1>3, <3>1, <5>3 DEF FireInv
          <6>2. Later(low_since, GraceEnd + Late) <= from
                /\ Later(low_since, GraceEnd + Late) \in Int
            BY <1>7, <2>1, <2>2, <5>3, SomeTimes, SomeDelays DEF Later
          <6> QED BY <1>1, <1>7, <2>2, <6>1, <6>2, SomeTimes
        <5> QED BY <2>1, <5>1, <5>2, <5>3
      <4> QED BY <1>1, <1>7, <2>2, <4>1, <4>2, SomeTimes
    <3>2. CASE s.state = "PRESSED"
      <4>1. m.runtime_start = s.runtime_start /\ s.phase = "RUNTIME"
        BY <1>5, <2>5, <3>2
      <4>2. s.runtime_start < from + Debounce + Late
        <5>1. CASE button.phase # "RUNTIME"
          BY <1>1, <1>3, <2>2, <3>2, <4>1, <5>1, SomeTimes
        <5>2. CASE low_since' = t
          BY <1>1, <1>7, <1>10, <2>2, <5>2, SomeTimes
        <5>3. CASE button.phase = "RUNTIME" /\ low_since # Never /\ low_since' = low_since
          BY <1>3, <2>2, <3>2, <5>3 DEF FireInv
        <5> QED BY <2>1, <5>1, <5>2, <5>3
      <4>3. CASE Due(s, t)
        <5>1. last_call' = t
          BY <1>2, <1>4, <3>2, <4>3
        <5> QED BY <1>1, <1>6, <2>1, <4>1, <4>2, <5>1 DEF Never
      <4>4. CASE ~Due(s, t)
        <5>1. \/ t - s.runtime_start < RuntimeLong
              \/ s.fired_at # 0 /\ t - s.fired_at < Cooldown
          BY <1>1, <1>7, <4>1, <4>4, SomeTimes DEF Due
        <5>2. m.fired_at = s.fired_at
          BY <1>5, <3>2, <4>4
        <5> QED BY <1>7, <1>8, <1>10, <2>1, <4>1, <4>2, <5>1, <5>2
      <4> QED BY <4>3, <4>4
    <3> QED BY <1>5, <3>1, <3>2
  <2> QED BY <1>2, <2>3, <2>4, <2>5 DEF FireInv
<1> QED BY <1>11, <1>13, <1>14, <1>15

LEMMA NextHold ==
  ASSUME TypeOK, PastInv, HeldInv, FireInv, HeldWhenFired, [Next]_vars
  PROVE  PastInv' /\ HeldInv' /\ FireInv' /\ HeldWhenFired'
<1>1. CASE Poll
  <2>1. PICK t \in Times :
           /\ now < t /\ t <= now + Late
           /\ \/ \E sg \in BOOLEAN :
                   /\ Phase(sg, t).phase = "STRAP_GRACE"
                   /\ button' = Phase(sg, t)
                   /\ now' = t
                   /\ Watch(sg, sg, t)
                   /\ quiet' = (quiet /\ ~(sg /\ t >= GraceEnd - Debounce))
                   /\ last_call' = last_call
              \/ \E sg \in BOOLEAN, low \in BOOLEAN : SettledPoll(sg, low, t)
    BY <1>1, PollForms
  <2>2. ASSUME NEW sg \in BOOLEAN,
               Phase(sg, t).phase = "STRAP_GRACE", button' = Phase(sg, t),
               now' = t, Watch(sg, sg, t),
               quiet' = (quiet /\ ~(sg /\ t >= GraceEnd - Debounce)),
               last_call' = last_call
        PROVE  PastInv' /\ HeldInv' /\ FireInv' /\ HeldWhenFired'
    <3>1. PastInv' /\ HeldInv' /\ FireInv'
      BY <2>1, <2>2, GraceHold
    <3>2. button.phase = "STRAP_GRACE"
      BY <2>2, SettledRuntime DEF Phase
    <3>3. last_call' = Never /\ now' \in Nat
      BY <2>1, <2>2, <3>2, SomeTimes DEF PastInv
    <3>4. HeldWhenFired'
      BY <3>3 DEF HeldWhenFired, OnlyAfterHold, Never
    <3> QED BY <3>1, <3>4
  <2>3. ASSUME NEW sg \in BOOLEAN, NEW low \in BOOLEAN, SettledPoll(sg, low, t)
        PROVE  PastInv' /\ HeldInv' /\ FireInv' /\ HeldWhenFired'
    BY <2>1, <2>3, SettledHold
  <2> QED BY <2>1, <2>2, <2>3
<1>2. CASE Reset
  <2>1. /\ button'.phase = "STRAP_GRACE" /\ button'.state = "IDLE"
        /\ button'.last_edge = -1 /\ button'.runtime_start = 0 /\ button'.fired_at = 0
        /\ button'.in_progress = FALSE
    BY <1>2 DEF Reset, BootState, Never
  <2>2. now' = StartTime /\ low_since' = -1 /\ high_since' = -1 /\ opened' = -1
        /\ last_call' = -1
    BY <1>2 DEF Reset, Never
  <2>3. PastInv'
    BY <2>1, <2>2, SomeTimes, SomeDelays DEF PastInv, Never
  <2>4. HeldInv'
    BY <2>1 DEF HeldInv
  <2>5. FireInv' /\ HeldWhenFired'
    BY <2>2, SomeTimes DEF FireInv, HeldWhenFired, OnlyAfterHold, Never
  <2> QED BY <2>3, <2>4, <2>5
<1>3. CASE UNCHANGED vars
  <2>1. UNCHANGED <<button, now, low_since, high_since, opened, quiet, last_call>>
    BY <1>3 DEF vars, history
  <2>2. PastInv' /\ FireInv'
    BY <2>1 DEF PastInv, FireInv, From, Later
  <2>3. HeldInv'
    BY <2>1 DEF HeldInv
  <2>4. HeldWhenFired'
    BY <2>1 DEF HeldWhenFired, OnlyAfterHold
  <2> QED BY <2>2, <2>3, <2>4
<1> QED BY <1>1, <1>2, <1>3 DEF Next

THEOREM HoldInvariants == Spec => [](PastInv /\ HeldInv /\ FireInv /\ HeldWhenFired)
<1>1. Init => PastInv /\ HeldInv /\ FireInv /\ HeldWhenFired
  <2>1. Init => HeldWhenFired
    BY SomeTimes DEF Init, HeldWhenFired, OnlyAfterHold, Never
  <2> QED BY <2>1, InitHold
<1>2. TypeOK /\ (PastInv /\ HeldInv /\ FireInv /\ HeldWhenFired) /\ [Next]_vars
        => (PastInv /\ HeldInv /\ FireInv /\ HeldWhenFired)'
  BY NextHold
<1> QED BY <1>1, <1>2, TypeCorrect, PTL DEF Spec

(* No press under way as the strap grace ends: a factory reset is called   *)
(* only after a real hold, button.c:604-762.                               *)
THEOREM HeldCorrect == Spec => []HeldWhenFired
<1> QED BY HoldInvariants, PTL

(* A hold that lasts is never missed, whatever bounced before it and       *)
(* whichever phase it began in, button.c:578-689.                          *)
THEOREM HoldCorrect == Spec => []HoldFires
<1>1. TypeOK /\ PastInv /\ FireInv => HoldFires
  <2> SUFFICES ASSUME TypeOK, PastInv, FireInv, low_since # Never,
                      now - From >= RuntimeLong + Debounce + Late
               PROVE  last_call >= low_since
    BY DEF HoldFires, From
  <2>1. button \in Buttons /\ now \in Nat
    BY SomeTimes DEF TypeOK
  <2>2. low_since \in Int /\ last_call \in Int
    <3>1. low_since \in Int
      BY <2>1 DEF PastInv, Never
    <3>2. last_call \in Times \cup {Never}
      BY DEF TypeOK
    <3>3. CASE last_call \in Times
      <4>1. last_call \in Nat
        BY <3>3, SomeTimes
      <4> QED BY <3>1, <4>1
    <3>4. CASE last_call = Never
      BY <3>1, <3>4 DEF Never
    <3> QED BY <3>2, <3>3, <3>4
  <2>3. From \in Int /\ low_since <= From /\ BootEnd + Late <= From
    BY <2>2, SomeTimes DEF From, Later
  <2>4. now >= From + RuntimeLong + Debounce + Late
    BY <2>1, <2>3, SomeTimes
  <2>5. button.phase = "RUNTIME"
    <3>1. now > BootEnd /\ now > GraceEnd
      BY <2>1, <2>3, <2>4, SomeTimes, SomeDelays
    <3>2. button.phase \in {"STRAP_GRACE", "BOOT_TIME", "RUNTIME"}
      BY <2>1 DEF Buttons
    <3> QED BY <2>1, <3>1, <3>2, SomeTimes DEF PastInv
  <2>6. button.state = "PRESSED"
    <3> SUFFICES ASSUME button.state = "IDLE" PROVE FALSE
      BY <2>1, ButtonNumbers
    <3>1. /\ now - button.last_edge < Debounce
          /\ button.last_edge <= Later(low_since, GraceEnd + Late)
      BY <2>5 DEF FireInv
    <3>2. Later(low_since, GraceEnd + Late) <= From /\ Later(low_since, GraceEnd + Late) \in Int
      BY <2>2, <2>3, SomeTimes, SomeDelays DEF Later
    <3>3. button.last_edge \in Int
      BY <2>1, ButtonNumbers
    <3> QED BY <2>1, <2>3, <2>4, <3>1, <3>2, <3>3, SomeTimes
  <2>7. /\ button.runtime_start < From + Debounce + Late
        /\ \/ last_call >= low_since
           \/ now - button.runtime_start < RuntimeLong
           \/ button.fired_at < low_since /\ now - button.fired_at < Cooldown
           \/ now < From + Debounce + Late
    BY <2>5, <2>6 DEF FireInv
  <2>8. button.runtime_start \in Nat /\ button.fired_at \in Nat
    BY <2>1, ButtonNumbers
  <2> QED BY <2>1, <2>2, <2>3, <2>4, <2>7, <2>8, SomeTimes, SomeDelays
<1> QED BY <1>1, HoldInvariants, TypeCorrect, PTL

=============================================================================
