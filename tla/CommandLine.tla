---------------------------- MODULE CommandLine ----------------------------
(***************************************************************************)
(* What the control component promises to a client of /cams (control.h,    *)
(* stream_cmd.h): text frames wait in a bounded first-in first-out line    *)
(* that refuses the newest when it is full; each is served once, in order, *)
(* by the one right sequence of replies and gate changes for its body; and *)
(* every frame refused is counted.  ControlRouter.tla implements this with *)
(* a ring of heap copies, a semaphore and the router's two stages.         *)
(***************************************************************************)
EXTENDS Naturals, Sequences

CONSTANTS Depth,           \* frames the line holds
          FpsMin, FpsMax,  \* range of the frame rate
          FpsDefault,      \* rate of a start that names none
          CounterMod,      \* the drop counter wraps here
          Absent,          \* a member the body does not have
          Long,            \* an id string over the echo cap
          Wrong,           \* a member of the wrong type
          Huge,            \* an integral rate outside the range of long long
          Bodies,          \* the text frames that come
          NoBody           \* none of them

VARIABLES offered,   \* a frame that has arrived, or NoBody
          waiting,   \* bodies accepted, oldest first
          serving,   \* the body being served, or NoBody
          todo,      \* what is left to do for it
          judged,    \* it is decided what to do
          ready,     \* the stream handler is registered
          rate,      \* the applied frame rate
          dropped    \* frames refused

vars == <<offered, waiting, serving, todo, judged, ready, rate, dropped>>

Commands == {"stream", "config", "reset_cam", "sleep", "reboot", "identify"}

\* The replies and the changes of the capture gate.
Error(reason, b) == [reply |-> "error", reason |-> reason,
                     id |-> IF b.id = Long THEN Absent ELSE b.id]
Ack(on, fps)     == [reply |-> "stream_ok", on |-> on, fps |-> fps]
Open(fps)        == [gate |-> "open", fps |-> fps]
Close            == [gate |-> "closed"]

Listed(b)  == b.json = "object" /\ b.cmd \in Commands
Handled(b) == Listed(b) /\ b.cmd = "stream" /\ ready
Starts(b)  == Handled(b) /\ b.on = "true"  /\ b.fps # Wrong
Stops(b)   == Handled(b) /\ b.on = "false" /\ b.fps # Wrong

\* The rates a start may apply: an absent one is the default, one out of range
\* is clamped; the header says nothing of one that fits no integer type.
Applies(b, f) ==
  CASE b.fps = Absent -> f = FpsDefault
    [] b.fps = Huge   -> f \in FpsMin..FpsMax
    [] OTHER -> /\ f \in FpsMin..FpsMax
                /\ b.fps \in FpsMin..FpsMax => f = b.fps
                /\ b.fps < FpsMin => f = FpsMin
                /\ b.fps > FpsMax => f = FpsMax

\* The one right way to serve a body.
Right(b, script) ==
  \/ b.json = "broken" /\ script = <<Error("bad_json", b)>>
  \/ b.json # "broken" /\ ~Listed(b) /\ script = <<Error("unknown", b)>>
  \/ Listed(b) /\ ~Handled(b) /\ script = <<Error("not_implemented", b)>>
  \/ Handled(b) /\ (b.fps = Huge \/ ~(Starts(b) \/ Stops(b)))
                /\ script = <<Error("bad_field", b)>>
  \/ Starts(b) /\ script = <<Error("no_viewer", b)>>
  \/ Starts(b) /\ \E f \in FpsMin..FpsMax : Applies(b, f) /\ script = <<Ack(TRUE, f), Open(f)>>
  \/ Stops(b)  /\ script = <<Close, Ack(FALSE, rate)>>

Init == /\ offered = NoBody
        /\ waiting = << >> /\ serving = NoBody /\ todo = << >> /\ judged = FALSE
        /\ ready = FALSE /\ rate = FpsDefault /\ dropped = 0

Offer(b) == /\ offered = NoBody
            /\ offered' = b
            /\ UNCHANGED <<waiting, serving, todo, judged, ready, rate, dropped>>

Accept == /\ offered # NoBody /\ Len(waiting) < Depth
          /\ waiting' = Append(waiting, offered)
          /\ offered' = NoBody
          /\ UNCHANGED <<serving, todo, judged, ready, rate, dropped>>

\* A full line refuses the newest frame.
Refuse == /\ offered # NoBody /\ Len(waiting) = Depth
          /\ dropped' = (dropped + 1) % CounterMod
          /\ offered' = NoBody
          /\ UNCHANGED <<waiting, serving, todo, judged, ready, rate>>

\* A frame too long to be looked at.
Oversize == /\ offered = NoBody
            /\ dropped' = (dropped + 1) % CounterMod
            /\ UNCHANGED <<offered, waiting, serving, todo, judged, ready, rate>>

Take == /\ serving = NoBody /\ waiting # << >>
        /\ serving' = Head(waiting) /\ waiting' = Tail(waiting)
        /\ UNCHANGED <<offered, todo, judged, ready, rate, dropped>>

Judge == /\ serving # NoBody /\ ~judged
         /\ judged' = TRUE
         /\ Right(serving, todo')
         /\ UNCHANGED <<offered, waiting, serving, ready, rate, dropped>>

Do == /\ todo # << >>
      /\ todo' = Tail(todo)
      /\ rate' = IF \E f \in FpsMin..FpsMax : Head(todo) = Open(f)
                 THEN Head(todo).fps ELSE rate
      /\ UNCHANGED <<offered, waiting, serving, judged, ready, dropped>>

Finish == /\ judged /\ todo = << >>
          /\ serving' = NoBody /\ judged' = FALSE
          /\ UNCHANGED <<offered, waiting, todo, ready, rate, dropped>>

Enable == /\ ready' = TRUE
          /\ UNCHANGED <<offered, waiting, serving, todo, judged, rate, dropped>>

Next == \/ \E b \in Bodies : Offer(b)
        \/ Accept \/ Refuse \/ Oversize
        \/ Take \/ Judge \/ Do \/ Finish \/ Enable

Spec == Init /\ [][Next]_vars
=============================================================================
