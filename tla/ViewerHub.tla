----------------------------- MODULE ViewerHub -----------------------------
(***************************************************************************)
(* hub.go's fan-out of one camera: frames arrive through the bus, one      *)
(* callback at a time, and go into the bounded queue of every viewer,      *)
(* which the viewer's writer drains at the pace of its socket.             *)
(*                                                                         *)
(* enqueue is a sequence of separate non-blocking channel operations, and  *)
(* the writer may take frames between any two of them.  Frames are         *)
(* numbered in the order they were published.                              *)
(***************************************************************************)
EXTENDS Integers, Sequences, FiniteSets

CONSTANTS
  Viewers,        \* viewer objects, each used once
  Nobody,         \* no viewer
  Depth,          \* viewerQueueDepth
  PendingLimit,   \* SetPendingLimits of the wildcard subscription
  FrameBound      \* frames published, at most

ASSUME ViewersAssumption == Nobody \notin Viewers
ASSUME DepthAssumption == Depth \in Nat \ {0}
ASSUME PendingAssumption == PendingLimit \in Nat \ {0}
ASSUME BoundAssumption == FrameBound \in Nat

VARIABLES
  produced,       \* frames relay.go has published
  bus,            \* external: the subscription's pending messages
  subscribed,     \* the hub has its subscription
  lost,           \* external: messages a full subscription dropped (its Dropped,
                  \* which the hub logs), or that an ended one was not given
  frame,          \* the frame receive is handing out, or 0
  targets,        \* viewers of receive's snapshot it has not come to
  target,         \* the viewer enqueue is at, or Nobody
  step,           \* where enqueue is
  attached,       \* Hub.viewers[mac]
  state,          \* done is open, or closed, or the viewer is still to come
  writer,         \* writeLoop: not running, at its select, or writing to the socket
  queue,          \* viewer.frames
  dropped,        \* viewer.dropped
  total,          \* Hub.dropped[mac]
  joined,         \* history: frames receive had been called with when it attached
  offered,        \* history: frames enqueue was given for the viewer
  taken,          \* history: frames its writer took
  newest,         \* history: the last of the offered ones
  last            \* history: the last of the taken ones

source == <<produced, bus, subscribed, lost>>
callback == <<frame, targets, target, step>>
counters == <<dropped, total>>
input == <<joined, offered, newest>>
output == <<taken, last>>
vars == <<source, callback, attached, state, writer, queue, counters, input, output>>

Frames == 1..FrameBound

TypeOK ==
  /\ produced \in 0..FrameBound
  /\ bus \in Seq(Frames)
  /\ Len(bus) <= PendingLimit
  /\ subscribed \in BOOLEAN
  /\ lost \in Nat
  /\ joined \in [Viewers -> Int]
  /\ frame \in 0..FrameBound
  /\ targets \subseteq Viewers
  /\ target \in Viewers \cup {Nobody}
  /\ step \in {"done?", "offer", "evict", "again", "count"}
  /\ attached \subseteq Viewers
  /\ state \in [Viewers -> {"absent", "open", "done"}]
  /\ writer \in [Viewers -> {"off", "select", "write"}]
  /\ queue \in [Viewers -> Seq(Frames)]
  /\ \A v \in Viewers : Len(queue[v]) <= Depth
  /\ dropped \in [Viewers -> Nat]
  /\ total \in Nat
  /\ offered \in [Viewers -> Nat]
  /\ taken \in [Viewers -> Nat]
  /\ newest \in [Viewers -> 0..FrameBound]
  /\ last \in [Viewers -> 0..FrameBound]

Zeros == [v \in Viewers |-> 0]

Init ==
  /\ produced = 0
  /\ bus = <<>>
  /\ subscribed = TRUE
  /\ lost = 0
  /\ frame = 0
  /\ targets = {}
  /\ target = Nobody
  /\ step = "done?"
  /\ attached = {}
  /\ state = [v \in Viewers |-> "absent"]
  /\ writer = [v \in Viewers |-> "off"]
  /\ queue = [v \in Viewers |-> <<>>]
  /\ dropped = Zeros
  /\ total = 0
  /\ joined = Zeros
  /\ offered = Zeros
  /\ taken = Zeros
  /\ newest = Zeros
  /\ last = Zeros
-----------------------------------------------------------------------------
(* The bus *)

\* nc.Publish never waits: a full subscription loses the new message and counts
\* it; without a subscription the message goes nowhere.
Publish ==
  /\ produced < FrameBound
  /\ produced' = produced + 1
  /\ IF subscribed /\ Len(bus) < PendingLimit
     THEN bus' = Append(bus, produced + 1) /\ UNCHANGED lost
     ELSE lost' = lost + 1 /\ UNCHANGED bus
  /\ UNCHANGED <<subscribed, callback, attached, state, writer, queue, counters, input, output>>

\* Hub.Close: no callback is made for what is pending; one that runs goes on.
Close ==
  /\ subscribed
  /\ subscribed' = FALSE
  /\ lost' = lost + Len(bus)
  /\ bus' = <<>>
  /\ UNCHANGED <<produced, callback, attached, state, writer, queue, counters, input, output>>

\* The messages receive has been called with.
Received == produced - Len(bus) - lost
-----------------------------------------------------------------------------
(* receive and enqueue *)

\* A new callback: the frame is copied, the viewers are listed under the lock.
Receive ==
  /\ frame = 0
  /\ bus # <<>>
  /\ frame' = Head(bus)
  /\ bus' = Tail(bus)
  /\ targets' = attached
  /\ UNCHANGED <<produced, subscribed, lost, target, step, attached, state, writer, queue, counters, input, output>>

NextViewer ==
  /\ frame # 0
  /\ target = Nobody
  /\ \E v \in targets :
       /\ target' = v
       /\ targets' = targets \ {v}
  /\ step' = "done?"
  /\ UNCHANGED <<source, frame, attached, state, writer, queue, counters, input, output>>

CallbackReturns ==
  /\ frame # 0
  /\ target = Nobody
  /\ targets = {}
  /\ frame' = 0
  /\ UNCHANGED <<source, targets, target, step, attached, state, writer, queue, counters, input, output>>

EnqueueReturns == target' = Nobody /\ UNCHANGED step
Goto(s) == step' = s /\ UNCHANGED target
Push(v) == queue' = [queue EXCEPT ![v] = Append(@, frame)]

\* A viewer that is shutting down takes nothing.
CheckDone(v) ==
  /\ step = "done?"
  /\ IF state[v] = "done"
     THEN EnqueueReturns /\ UNCHANGED input
     ELSE /\ Goto("offer")
          /\ offered' = [offered EXCEPT ![v] = @ + 1]
          /\ newest' = [newest EXCEPT ![v] = frame]
          /\ UNCHANGED joined
  /\ UNCHANGED <<queue, counters>>

\* Fault: the first send waits for room.
OfferBlocking(v) ==
  /\ step = "offer"
  /\ Len(queue[v]) < Depth
  /\ Push(v)
  /\ EnqueueReturns
  /\ UNCHANGED <<counters, input>>

\* Fault: no return after the first send.
OfferTwice(v) ==
  /\ step = "offer"
  /\ IF Len(queue[v]) < Depth THEN Push(v) ELSE UNCHANGED queue
  /\ Goto("evict")
  /\ UNCHANGED <<counters, input>>

\* The first send, which succeeds if there is room.
Offer(v) ==
  /\ step = "offer"
  /\ IF Len(queue[v]) < Depth
     THEN Push(v) /\ EnqueueReturns
     ELSE Goto("evict") /\ UNCHANGED queue
  /\ UNCHANGED <<counters, input>>

\* Fault: nothing is evicted, so that the new frame finds no room.
EvictNothing(v) ==
  /\ step = "evict"
  /\ Goto("again")
  /\ UNCHANGED <<queue, counters, input>>

\* The oldest frame goes, if the writer has left any.
Evict(v) ==
  /\ step = "evict"
  /\ queue' = IF queue[v] = <<>> THEN queue ELSE [queue EXCEPT ![v] = Tail(@)]
  /\ Goto("again")
  /\ UNCHANGED <<counters, input>>

\* The second send: without room the frame is lost, and not counted.
OfferAgain(v) ==
  /\ step = "again"
  /\ IF Len(queue[v]) < Depth
     THEN Push(v) /\ Goto("count")
     ELSE EnqueueReturns /\ UNCHANGED queue
  /\ UNCHANGED <<counters, input>>

\* Fault: only the camera's counter moves.
CountTotalOnly(v) ==
  /\ step = "count"
  /\ total' = total + 1
  /\ EnqueueReturns
  /\ UNCHANGED <<queue, dropped, input>>

\* The viewer's counter and, by onDrop, the camera's.
CountDrop(v) ==
  /\ step = "count"
  /\ dropped' = [dropped EXCEPT ![v] = @ + 1]
  /\ total' = total + 1
  /\ EnqueueReturns
  /\ UNCHANGED <<queue, input>>

Enqueue ==
  /\ target # Nobody
  /\ \/ CheckDone(target)
     \/ Offer(target)
     \/ Evict(target)
     \/ OfferAgain(target)
     \/ CountDrop(target)
  /\ UNCHANGED <<source, frame, targets, attached, state, writer, output>>

Callback == Receive \/ NextViewer \/ CallbackReturns \/ Enqueue
-----------------------------------------------------------------------------
(* A viewer's ServeHTTP and writeLoop *)

\* addViewer comes before stream_meta is written and the writer started.
Attach(v) ==
  /\ state[v] = "absent"
  /\ state' = [state EXCEPT ![v] = "open"]
  /\ attached' = attached \cup {v}
  /\ joined' = [joined EXCEPT ![v] = Received]
  /\ UNCHANGED <<source, callback, writer, queue, counters, offered, newest, output>>

StartWriter(v) ==
  /\ state[v] = "open"
  /\ writer[v] = "off"
  /\ writer' = [writer EXCEPT ![v] = "select"]
  /\ UNCHANGED <<source, callback, attached, state, queue, counters, input, output>>

\* With a frame and done both ready, select takes either.
Take(v) ==
  /\ writer[v] = "select"
  /\ queue[v] # <<>>
  /\ queue' = [queue EXCEPT ![v] = Tail(@)]
  /\ last' = [last EXCEPT ![v] = Head(queue[v])]
  /\ taken' = [taken EXCEPT ![v] = @ + 1]
  /\ writer' = [writer EXCEPT ![v] = "write"]
  /\ UNCHANGED <<source, callback, attached, state, counters, input>>

Written(v) ==
  /\ writer[v] = "write"
  /\ writer' = [writer EXCEPT ![v] = "select"]
  /\ UNCHANGED <<source, callback, attached, state, queue, counters, input, output>>

\* done is closed, or a write or a ping failed.
WriterEnds(v) ==
  /\ writer[v] # "off"
  /\ writer' = [writer EXCEPT ![v] = "off"]
  /\ state' = [state EXCEPT ![v] = "done"]
  /\ UNCHANGED <<source, callback, attached, queue, counters, input, output>>

\* The reader: the viewer left, sent something, or answered no ping for 30 s.
CloseDone(v) ==
  /\ state[v] = "open"
  /\ state' = [state EXCEPT ![v] = "done"]
  /\ UNCHANGED <<source, callback, attached, writer, queue, counters, input, output>>

RemoveViewer(v) ==
  /\ state[v] = "done"
  /\ v \in attached
  /\ attached' = attached \ {v}
  /\ UNCHANGED <<source, callback, state, writer, queue, counters, input, output>>

Viewer(v) ==
  \/ Attach(v)
  \/ StartWriter(v)
  \/ Take(v)
  \/ Written(v)
  \/ WriterEnds(v)
  \/ CloseDone(v)
  \/ RemoveViewer(v)

Next == Publish \/ Close \/ Callback \/ \E v \in Viewers : Viewer(v)

Spec == Init /\ [][Next]_vars

\* The callback's goroutine runs; a viewer may stall for ever.
FairSpec == Spec /\ WF_vars(Callback)
-----------------------------------------------------------------------------
(* Properties *)

\* A viewer gets the frames in the order they were published and none twice,
\* however its writer and enqueue interleave: those that wait are in order, and
\* later than the last one written.
InOrder ==
  \A v \in Viewers : \A i, j \in 1..Len(queue[v]) :
    /\ last[v] < queue[v][i]
    /\ i < j => queue[v][i] < queue[v][j]

\* enqueue, three operations that a writer may come between, is to each viewer one put
\* into a bounded buffer that drops its oldest frame when it was found full, counts
\* that, and never waits (hub.go, enqueue).  The put takes effect with the
\* first send or with the eviction; between eviction and second send the frame in hand
\* counts as waiting, and the drop as counted.
Waits(v) ==
  IF target = v /\ step = "again" THEN Append(queue[v], frame) ELSE queue[v]
Misses(v) ==
  IF target = v /\ step \in {"again", "count"} THEN dropped[v] + 1 ELSE dropped[v]

Buffer == INSTANCE DropOldest WITH
  buffer <- [v \in Viewers |-> Waits(v)],
  out    <- last,
  full   <- {v \in Viewers : target = v /\ step = "evict"},
  missed <- [v \in Viewers |-> Misses(v)]

ImplementsBuffer == Buffer!Spec

\* No frame is lost in silence (R-33; hub.go:86-111, 147-163, 222-246).  Of the
\* frames published since a viewer attached, those that did not get past the bus
\* are in lost; the others, once the callback has come to the viewer, were taken
\* by its writer, wait in its queue, or were counted in dropped.
NoSilentLoss ==
  \A v \in Viewers :
    state[v] = "open" /\ v \notin targets /\ target # v =>
      Received - joined[v] - taken[v] - Len(queue[v]) <= dropped[v]

\* It is never the newest frame that is lost: it waits last in the queue or the
\* writer has it (drop-oldest, R-04).
NewestKept ==
  \A v \in Viewers :
    target # v =>
      newest[v] = IF queue[v] = <<>> THEN last[v] ELSE queue[v][Len(queue[v])]

\* Strengthenings, for the proofs.  The bus holds later frames than any viewer was
\* offered, and so is the frame of the callback for a viewer still to come to.
BusAhead ==
  /\ frame <= produced
  /\ \A i, j \in 1..Len(bus) :
       /\ frame < bus[i]
       /\ bus[i] <= produced
       /\ i < j => bus[i] < bus[j]
       /\ \A v \in Viewers : newest[v] < bus[i]
  /\ \A v \in Viewers : newest[v] <= produced

Waiting(v) == v \in targets \/ (target = v /\ step = "done?")

CallbackState ==
  /\ target # Nobody => frame # 0 /\ target \notin targets
  /\ frame = 0 => targets = {}
  /\ \A v \in Viewers : frame # 0 /\ Waiting(v) => newest[v] < frame

\* enqueue has the frame in hand and has not sent it yet.
Holding(v) == target = v /\ step \in {"offer", "evict", "again"}

\* With one callback at a time, eviction leaves room for the second send.
QueueState ==
  \A v \in Viewers :
    /\ last[v] <= newest[v]
    /\ Holding(v) => /\ newest[v] = frame
                     /\ last[v] < frame
                     /\ \A i \in 1..Len(queue[v]) : queue[v][i] < frame
                     /\ step = "again" => Len(queue[v]) < Depth
    /\ ~Holding(v) =>
         newest[v] = IF queue[v] = <<>> THEN last[v] ELSE queue[v][Len(queue[v])]

\* The frames a viewer misses that its counter does not show yet.
Owed(v) ==
  IF target # v THEN 0
  ELSE CASE step = "again" -> 2
         [] step \in {"offer", "evict", "count"} -> 1
         [] OTHER -> 0

LossCounted ==
  \A v \in Viewers : offered[v] - taken[v] - Len(queue[v]) <= dropped[v] + Owed(v)

\* A viewer is offered each frame that receive is called with while it is open.
Listed ==
  \A v \in Viewers :
    /\ state[v] = "absent" => v \notin attached /\ ~Waiting(v) /\ offered[v] = 0
    /\ state[v] = "open" =>
         /\ v \in attached
         /\ Received - joined[v] = offered[v] + (IF Waiting(v) THEN 1 ELSE 0)

\* Inductive; with it, LossCounted and Listed are.
IndInv == TypeOK /\ BusAhead /\ CallbackState /\ InOrder /\ QueueState

\* The steps a callback has left at most: six for each viewer of its snapshot that it
\* has not come to, what enqueue has left, and its return.
CallbackLeft ==
  IF frame = 0 THEN 0
  ELSE 6 * Cardinality(targets)
       + (IF target = Nobody THEN 1
          ELSE CASE step = "done?" -> 6
                 [] step = "offer" -> 5
                 [] step = "evict" -> 4
                 [] step = "again" -> 3
                 [] step = "count" -> 2)

\* Nothing a viewer, a writer or the bus does gives a running callback more to do, or
\* takes it back: each of its own steps brings its return closer (hub.go, enqueue).
CallbackBounded ==
  [][frame # 0 => /\ CallbackLeft' <= CallbackLeft
                  /\ Callback => CallbackLeft' < CallbackLeft]_vars

\* A snapshot is finite, however many viewers come and go.
ViewersFinite == IsFiniteSet(attached) /\ IsFiniteSet(targets)

\* The callback never waits for a viewer, so that one that stalls costs the
\* others nothing (R-21).
CallbackEnds == frame # 0 ~> frame = 0
=============================================================================
