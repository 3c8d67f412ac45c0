-------------------------- MODULE ViewerHub_proofs --------------------------
(***************************************************************************)
(* Proofs about ViewerHub, for any viewers, queue depth, bus limit and     *)
(* number of frames: a viewer sees frames in order, the newest is never    *)
(* the one dropped, no drop is left out of the viewer's counter, no viewer *)
(* holds a callback up, and enqueue's operations on a viewer's channel are *)
(* the single put that DropOldest promises.                                *)
(***************************************************************************)
EXTENDS ViewerHub, FiniteSetTheorems, SequenceTheorems, TLAPS

\* What a viewer's queue holds is untouched, and so is what is said about it.
LEMMA Frame ==
  ASSUME BusAhead, CallbackState, InOrder, QueueState,
         UNCHANGED <<source, callback, queue, newest, last>>
  PROVE  BusAhead' /\ CallbackState' /\ InOrder' /\ QueueState'
BY DEF BusAhead, CallbackState, InOrder, QueueState, Waiting, Holding, source, callback

LEMMA IndInit == Init => IndInv
BY ViewersAssumption, DepthAssumption, PendingAssumption, BoundAssumption
   DEF Init, IndInv, TypeOK, BusAhead, CallbackState, InOrder, QueueState, Waiting,
       Holding, Zeros, Frames

\* The types of what one viewer's queue holds, and its order.
LEMMA QueueFacts ==
  ASSUME IndInv, NEW v \in Viewers
  PROVE  /\ queue[v] \in Seq(Frames) /\ Len(queue[v]) \in Nat /\ Len(queue[v]) <= Depth
         /\ last[v] \in Nat /\ newest[v] \in Nat /\ frame \in Nat /\ produced \in Nat
         /\ \A i \in 1..Len(queue[v]) : queue[v][i] \in Nat /\ last[v] < queue[v][i]
         /\ \A i, j \in 1..Len(queue[v]) : i < j => queue[v][i] < queue[v][j]
<1>1. queue[v] \in Seq(Frames)
  BY DEF IndInv, TypeOK
<1>2. Len(queue[v]) \in Nat /\ \A i \in 1..Len(queue[v]) : queue[v][i] \in Frames
  BY <1>1
<1>3. \A i \in 1..Len(queue[v]) : queue[v][i] \in Nat
  BY <1>2, BoundAssumption DEF Frames
<1>4. /\ Len(queue[v]) <= Depth
      /\ last[v] \in Nat /\ newest[v] \in Nat /\ frame \in Nat /\ produced \in Nat
  BY BoundAssumption DEF IndInv, TypeOK
<1>5. /\ \A i \in 1..Len(queue[v]) : last[v] < queue[v][i]
      /\ \A i, j \in 1..Len(queue[v]) : i < j => queue[v][i] < queue[v][j]
  BY DEF IndInv, InOrder
<1> QED
  BY <1>1, <1>2, <1>3, <1>4, <1>5

\* The types of the accounts, for the arithmetic.
LEMMA CountFacts ==
  ASSUME IndInv
  PROVE  /\ offered \in [Viewers -> Nat] /\ taken \in [Viewers -> Nat]
         /\ dropped \in [Viewers -> Nat] /\ joined \in [Viewers -> Int]
         /\ produced \in Int /\ Len(bus) \in Int /\ lost \in Int /\ Received \in Int
<1>1. /\ offered \in [Viewers -> Nat] /\ taken \in [Viewers -> Nat]
      /\ dropped \in [Viewers -> Nat] /\ joined \in [Viewers -> Int]
      /\ produced \in 0..FrameBound /\ bus \in Seq(Frames) /\ lost \in Nat
  BY DEF IndInv, TypeOK
<1>2. produced \in Int /\ Len(bus) \in Int /\ lost \in Int
  BY <1>1, BoundAssumption
<1> QED
  BY <1>1, <1>2 DEF Received

LEMMA Numbers ==
  ASSUME IndInv
  PROVE  /\ frame \in Nat /\ produced \in Nat
         /\ last \in [Viewers -> Nat] /\ newest \in [Viewers -> Nat]
<1>1. /\ frame \in 0..FrameBound /\ produced \in 0..FrameBound
      /\ last \in [Viewers -> 0..FrameBound] /\ newest \in [Viewers -> 0..FrameBound]
  BY DEF IndInv, TypeOK
<1>2. \A n \in 0..FrameBound : n \in Nat
  BY BoundAssumption
<1> QED
  BY <1>1, <1>2

\* A publication the bus has room for.
LEMMA PublishInd ==
  ASSUME IndInv, Publish, subscribed, Len(bus) < PendingLimit
  PROVE  BusAhead' /\ bus' \in Seq(Frames) /\ Len(bus') <= PendingLimit
<1>1. /\ bus \in Seq(Frames) /\ Len(bus) \in Nat
      /\ produced \in Nat /\ produced' = produced + 1 /\ produced' \in Frames
      /\ frame \in Nat /\ frame' = frame
      /\ newest \in [Viewers -> Nat] /\ newest' = newest
      /\ bus' = Append(bus, produced')
  BY BoundAssumption DEF Publish, IndInv, TypeOK, Frames, callback, input
<1>2. /\ bus' \in Seq(Frames) /\ Len(bus') = Len(bus) + 1
      /\ bus'[Len(bus) + 1] = produced + 1
      /\ \A i \in 1..Len(bus) : bus'[i] = bus[i] /\ bus[i] \in Nat
  BY <1>1, BoundAssumption DEF Frames
<1>3. /\ frame <= produced
      /\ \A i \in 1..Len(bus) : frame < bus[i] /\ bus[i] <= produced
                              /\ \A v \in Viewers : newest[v] < bus[i]
      /\ \A i, j \in 1..Len(bus) : i < j => bus[i] < bus[j]
      /\ \A v \in Viewers : newest[v] <= produced
  BY DEF IndInv, BusAhead
<1>4. ASSUME NEW i \in 1..Len(bus'), NEW j \in 1..Len(bus')
      PROVE  /\ frame' < bus'[i] /\ bus'[i] <= produced'
             /\ i < j => bus'[i] < bus'[j]
             /\ \A v \in Viewers : newest'[v] < bus'[i]
  <2>1. CASE i \in 1..Len(bus)
    <3>1. j \in 1..Len(bus) \/ j = Len(bus) + 1
      BY <1>1, <1>2
    <3>2. bus'[i] = bus[i] /\ bus[i] \in Nat /\ bus[i] <= produced /\ frame < bus[i]
      BY <1>2, <1>3, <2>1
    <3>3. i < j => bus'[i] < bus'[j]
      BY <1>1, <1>2, <1>3, <2>1, <3>1, <3>2
    <3>4. \A v \in Viewers : newest'[v] < bus'[i]
      BY <1>1, <1>3, <2>1, <3>2
    <3> QED
      BY <1>1, <3>2, <3>3, <3>4
  <2>2. CASE i = Len(bus) + 1
    BY <1>1, <1>2, <1>3, <2>2
  <2> QED
    BY <1>1, <1>2, <2>1, <2>2
<1>6. BusAhead'
  BY <1>1, <1>3, <1>4 DEF BusAhead
<1> QED
  BY <1>1, <1>2, <1>6, PendingAssumption

\* The callback takes the oldest message of the bus.
LEMMA ReceiveInd ==
  ASSUME IndInv, Receive
  PROVE  BusAhead' /\ CallbackState' /\ bus' \in Seq(Frames) /\ Len(bus') <= PendingLimit
         /\ frame' \in Frames
<1>1. /\ bus \in Seq(Frames) /\ Len(bus) \in Nat /\ Len(bus) > 0 /\ Len(bus) <= PendingLimit
      /\ bus' = Tail(bus) /\ frame' = bus[1]
      /\ target = Nobody => target' = Nobody
      /\ UNCHANGED <<produced, target, step, newest>>
      /\ produced \in Nat /\ newest \in [Viewers -> Nat]
  BY BoundAssumption DEF Receive, IndInv, TypeOK, Frames, input
<1>2. /\ bus' \in Seq(Frames) /\ Len(bus') = Len(bus) - 1
      /\ \A i \in 1..Len(bus') : bus'[i] = bus[i + 1] /\ i + 1 \in 2..Len(bus)
      /\ \A i \in 1..Len(bus) : bus[i] \in Frames
  BY <1>1
<1>3. BusAhead'
  BY <1>1, <1>2, BoundAssumption DEF IndInv, BusAhead, Frames
<1>4. target = Nobody
  BY DEF Receive, IndInv, CallbackState
<1>5. CallbackState'
  BY <1>1, <1>2, <1>4, ViewersAssumption DEF IndInv, BusAhead, CallbackState, Waiting, Frames
<1> QED
  BY <1>1, <1>2, <1>3, <1>5, PendingAssumption

\* The bus and the callback's walk over the viewers.
LEMMA WalkInd ==
  ASSUME IndInv, Publish \/ Close \/ Receive \/ NextViewer \/ CallbackReturns
  PROVE  IndInv'
<1> USE ViewersAssumption, BoundAssumption
<1>1. CASE Publish
  <2>1. CASE subscribed /\ Len(bus) < PendingLimit
    <3>1. BusAhead' /\ bus' \in Seq(Frames) /\ Len(bus') <= PendingLimit
      BY <1>1, <2>1, PublishInd
    <3>2. /\ produced' \in 0..FrameBound /\ lost' = lost
          /\ UNCHANGED <<subscribed, callback, attached, state, writer, queue, counters, input,
                        output>>
      BY <1>1, <2>1 DEF Publish, IndInv, TypeOK
    <3>3. TypeOK'
      BY <3>1, <3>2 DEF IndInv, TypeOK, callback, counters, input, output
    <3>4. CallbackState' /\ InOrder' /\ QueueState'
      BY <3>2 DEF IndInv, CallbackState, InOrder, QueueState, Waiting, Holding, callback, input,
                  output
    <3> QED
      BY <3>1, <3>3, <3>4 DEF IndInv
  <2>2. CASE ~(subscribed /\ Len(bus) < PendingLimit)
    <3>1. UNCHANGED <<bus, callback, queue, newest, last>> /\ produced' = produced + 1
      BY <1>1, <2>2 DEF Publish, input, output
    <3>2. TypeOK'
      <4>1. /\ produced' \in 0..FrameBound /\ lost' \in Nat
            /\ UNCHANGED <<subscribed, bus, callback, attached, state, writer, queue, counters,
                          input, output>>
        BY <1>1, <2>2 DEF Publish, IndInv, TypeOK
      <4> QED
        BY <4>1 DEF IndInv, TypeOK, callback, counters, input, output
    <3>3. BusAhead'
      <4>1. /\ bus' = bus /\ frame' = frame /\ newest' = newest
            /\ produced' = produced + 1
        BY <3>1 DEF callback
      <4>2. /\ produced \in Nat /\ frame \in Nat
            /\ \A i \in 1..Len(bus) : bus[i] \in Nat
            /\ \A v \in Viewers : newest[v] \in Nat
        BY DEF IndInv, TypeOK, Frames
      <4>3. \A i, j \in 1..Len(bus) :
              /\ frame < bus[i]
              /\ bus[i] <= produced + 1
              /\ i < j => bus[i] < bus[j]
              /\ \A v \in Viewers : newest[v] < bus[i]
        BY <4>2 DEF IndInv, BusAhead
      <4>4. frame <= produced + 1 /\ \A v \in Viewers : newest[v] <= produced + 1
        BY <4>2 DEF IndInv, BusAhead
      <4> QED
        BY <4>1, <4>3, <4>4 DEF BusAhead
    <3>4. CallbackState' /\ InOrder' /\ QueueState'
      BY <3>1 DEF IndInv, CallbackState, InOrder, QueueState, Waiting, Holding, callback
    <3> QED
      BY <3>2, <3>3, <3>4 DEF IndInv
  <2> QED
    BY <2>1, <2>2
<1>2. CASE Receive
  <2>1. TypeOK'
    <3>1. bus' \in Seq(Frames) /\ Len(bus') <= PendingLimit
      BY <1>2, ReceiveInd
    <3>2. frame' \in 0..FrameBound
      <4>1. bus \in Seq(Frames) /\ bus # <<>> /\ frame' = Head(bus)
        BY <1>2 DEF Receive, IndInv, TypeOK
      <4>2. Head(bus) \in Frames
        BY <4>1
      <4> QED
        BY <4>1, <4>2 DEF Frames
    <3> QED
      BY <1>2, <3>1, <3>2 DEF Receive, IndInv, TypeOK, counters, input, output
  <2>2. target = Nobody
    BY <1>2 DEF Receive, IndInv, CallbackState
  <2>3. InOrder' /\ QueueState'
    BY <1>2, <2>2 DEF Receive, IndInv, InOrder, QueueState, Holding, input, output
  <2> QED
    BY <1>2, <2>1, <2>3, ReceiveInd DEF IndInv
<1>3. CASE NextViewer
  BY <1>3 DEF NextViewer, IndInv, TypeOK, BusAhead, CallbackState, InOrder, QueueState,
              Waiting, Holding, source, counters, input, output
<1>4. CASE CallbackReturns
  BY <1>4 DEF CallbackReturns, IndInv, TypeOK, Frames, BusAhead, CallbackState, InOrder,
              QueueState, Waiting, Holding, source, counters, input, output
<1>5. CASE Close
  <2>1. /\ bus' = <<>> /\ subscribed' = FALSE /\ lost' = lost + Len(bus)
        /\ UNCHANGED <<produced, callback, attached, state, writer, queue, counters, input,
                      output>>
    BY <1>5 DEF Close
  <2>2. bus' \in Seq(Frames) /\ Len(bus') = 0 /\ lost' \in Nat
    BY <2>1 DEF IndInv, TypeOK
  <2>3. TypeOK'
    <3>1. Len(bus') <= PendingLimit
      BY <2>2, PendingAssumption
    <3>2. subscribed' \in BOOLEAN
      BY <2>1
    <3> QED
      BY <2>1, <2>2, <3>1, <3>2 DEF IndInv, TypeOK, callback, counters, input, output
  <2>4. BusAhead'
    BY <2>1, <2>2 DEF IndInv, BusAhead, callback, input
  <2>5. CallbackState' /\ InOrder' /\ QueueState'
    BY <2>1 DEF IndInv, CallbackState, InOrder, QueueState, Waiting, Holding, callback, input,
                output
  <2> QED
    BY <2>3, <2>4, <2>5 DEF IndInv
<1> QED
  BY <1>1, <1>2, <1>3, <1>4, <1>5

\* Appending the callback's frame to the queue of the viewer it is for.
LEMMA PushFacts ==
  ASSUME IndInv, NEW v \in Viewers, Holding(v), Len(queue[v]) < Depth, Push(v)
  PROVE  /\ queue' \in [Viewers -> Seq(Frames)]
         /\ \A w \in Viewers : w # v => queue'[w] = queue[w]
         /\ Len(queue'[v]) = Len(queue[v]) + 1
         /\ queue'[v][Len(queue[v]) + 1] = frame
         /\ \A i \in 1..Len(queue[v]) : queue'[v][i] = queue[v][i]
<1>1. queue[v] \in Seq(Frames) /\ frame \in Frames
  BY ViewersAssumption, BoundAssumption
     DEF IndInv, TypeOK, Holding, CallbackState, Frames
<1>2. queue' = [queue EXCEPT ![v] = Append(queue[v], frame)]
      /\ queue \in [Viewers -> Seq(Frames)]
  BY DEF IndInv, TypeOK, Push
<1>3. /\ Append(queue[v], frame) \in Seq(Frames)
      /\ Len(Append(queue[v], frame)) = Len(queue[v]) + 1
      /\ Append(queue[v], frame)[Len(queue[v]) + 1] = frame
      /\ \A i \in 1..Len(queue[v]) : Append(queue[v], frame)[i] = queue[v][i]
  BY <1>1
<1> QED
  BY <1>2, <1>3

\* Removing the oldest frame of a queue that has one.
LEMMA TailFacts ==
  ASSUME IndInv, NEW v \in Viewers, queue[v] # <<>>,
         queue' = [queue EXCEPT ![v] = Tail(@)]
  PROVE  /\ queue' \in [Viewers -> Seq(Frames)]
         /\ \A w \in Viewers : w # v => queue'[w] = queue[w]
         /\ Len(queue[v]) > 0
         /\ Len(queue'[v]) = Len(queue[v]) - 1
         /\ \A i \in 1..Len(queue'[v]) : queue'[v][i] = queue[v][i + 1]
<1>1. queue \in [Viewers -> Seq(Frames)]
  BY DEF IndInv, TypeOK
<1>2. /\ Tail(queue[v]) \in Seq(Frames)
      /\ Len(queue[v]) > 0
      /\ Len(Tail(queue[v])) = Len(queue[v]) - 1
      /\ \A i \in 1..Len(Tail(queue[v])) : Tail(queue[v])[i] = queue[v][i + 1]
  BY <1>1
<1> QED
  BY <1>1, <1>2

LEMMA NonEmpty == \A s \in Seq(Frames) : Len(s) > 0 => s # <<>>
OBVIOUS

\* A send that finds room.
LEMMA SendInd ==
  ASSUME IndInv, NEW v \in Viewers, Holding(v), Len(queue[v]) < Depth, Push(v),
         target' = Nobody \/ (target' = v /\ step' = "count"),
         step' \in {"offer", "again", "count"},
         UNCHANGED <<source, frame, targets, attached, state, writer, counters, input, output>>
  PROVE  IndInv'
<1>1. /\ queue' \in [Viewers -> Seq(Frames)]
      /\ \A w \in Viewers : w # v => queue'[w] = queue[w]
      /\ Len(queue'[v]) = Len(queue[v]) + 1
      /\ queue'[v][Len(queue[v]) + 1] = frame
      /\ \A i \in 1..Len(queue[v]) : queue'[v][i] = queue[v][i]
  BY PushFacts
<1>2. target = v /\ ~Holding(v)' /\ \A w \in Viewers \ {v} : ~Holding(w) /\ ~Holding(w)'
  BY ViewersAssumption DEF Holding
<1>3. /\ newest[v] = frame /\ last[v] < frame
      /\ \A i \in 1..Len(queue[v]) : queue[v][i] < frame
  BY DEF IndInv, QueueState
<1>4. /\ queue \in [Viewers -> Seq(Frames)] /\ \A w \in Viewers : Len(queue[w]) <= Depth
      /\ frame \in Nat /\ last \in [Viewers -> Nat] /\ newest \in [Viewers -> Nat]
      /\ UNCHANGED <<last, newest, frame>>
  BY Numbers DEF IndInv, TypeOK, input, output
<1>5. TypeOK'
  <2>1. \A w \in Viewers : Len(queue'[w]) <= Depth
    <3>1. Len(queue[v]) \in Nat
      BY QueueFacts
    <3> QED
      <4>1. Len(queue'[v]) <= Depth
        BY <1>1, <3>1, DepthAssumption
      <4>2. \A w \in Viewers : w # v => Len(queue'[w]) <= Depth
        BY <1>1, <1>4
      <4> QED
        BY <4>1, <4>2
  <2> QED
    BY <1>1, <1>2, <2>1 DEF IndInv, TypeOK, source, counters, input, output
<1>6. BusAhead'
  BY DEF IndInv, BusAhead, source, input
<1>7. CallbackState'
  BY <1>2, ViewersAssumption DEF IndInv, CallbackState, Waiting, input
<1>8. InOrder'
  <2>1. ASSUME NEW i \in 1..Len(queue'[v]), NEW j \in 1..Len(queue'[v])
        PROVE  last'[v] < queue'[v][i] /\ (i < j => queue'[v][i] < queue'[v][j])
    <3>1. CASE i = Len(queue[v]) + 1
      BY <1>1, <1>3, <1>4, <3>1, QueueFacts
    <3>2. CASE i \in 1..Len(queue[v])
      <4>1. /\ Len(queue[v]) \in Nat /\ queue[v][i] \in Nat
            /\ last[v] < queue[v][i] /\ queue[v][i] < frame /\ queue'[v][i] = queue[v][i]
        BY <1>1, <1>3, <3>2, QueueFacts
      <4>2. CASE j = Len(queue[v]) + 1
        BY <1>1, <1>4, <4>1, <4>2
      <4>3. CASE j \in 1..Len(queue[v])
        <5>1. i < j => queue[v][i] < queue[v][j]
          BY <3>2, <4>3, QueueFacts
        <5> QED
          BY <1>1, <1>4, <4>1, <4>3, <5>1
      <4> QED
        BY <1>1, <4>1, <4>2, <4>3
    <3> QED
      BY <1>1, <1>4, <3>1, <3>2, QueueFacts
  <2> QED
    BY <1>1, <1>4, <2>1 DEF IndInv, InOrder
<1>9. QueueState'
  <2>1. queue'[v] # <<>> /\ newest'[v] = queue'[v][Len(queue'[v])] /\ last'[v] <= newest'[v]
    BY <1>1, <1>3, <1>4
  <2> QED
    BY <1>1, <1>2, <1>4, <2>1 DEF IndInv, QueueState
<1> QED
  BY <1>5, <1>6, <1>7, <1>8, <1>9 DEF IndInv

\* The oldest frame of a viewer's queue leaves it, taken or evicted.
LEMMA OldestInd ==
  ASSUME IndInv, NEW v \in Viewers, queue[v] # <<>>,
         queue' = [queue EXCEPT ![v] = Tail(@)],
         UNCHANGED <<source, frame, targets, target, input>>,
         last' \in [Viewers -> 0..FrameBound],
         \A w \in Viewers \ {v} : last'[w] = last[w],
         \/ last'[v] = queue[v][1] /\ step' = step
         \/ last'[v] = last[v] /\ Holding(v) /\ step' = "again"
  PROVE  InOrder' /\ QueueState' /\ BusAhead' /\ CallbackState'
         /\ queue' \in [Viewers -> Seq(Frames)]
         /\ \A w \in Viewers : Len(queue'[w]) <= Depth
<1>1. /\ queue' \in [Viewers -> Seq(Frames)]
      /\ \A w \in Viewers : w # v => queue'[w] = queue[w]
      /\ Len(queue[v]) > 0
      /\ Len(queue'[v]) = Len(queue[v]) - 1
      /\ \A i \in 1..Len(queue'[v]) : queue'[v][i] = queue[v][i + 1]
  BY TailFacts
<1>2. /\ queue \in [Viewers -> Seq(Frames)] /\ \A w \in Viewers : Len(queue[w]) <= Depth
      /\ Len(queue[v]) \in Nat /\ \A i \in 1..Len(queue[v]) : queue[v][i] \in Nat
      /\ frame \in Nat /\ last \in [Viewers -> Nat] /\ newest \in [Viewers -> Nat]
      /\ UNCHANGED <<newest, frame>>
  <2>1. /\ queue \in [Viewers -> Seq(Frames)] /\ \A w \in Viewers : Len(queue[w]) <= Depth
        /\ frame \in 0..FrameBound
        /\ last \in [Viewers -> 0..FrameBound] /\ newest \in [Viewers -> 0..FrameBound]
    BY DEF IndInv, TypeOK
  <2>2. /\ frame \in Nat
        /\ last \in [Viewers -> Nat] /\ newest \in [Viewers -> Nat]
    <3>1. \A n \in 0..FrameBound : n \in Nat
      BY BoundAssumption
    <3> QED
      BY <2>1, <3>1
  <2>3. Len(queue[v]) \in Nat /\ \A i \in 1..Len(queue[v]) : queue[v][i] \in Nat
    BY QueueFacts
  <2> QED
    BY <2>1, <2>2, <2>3 DEF input
<1>3. last' \in [Viewers -> Nat] /\ last'[v] <= queue[v][1]
  <2>1. last[v] < queue[v][1]
    BY <1>1, <1>2 DEF IndInv, InOrder
  <2> QED
    BY <1>1, <1>2, <2>1, BoundAssumption
<1>4. /\ \A w \in Viewers \ {v} : Holding(w)' <=> Holding(w)
      /\ Holding(v)' <=> Holding(v)
      /\ \A w \in Viewers \ {v} : Holding(w) => step' = step
  BY ViewersAssumption DEF Holding
<1>5. InOrder'
  <2>1. ASSUME NEW i \in 1..Len(queue'[v]), NEW j \in 1..Len(queue'[v])
        PROVE  last'[v] < queue'[v][i] /\ (i < j => queue'[v][i] < queue'[v][j])
    <3>1. i + 1 \in 1..Len(queue[v]) /\ j + 1 \in 1..Len(queue[v]) /\ 1 \in 1..Len(queue[v])
      BY <1>1, <1>2
    <3>2. queue[v][1] < queue[v][i + 1] /\ (i < j => queue[v][i + 1] < queue[v][j + 1])
      BY <1>2, <3>1, QueueFacts
    <3> QED
      BY <1>1, <1>2, <1>3, <3>1, <3>2
  <2> QED
    BY <1>1, <1>2, <2>1 DEF IndInv, InOrder
<1>6. QueueState'
  <2>1. CASE Holding(v)
    <3>1. /\ newest[v] = frame /\ last'[v] < frame
          /\ \A i \in 1..Len(queue'[v]) : queue'[v][i] < frame
      BY <1>1, <1>2, <1>3, <2>1 DEF IndInv, QueueState
    <3>2. Len(queue'[v]) < Depth
      BY <1>1, <1>2, DepthAssumption
    <3>3. \A w \in Viewers \ {v} : ~Holding(w)
      BY <2>1 DEF Holding
    <3> QED
      BY <1>1, <1>2, <1>3, <1>4, <2>1, <3>1, <3>2, <3>3 DEF IndInv, QueueState
  <2>2. CASE ~Holding(v)
    <3>1. last'[v] = queue[v][1] /\ newest[v] = queue[v][Len(queue[v])]
      BY <1>1, <2>2 DEF IndInv, QueueState
    <3>2. /\ last'[v] <= newest[v]
          /\ newest[v] = IF queue'[v] = <<>> THEN last'[v] ELSE queue'[v][Len(queue'[v])]
      <4>1. CASE Len(queue[v]) = 1
        BY <1>1, <1>2, <3>1, <4>1
      <4>2. CASE Len(queue[v]) > 1
        <5>1. /\ 1 \in 1..Len(queue[v]) /\ Len(queue[v]) \in 1..Len(queue[v])
              /\ Len(queue'[v]) > 0 /\ Len(queue'[v]) \in 1..Len(queue'[v])
          BY <1>1, <1>2, <4>2
        <5>2. queue[v][1] < queue[v][Len(queue[v])]
          BY <1>2, <4>2, <5>1, QueueFacts
        <5>3. queue'[v][Len(queue'[v])] = queue[v][Len(queue[v])] /\ queue'[v] # <<>>
          <6> DEFINE n == Len(queue'[v])
          <6>1. n + 1 = Len(queue[v]) /\ n \in 1..n /\ n > 0
            BY <1>1, <1>2, <5>1
          <6>2. queue'[v][n] = queue[v][n + 1]
            BY <1>1, <6>1
          <6>3. queue'[v] # <<>>
            BY <1>1, <6>1, NonEmpty
          <6> QED
            BY <6>1, <6>2, <6>3
        <5> QED
          BY <1>1, <1>2, <3>1, <5>1, <5>2, <5>3
      <4> QED
        BY <1>1, <1>2, <4>1, <4>2
    <3>3. ASSUME NEW w \in Viewers \ {v}
          PROVE  /\ queue'[w] = queue[w] /\ last'[w] = last[w] /\ newest'[w] = newest[w]
                 /\ step' = step
      BY <1>1, <1>2, <2>2
    <3>4. ASSUME NEW w \in Viewers \ {v}
          PROVE  /\ last'[w] <= newest'[w]
                 /\ Holding(w)' => /\ newest'[w] = frame' /\ last'[w] < frame'
                                   /\ \A i \in 1..Len(queue'[w]) : queue'[w][i] < frame'
                                   /\ step' = "again" => Len(queue'[w]) < Depth
                 /\ ~Holding(w)' => newest'[w] = IF queue'[w] = <<>> THEN last'[w]
                                                 ELSE queue'[w][Len(queue'[w])]
      <4>1. frame' = frame /\ (Holding(w)' <=> Holding(w))
        BY <1>2, <1>4
      <4>2. /\ last[w] <= newest[w]
            /\ Holding(w) => /\ newest[w] = frame /\ last[w] < frame
                             /\ \A i \in 1..Len(queue[w]) : queue[w][i] < frame
                             /\ step = "again" => Len(queue[w]) < Depth
            /\ ~Holding(w) => newest[w] = IF queue[w] = <<>> THEN last[w]
                                          ELSE queue[w][Len(queue[w])]
        BY DEF IndInv, QueueState
      <4> QED
        BY <3>3, <4>1, <4>2
    <3>5. newest'[v] = newest[v] /\ ~Holding(v)'
      BY <1>2, <1>4, <2>2
    <3> QED
      BY <3>2, <3>4, <3>5 DEF QueueState
  <2> QED
    BY <2>1, <2>2
<1>7. BusAhead'
  BY DEF IndInv, BusAhead, source, input
<1>8. CallbackState'
  BY <1>2 DEF IndInv, CallbackState, Waiting, Holding, input
<1>9. \A w \in Viewers : Len(queue'[w]) <= Depth
  BY <1>1, <1>2, DepthAssumption
<1> QED
  BY <1>1, <1>5, <1>6, <1>7, <1>8, <1>9

\* enqueue, one channel operation at a time.
LEMMA EnqueueInd ==
  ASSUME IndInv, Enqueue
  PROVE  IndInv'
<1> USE ViewersAssumption, BoundAssumption, DepthAssumption
<1>0. PICK v \in Viewers :
        /\ target = v
        /\ CheckDone(v) \/ Offer(v) \/ Evict(v) \/ OfferAgain(v) \/ CountDrop(v)
        /\ UNCHANGED <<source, frame, targets, attached, state, writer, output>>
  BY DEF Enqueue, IndInv, TypeOK
<1>1. CASE CheckDone(v)
  <2>1. TypeOK'
    <3>1. /\ target' \in {v, Nobody} /\ step' \in {"done?", "offer"}
          /\ UNCHANGED <<queue, counters, joined>>
      BY <1>0, <1>1 DEF CheckDone, EnqueueReturns, Goto, input
    <3>2. offered' \in [Viewers -> Nat] /\ newest' \in [Viewers -> 0..FrameBound]
      <4>1. frame \in 0..FrameBound /\ offered \in [Viewers -> Nat]
            /\ newest \in [Viewers -> 0..FrameBound]
        BY DEF IndInv, TypeOK
      <4>2. CASE state[v] = "done"
        BY <1>1, <4>1, <4>2 DEF CheckDone, input
      <4>3. CASE state[v] # "done"
        BY <1>1, <4>1, <4>3 DEF CheckDone
      <4> QED
        BY <4>2, <4>3
    <3> QED
      BY <1>0, <3>1, <3>2 DEF IndInv, TypeOK, source, counters, output
  <2>2. frame # 0 /\ frame \in Nat /\ newest[v] < frame /\ ~Holding(v)
    BY <1>0, <1>1 DEF CheckDone, IndInv, TypeOK, CallbackState, Waiting, Holding
  <2>3. BusAhead' /\ CallbackState' /\ InOrder'
    <3>1. /\ \A w \in Viewers : newest'[w] = newest[w] \/ (w = v /\ newest'[w] = frame)
          /\ newest' \in [Viewers -> Nat] /\ newest \in [Viewers -> Nat]
          /\ target' = Nobody \/ (target' = v /\ step' = "offer")
          /\ UNCHANGED <<source, frame, targets, queue, last>>
      <4>1. newest \in [Viewers -> Nat] /\ UNCHANGED <<source, frame, targets, queue, last>>
        BY <1>0, <1>1 DEF CheckDone, IndInv, TypeOK, output
      <4>2. CASE state[v] = "done"
        BY <1>0, <1>1, <2>2, <4>1, <4>2 DEF CheckDone, EnqueueReturns, input
      <4>3. CASE state[v] # "done"
        BY <1>0, <1>1, <2>2, <4>1, <4>3 DEF CheckDone, Goto
      <4> QED
        BY <4>2, <4>3
    <3>2. \A i \in 1..Len(bus) : bus[i] \in Nat /\ frame < bus[i]
      <4>1. \A i \in 1..Len(bus) : bus[i] \in Frames
        BY DEF IndInv, TypeOK
      <4> QED
        BY <4>1, BoundAssumption DEF IndInv, BusAhead, Frames
    <3>3. BusAhead'
      BY <2>2, <3>1, <3>2 DEF IndInv, BusAhead, source
    <3>4. CallbackState'
      BY <1>0, <3>1 DEF IndInv, CallbackState, Waiting
    <3>5. InOrder'
      BY <3>1 DEF IndInv, InOrder
    <3> QED
      BY <3>3, <3>4, <3>5
  <2>4. ASSUME state[v] # "done"
        PROVE  /\ last[v] < frame
               /\ \A i \in 1..Len(queue[v]) : queue[v][i] < frame
    <3>1. \A i \in 1..Len(queue[v]) : queue[v][i] <= newest[v]
      <4>1. SUFFICES ASSUME NEW i \in 1..Len(queue[v])
                     PROVE  queue[v][i] <= newest[v]
        OBVIOUS
      <4>2. newest[v] = queue[v][Len(queue[v])] /\ Len(queue[v]) \in 1..Len(queue[v])
            /\ \A k \in 1..Len(queue[v]) : queue[v][k] \in Nat
        <5>1. Len(queue[v]) \in Nat /\ Len(queue[v]) \in 1..Len(queue[v]) /\ queue[v] # <<>>
          BY <4>1, QueueFacts
        <5> QED
          BY <2>2, <5>1, QueueFacts DEF IndInv, QueueState
      <4>3. i < Len(queue[v]) => queue[v][i] < queue[v][Len(queue[v])]
        BY <4>1, <4>2, QueueFacts
      <4> QED
        BY <4>1, <4>2, <4>3
    <3>2. last[v] <= newest[v] /\ last[v] \in Nat /\ newest[v] \in Nat
      BY DEF IndInv, TypeOK, QueueState
    <3>3. \A i \in 1..Len(queue[v]) : queue[v][i] \in Nat
      BY QueueFacts
    <3> QED
      BY <2>2, <3>1, <3>2, <3>3
  <2>5. QueueState'
    <3>1. CASE state[v] = "done"
      BY <1>0, <1>1, <2>2, <3>1
         DEF CheckDone, EnqueueReturns, IndInv, QueueState, Holding, input, output
    <3>2. CASE state[v] # "done"
      <4>1. /\ newest' = [newest EXCEPT ![v] = frame] /\ step' = "offer"
            /\ UNCHANGED <<target, queue, last, frame>>
        BY <1>0, <1>1, <3>2 DEF CheckDone, Goto, output
      <4>2. Holding(v)' /\ newest'[v] = frame
        BY <1>0, <4>1 DEF IndInv, TypeOK, Holding
      <4>3. /\ last[v] < frame /\ last[v] <= frame
            /\ \A i \in 1..Len(queue[v]) : queue[v][i] < frame
        BY <2>4, <3>2, QueueFacts
      <4>4. \A w \in Viewers : w # v => ~Holding(w) /\ ~Holding(w)' /\ newest'[w] = newest[w]
        BY <1>0, <4>1 DEF IndInv, TypeOK, Holding
      <4> QED
        <5>1. ASSUME NEW w \in Viewers, w # v
              PROVE  /\ last[w] <= newest[w]
                     /\ newest[w] = IF queue[w] = <<>> THEN last[w]
                                    ELSE queue[w][Len(queue[w])]
          BY <4>4, <5>1 DEF IndInv, QueueState
        <5>2. step' # "again"
          BY <4>1
        <5> QED
          BY <4>1, <4>2, <4>3, <4>4, <5>1, <5>2 DEF QueueState
    <3> QED
      BY <3>1, <3>2
  <2> QED
    BY <2>1, <2>3, <2>5 DEF IndInv
<1>2. CASE (Offer(v) \/ OfferAgain(v)) /\ Len(queue[v]) < Depth
  <2>1. Holding(v) /\ Push(v)
    BY <1>0, <1>2 DEF Offer, OfferAgain, Holding
  <2>2. /\ step' \in {"offer", "again", "count"}
        /\ target' = Nobody \/ (target' = v /\ step' = "count")
        /\ UNCHANGED <<counters, input>>
    BY <1>0, <1>2 DEF Offer, OfferAgain, EnqueueReturns, Goto
  <2> QED
    BY <1>0, <1>2, <2>1, <2>2, SendInd
<1>3. ASSUME UNCHANGED <<source, frame, targets, attached, state, writer, queue, input,
                         output>>,
             \/ Offer(v) /\ ~(Len(queue[v]) < Depth)
             \/ Evict(v) /\ queue[v] = <<>>
             \/ CountDrop(v)
      PROVE  IndInv'
  <2>1. TypeOK'
    <3>1. /\ target' \in {v, Nobody} /\ step' \in {"evict", "again", "count"}
          /\ dropped' \in [Viewers -> Nat] /\ total' \in Nat
      <4>1. step \in {"offer", "evict", "count"} /\ dropped \in [Viewers -> Nat] /\ total \in Nat
        BY <1>3 DEF Offer, Evict, CountDrop, IndInv, TypeOK
      <4>2. CASE Offer(v) /\ ~(Len(queue[v]) < Depth)
        BY <1>0, <4>1, <4>2 DEF Offer, Goto, counters
      <4>3. CASE Evict(v)
        BY <1>0, <4>1, <4>3 DEF Evict, Goto, counters
      <4>4. CASE CountDrop(v)
        BY <1>0, <4>1, <4>4 DEF CountDrop, EnqueueReturns
      <4> QED
        BY <1>3, <4>2, <4>3, <4>4
    <3> QED
      BY <1>0, <1>3, <3>1 DEF IndInv, TypeOK, source, input, output
  <2>2. BusAhead' /\ CallbackState' /\ InOrder'
    BY <1>0, <1>3 DEF Offer, Evict, CountDrop, EnqueueReturns, Goto, IndInv, BusAhead,
                      CallbackState, InOrder, Waiting, source, input, output
  <2>3. QueueState'
    BY <1>0, <1>3 DEF Offer, Evict, CountDrop, EnqueueReturns, Goto, IndInv, QueueState,
                      Holding, input, output
  <2> QED
    BY <2>1, <2>2, <2>3 DEF IndInv
<1>4. CASE Evict(v) /\ queue[v] # <<>>
  <2>1. /\ Holding(v)
        /\ queue' = [queue EXCEPT ![v] = Tail(@)]
        /\ target' = target /\ step' = "again" /\ last' = last
        /\ UNCHANGED <<counters, input>>
    BY <1>0, <1>4 DEF Evict, Goto, Holding, output
  <2>2. InOrder' /\ QueueState' /\ BusAhead' /\ CallbackState'
        /\ queue' \in [Viewers -> Seq(Frames)]
        /\ \A w \in Viewers : Len(queue'[w]) <= Depth
    BY <1>0, <1>4, <2>1, OldestInd DEF IndInv, TypeOK
  <2>3. TypeOK'
    BY <1>0, <2>1, <2>2 DEF IndInv, TypeOK, source, counters, input, output
  <2> QED
    BY <2>2, <2>3 DEF IndInv
<1>5. CASE OfferAgain(v) /\ ~(Len(queue[v]) < Depth)
  BY <1>0, <1>5 DEF OfferAgain, IndInv, QueueState, Holding
<1> QED
  BY <1>0, <1>1, <1>2, <1>3, <1>4, <1>5
     DEF Offer, Evict, CountDrop, input

\* The viewers: only Take touches what the invariant is about.
LEMMA ViewerInd ==
  ASSUME IndInv, NEW v \in Viewers, Viewer(v)
  PROVE  IndInv'
<1>1. CASE Take(v)
  <2>1. /\ queue[v] # <<>>
        /\ queue' = [queue EXCEPT ![v] = Tail(@)]
        /\ last' = [last EXCEPT ![v] = queue[v][1]]
        /\ UNCHANGED <<source, callback, attached, state, counters, input>>
    BY <1>1 DEF Take, IndInv, TypeOK
  <2>2. last' \in [Viewers -> 0..FrameBound] /\ last'[v] = queue[v][1]
    <3>1. queue[v][1] \in 0..FrameBound
      <4>1. queue[v] \in Seq(Frames) /\ queue[v] # <<>>
        BY <2>1, QueueFacts
      <4> QED
        <5>1. queue[v][1] \in Frames
          BY <4>1
        <5> QED
          BY <5>1, BoundAssumption DEF Frames
    <3> QED
      BY <2>1, <3>1 DEF IndInv, TypeOK
  <2>3. InOrder' /\ QueueState' /\ BusAhead' /\ CallbackState'
        /\ queue' \in [Viewers -> Seq(Frames)]
        /\ \A w \in Viewers : Len(queue'[w]) <= Depth
    BY <2>1, <2>2, OldestInd DEF callback, IndInv, TypeOK
  <2>4. TypeOK'
    <3>1. taken' \in [Viewers -> Nat] /\ writer' \in [Viewers -> {"off", "select", "write"}]
      <4>1. taken \in [Viewers -> Nat] /\ writer \in [Viewers -> {"off", "select", "write"}]
        BY DEF IndInv, TypeOK
      <4>2. /\ taken' = [taken EXCEPT ![v] = taken[v] + 1]
            /\ writer' = [writer EXCEPT ![v] = "write"]
        BY <1>1 DEF Take
      <4>3. taken[v] + 1 \in Nat
        BY <4>1
      <4> QED
        BY <4>1, <4>2, <4>3
    <3> QED
      BY <2>1, <2>2, <2>3, <3>1
       DEF IndInv, TypeOK, source, callback, counters, input
  <2> QED
    BY <2>3, <2>4 DEF IndInv
<1>2. CASE \/ Attach(v) \/ StartWriter(v) \/ Written(v) \/ WriterEnds(v) \/ CloseDone(v)
             \/ RemoveViewer(v)
  <2>1. UNCHANGED <<source, callback, queue, counters, offered, newest, output>>
    BY <1>2 DEF Attach, StartWriter, Written, WriterEnds, CloseDone, RemoveViewer, input
  <2>0. joined' \in [Viewers -> Int]
    <3>1. joined \in [Viewers -> Int] /\ Received \in Int
      BY CountFacts
    <3>2. joined' = joined \/ joined' = [joined EXCEPT ![v] = Received]
      BY <1>2 DEF Attach, StartWriter, Written, WriterEnds, CloseDone, RemoveViewer, input
    <3> QED
      BY <3>1, <3>2
  <2>2. TypeOK'
    BY <1>2, <2>0, <2>1 DEF Attach, StartWriter, Written, WriterEnds, CloseDone, RemoveViewer,
       IndInv, TypeOK, source, callback, counters, output
  <2> QED
    BY <2>1, <2>2, Frame DEF IndInv, input, output
<1> QED
  BY <1>1, <1>2 DEF Viewer

\* The invariant is inductive and so holds in every reachable state.
THEOREM Inductive == Spec => []IndInv
<1>1. IndInv /\ UNCHANGED vars => IndInv'
  BY Frame DEF vars, IndInv, TypeOK, source, callback, counters, input, output
<1>2. IndInv /\ [Next]_vars => IndInv'
  BY <1>1, WalkInd, EnqueueInd, ViewerInd DEF Next, Callback
<1> QED
  BY <1>2, IndInit, PTL DEF Spec

\* What a step does to one viewer's account of frames.
LEMMA LossNext == IndInv /\ LossCounted /\ [Next]_vars => LossCounted'
<1> SUFFICES ASSUME IndInv, LossCounted, [Next]_vars, NEW v \in Viewers
             PROVE  offered'[v] - taken'[v] - Len(queue'[v]) <= dropped'[v] + Owed(v)'
  BY DEF LossCounted
<1> USE ViewersAssumption
<1>0. /\ offered[v] \in Nat /\ taken[v] \in Nat /\ dropped[v] \in Nat /\ Len(queue[v]) \in Nat
      /\ offered[v] - taken[v] - Len(queue[v]) <= dropped[v] + Owed(v)
  BY QueueFacts DEF IndInv, TypeOK, LossCounted
<1>1. CASE Publish \/ Close \/ Receive \/ NextViewer \/ CallbackReturns \/ UNCHANGED vars
  <2>1. UNCHANGED <<queue, counters, input, output>> /\ Owed(v)' = Owed(v)
    BY <1>1 DEF Publish, Close, Receive, NextViewer, CallbackReturns, vars, callback, Owed, IndInv, TypeOK
  <2> QED
    BY <1>0, <2>1 DEF counters, input, output
<1>2. ASSUME NEW w \in Viewers, Viewer(w)
      PROVE  offered'[v] - taken'[v] - Len(queue'[v]) <= dropped'[v] + Owed(v)'
  <2>1. UNCHANGED <<callback, counters, offered>> /\ Owed(v)' = Owed(v)
    BY <1>2 DEF Viewer, Attach, StartWriter, Take, Written, WriterEnds, CloseDone,
                RemoveViewer, callback, input, Owed
  <2>2. CASE Take(w) /\ w = v
    <3>1. queue'[v] = Tail(queue[v]) /\ queue[v] # <<>> /\ taken'[v] = taken[v] + 1
      BY <2>2 DEF Take, IndInv, TypeOK
    <3>2. Len(queue'[v]) = Len(queue[v]) - 1
      BY <3>1, QueueFacts
    <3>3. offered' = offered /\ dropped' = dropped
      BY <2>1 DEF counters
    <3>4. taken'[v] + Len(queue'[v]) = taken[v] + Len(queue[v])
      BY <1>0, <3>1, <3>2
    <3> DEFINE t == taken[v]  u == taken'[v]  l == Len(queue[v])  m == Len(queue'[v])
               o == offered[v]  d == dropped[v] + Owed(v)
    <3>5. /\ t \in Nat /\ l \in Nat /\ o \in Nat /\ u = t + 1 /\ m = l - 1
          /\ o - t - l <= d
      BY <1>0, <3>1, <3>2
    <3>6. o - u - m = o - t - l
      <4> HIDE DEF t, u, l, m, o, d
      <4> QED
        BY <3>5
    <3> QED
      BY <2>1, <3>3, <3>5, <3>6
  <2>3. CASE ~(Take(w) /\ w = v)
    <3>1. queue'[v] = queue[v] /\ taken'[v] = taken[v]
      BY <1>2, <2>3 DEF Viewer, Attach, StartWriter, Take, Written, WriterEnds, CloseDone,
                        RemoveViewer, output, IndInv, TypeOK
    <3> QED
      BY <1>0, <2>1, <3>1 DEF counters
  <2> QED
    BY <2>2, <2>3
<1>3. CASE Enqueue
  <2>1. taken' = taken
    BY <1>3 DEF Enqueue, output
  <2>2. CASE target # v
    <3>1. offered'[v] = offered[v] /\ queue'[v] = queue[v] /\ dropped'[v] = dropped[v]
      BY <1>3, <2>2 DEF Enqueue, CheckDone, Offer, Evict, OfferAgain, CountDrop, Push,
                        counters, input, IndInv, TypeOK
    <3>2. target' # v
      BY <1>3, <2>2 DEF Enqueue, CheckDone, Offer, Evict, OfferAgain, CountDrop,
                        EnqueueReturns, Goto
    <3> QED
      BY <1>0, <2>1, <2>2, <3>1, <3>2 DEF Owed
  <2>3. CASE target = v /\ CheckDone(v)
    <3>1. UNCHANGED <<queue, counters>>
      BY <2>3 DEF CheckDone
    <3>2. CASE state[v] = "done"
      BY <1>0, <2>1, <2>3, <3>1, <3>2 DEF CheckDone, EnqueueReturns, Owed, counters, input
    <3>3. CASE state[v] # "done"
      <4>1. offered'[v] = offered[v] + 1 /\ target' = v /\ step' = "offer" /\ step = "done?"
        BY <2>3, <3>3 DEF CheckDone, Goto, IndInv, TypeOK
      <4>2. Owed(v) = 0 /\ Owed(v)' = 1
        BY <2>3, <4>1 DEF Owed
      <4>3. taken'[v] = taken[v] /\ dropped'[v] = dropped[v] /\ Len(queue'[v]) = Len(queue[v])
        BY <2>1, <3>1 DEF counters
      <4>4. offered[v] - taken[v] - Len(queue[v]) <= dropped[v]
        BY <1>0, <4>2
      <4>5. offered[v] \in Nat /\ taken[v] \in Nat /\ dropped[v] \in Nat /\ Len(queue[v]) \in Nat
        BY <1>0
      <4>6. offered'[v] - taken'[v] - Len(queue'[v]) <= dropped'[v] + 1
        <5> DEFINE o == offered[v]  t == taken[v]  l == Len(queue[v])  d == dropped[v]
                   o2 == offered'[v]  t2 == taken'[v]  l2 == Len(queue'[v])  d2 == dropped'[v]
        <5>1. /\ o \in Nat /\ t \in Nat /\ l \in Nat /\ d \in Nat /\ o - t - l <= d
              /\ o2 = o + 1 /\ t2 = t /\ d2 = d /\ l2 = l
          BY <4>1, <4>3, <4>4, <4>5
        <5>2. o2 - t2 - l2 <= d2 + 1
          <6> HIDE DEF o, t, l, d, o2, t2, l2, d2
          <6> QED
            BY <5>1
        <5> QED
          BY <5>2
      <4> QED
        BY <4>2, <4>6
    <3> QED
      BY <3>2, <3>3
  <2>4. CASE target = v /\ (Offer(v) \/ OfferAgain(v)) /\ Len(queue[v]) < Depth
    <3>1. Holding(v) /\ Push(v)
      BY <2>4 DEF Offer, OfferAgain, Holding
    <3>2. Len(queue'[v]) = Len(queue[v]) + 1
      BY <2>4, <3>1, PushFacts
    <3>3. /\ UNCHANGED <<counters, input>>
          /\ \/ step = "offer" /\ target' = Nobody
             \/ step = "again" /\ target' = v /\ step' = "count"
      BY <2>4 DEF Offer, OfferAgain, EnqueueReturns, Goto
    <3>4. Owed(v) = Owed(v)' + 1
      BY <2>4, <3>3 DEF Owed
    <3>5. Owed(v)' \in Nat
      BY DEF Owed
    <3>6. offered' = offered /\ taken' = taken /\ dropped' = dropped
      BY <2>1, <3>3 DEF counters, input
    <3> DEFINE o == offered[v]  t == taken[v]  l == Len(queue[v])  d == dropped[v]
               e == Owed(v)'
    <3>7. /\ o \in Nat /\ t \in Nat /\ l \in Nat /\ d \in Nat /\ e \in Nat
          /\ o - t - l <= d + (e + 1)
      BY <1>0, <3>4, <3>5
    <3>8. o - t - (l + 1) <= d + e
      <4> HIDE DEF o, t, l, d, e
      <4> QED
        BY <3>7
    <3> QED
      BY <3>2, <3>6, <3>8
  <2>5. CASE target = v /\ Offer(v) /\ ~(Len(queue[v]) < Depth)
    BY <1>0, <2>1, <2>5 DEF Offer, Goto, Owed, counters, input
  <2>6. CASE target = v /\ Evict(v)
    <3>1. Len(queue'[v]) \in Int /\ Len(queue'[v]) >= Len(queue[v]) - 1
      <4>1. CASE queue[v] = <<>>
        BY <1>0, <2>6, <4>1 DEF Evict
      <4>2. CASE queue[v] # <<>>
        <5>1. queue' = [queue EXCEPT ![v] = Tail(@)]
          BY <2>6, <4>2 DEF Evict
        <5> QED
          BY <1>0, <4>2, <5>1, TailFacts
      <4> QED
        BY <4>1, <4>2
    <3>2. step = "evict" /\ step' = "again" /\ target' = target /\ UNCHANGED <<counters, input>>
      BY <2>6 DEF Evict, Goto
    <3>3. Owed(v) = 1 /\ Owed(v)' = 2
      BY <2>6, <3>2 DEF Owed
    <3>4. offered' = offered /\ taken' = taken /\ dropped' = dropped
      BY <2>1, <3>2 DEF counters, input
    <3> DEFINE o == offered[v]  t == taken[v]  d == dropped[v]
               l == Len(queue[v])  m == Len(queue'[v])
    <3>5. /\ o \in Nat /\ t \in Nat /\ d \in Nat /\ l \in Nat /\ m \in Int
          /\ o - t - l <= d + 1 /\ m >= l - 1
      BY <1>0, <3>1, <3>3
    <3>6. o - t - m <= d + 2
      <4> HIDE DEF o, t, d, l, m
      <4> QED
        BY <3>5
    <3> QED
      BY <3>3, <3>4, <3>6
  <2>7. CASE target = v /\ OfferAgain(v) /\ ~(Len(queue[v]) < Depth)
    BY <2>7 DEF OfferAgain, IndInv, QueueState, Holding
  <2>8. CASE target = v /\ CountDrop(v)
    <3>1. dropped'[v] = dropped[v] + 1 /\ UNCHANGED <<queue, input>> /\ target' = Nobody
          /\ step = "count"
      BY <2>8 DEF CountDrop, EnqueueReturns, IndInv, TypeOK
    <3> QED
      BY <1>0, <2>1, <2>8, <3>1 DEF Owed, input
  <2> QED
    BY <1>3, <2>2, <2>3, <2>4, <2>5, <2>6, <2>7, <2>8 DEF Enqueue
<1> QED
  BY <1>1, <1>2, <1>3 DEF Next, Callback

\* The callback's list of viewers, and what has been offered, follow the account
\* of what the bus delivered.
LEMMA ListedNext == IndInv /\ Listed /\ [Next]_vars => Listed'
<1> SUFFICES ASSUME IndInv, Listed, [Next]_vars, NEW v \in Viewers
             PROVE  /\ state'[v] = "absent" =>
                         v \notin attached' /\ ~Waiting(v)' /\ offered'[v] = 0
                    /\ state'[v] = "open" =>
                         /\ v \in attached'
                         /\ Received' - joined'[v] =
                              offered'[v] + (IF Waiting(v)' THEN 1 ELSE 0)
  BY DEF Listed
<1> USE ViewersAssumption
<1>0. /\ state[v] = "absent" => v \notin attached /\ ~Waiting(v) /\ offered[v] = 0
      /\ state[v] = "open" =>
           /\ v \in attached
           /\ Received - joined[v] = offered[v] + (IF Waiting(v) THEN 1 ELSE 0)
  BY DEF Listed
<1>t. /\ offered[v] \in Nat /\ joined[v] \in Int /\ Received \in Int
      /\ produced \in Int /\ Len(bus) \in Int /\ lost \in Int
      /\ offered \in [Viewers -> Nat] /\ joined \in [Viewers -> Int]
      /\ state \in [Viewers -> {"absent", "open", "done"}]
  BY CountFacts DEF IndInv, TypeOK
<1>1. CASE Publish \/ Close \/ UNCHANGED vars
  <2>1. UNCHANGED <<callback, attached, state, input>>
    BY <1>1 DEF Publish, Close, vars
  <2>2. Received' = Received
    <3>1. CASE Publish /\ subscribed /\ Len(bus) < PendingLimit
      <4>1. produced' = produced + 1 /\ lost' = lost /\ bus' = Append(bus, produced + 1)
        BY <3>1 DEF Publish
      <4>2. Len(bus') = Len(bus) + 1
        <5>1. bus \in Seq(Frames)
          BY DEF IndInv, TypeOK
        <5> QED
          BY <4>1, <5>1
      <4> QED
        BY <1>t, <4>1, <4>2 DEF Received
    <3>2. CASE Publish /\ ~(subscribed /\ Len(bus) < PendingLimit)
      BY <1>t, <3>2 DEF Publish, Received
    <3>3. CASE Close
      <4>1. produced' = produced /\ lost' = lost + Len(bus) /\ Len(bus') = 0
        BY <3>3 DEF Close
      <4> QED
        BY <1>t, <4>1 DEF Received
    <3>4. CASE UNCHANGED vars
      BY <3>4 DEF vars, source, Received
    <3> QED
      BY <1>1, <3>1, <3>2, <3>3, <3>4
  <2>3. Waiting(v)' <=> Waiting(v)
    BY <2>1 DEF Waiting, callback
  <2> QED
    BY <1>0, <2>1, <2>2, <2>3 DEF input
<1>2. CASE Receive
  <2>1. target = Nobody /\ targets = {} /\ targets' = attached
        /\ UNCHANGED <<target, step, attached, state, input>>
    BY <1>2 DEF Receive, IndInv, CallbackState
  <2>2. Received' = Received + 1
    <3>1. bus \in Seq(Frames) /\ bus # <<>> /\ bus' = Tail(bus)
          /\ produced' = produced /\ lost' = lost
      BY <1>2 DEF Receive, IndInv, TypeOK
    <3>2. Len(bus') = Len(bus) - 1
      BY <3>1
    <3> QED
      BY <1>t, <3>1, <3>2 DEF Received
  <2>3. ~Waiting(v) /\ (Waiting(v)' <=> v \in attached)
    BY <2>1 DEF Waiting
  <2>4. state[v] = "absent" => v \notin attached
    BY <1>0
  <2>5. state[v] = "open" => v \in attached /\ Received - joined[v] = offered[v]
    BY <1>0, <1>t, <2>3
  <2> QED
    BY <1>0, <1>t, <2>1, <2>2, <2>3, <2>4, <2>5 DEF input
<1>3. CASE NextViewer \/ CallbackReturns
  <2>1. UNCHANGED <<source, attached, state, input>> /\ target = Nobody
    BY <1>3 DEF NextViewer, CallbackReturns
  <2>2. Waiting(v)' <=> Waiting(v)
    BY <1>3, <2>1 DEF NextViewer, CallbackReturns, Waiting
  <2>3. Received' = Received
    BY <2>1 DEF source, Received
  <2> QED
    BY <1>0, <2>1, <2>2, <2>3 DEF input
<1>4. CASE Enqueue
  <2>1. UNCHANGED <<targets, attached, state, joined>> /\ Received' = Received
        /\ target \in Viewers
    BY <1>4 DEF Enqueue, CheckDone, Offer, Evict, OfferAgain, CountDrop, source, input,
                Received, IndInv, TypeOK
  <2>2. CASE target # v \/ step # "done?"
    <3>1. offered'[v] = offered[v] /\ (target' = v => target = v /\ step' # "done?")
      BY <1>4, <2>2 DEF Enqueue, CheckDone, Offer, Evict, OfferAgain, CountDrop,
                        EnqueueReturns, Goto, input, IndInv, TypeOK
    <3>2. Waiting(v)' <=> Waiting(v)
      BY <2>1, <2>2, <3>1 DEF Waiting
    <3> QED
      BY <1>0, <2>1, <3>1, <3>2
  <2>3. CASE target = v /\ step = "done?"
    <3>1. CheckDone(v)
      BY <1>4, <2>3 DEF Enqueue, Offer, Evict, OfferAgain, CountDrop
    <3>2. Waiting(v) /\ v \notin targets /\ state[v] # "absent"
      BY <1>0, <2>3 DEF Waiting, IndInv, CallbackState
    <3>3. state[v] = "open" =>
            offered'[v] = offered[v] + 1 /\ step' = "offer" /\ ~Waiting(v)'
      BY <1>t, <2>1, <3>1, <3>2 DEF CheckDone, Goto, Waiting
    <3>4. state[v] = "open" => Received - joined[v] = offered[v] + 1
      BY <1>0, <3>2
    <3> QED
      BY <1>0, <1>t, <2>1, <3>2, <3>3, <3>4
  <2> QED
    BY <2>2, <2>3
<1>5. ASSUME NEW w \in Viewers, Viewer(w)
      PROVE  /\ state'[v] = "absent" =>
                  v \notin attached' /\ ~Waiting(v)' /\ offered'[v] = 0
             /\ state'[v] = "open" =>
                  /\ v \in attached'
                  /\ Received' - joined'[v] =
                       offered'[v] + (IF Waiting(v)' THEN 1 ELSE 0)
  <2>1. UNCHANGED <<source, callback, offered>>
    BY <1>5 DEF Viewer, Attach, StartWriter, Take, Written, WriterEnds, CloseDone,
                RemoveViewer, input
  <2>2. Received' = Received /\ (Waiting(v)' <=> Waiting(v))
    BY <2>1 DEF source, callback, Received, Waiting
  <2>3. CASE w = v /\ Attach(v)
    <3>1. state[v] = "absent" /\ state'[v] = "open" /\ v \in attached'
          /\ joined'[v] = Received
      BY <1>t, <2>3 DEF Attach
    <3> QED
      BY <1>0, <1>t, <2>1, <2>2, <3>1
  <2>4. CASE w # v \/ ~Attach(w)
    <3>1. joined'[v] = joined[v]
      BY <1>5, <1>t, <2>4 DEF Viewer, Attach, StartWriter, Take, Written, WriterEnds,
                              CloseDone, RemoveViewer, input
    <3>2. /\ state'[v] = state[v] \/ state'[v] = "done"
          /\ state'[v] = "open" => (v \in attached' <=> v \in attached)
          /\ state'[v] = "absent" => (v \in attached' <=> v \in attached)
      BY <1>5, <1>t, <2>4 DEF Viewer, Attach, StartWriter, Take, Written, WriterEnds,
                              CloseDone, RemoveViewer
    <3> QED
      BY <1>0, <2>1, <2>2, <3>1, <3>2
  <2> QED
    BY <1>5, <2>3, <2>4
<1> QED
  BY <1>1, <1>2, <1>3, <1>4, <1>5 DEF Next, Callback

\* Of the frames published since a viewer attached, none is lost without the bus's
\* count or the viewer's showing it, for every depth, limit and number of viewers.
THEOREM LossCorrect == Spec => []NoSilentLoss
<1>1. Init => LossCounted /\ Listed
  BY ViewersAssumption DEF Init, LossCounted, Listed, Waiting, Owed, Zeros
<1>2. IndInv /\ LossCounted /\ Listed => NoSilentLoss
  <2> SUFFICES ASSUME IndInv, LossCounted, Listed, NEW v \in Viewers,
                      state[v] = "open", v \notin targets, target # v
               PROVE  Received - joined[v] - taken[v] - Len(queue[v]) <= dropped[v]
    BY DEF NoSilentLoss
  <2>1. dropped[v] \in Nat /\ Owed(v) = 0 /\ ~Waiting(v)
    BY DEF IndInv, TypeOK, Owed, Waiting
  <2>2. offered[v] - taken[v] - Len(queue[v]) <= dropped[v] + Owed(v)
    BY DEF LossCounted
  <2>3. Received - joined[v] = offered[v]
    <3>1. Received - joined[v] = offered[v] + 0
      BY <2>1 DEF Listed
    <3> QED
      BY <3>1 DEF IndInv, TypeOK
  <2> QED
    BY <2>1, <2>2, <2>3
<1> QED
  BY <1>1, <1>2, Inductive, LossNext, ListedNext, PTL DEF Spec

\* The types hold: queues and bus stay within their bounds.
THEOREM TypeCorrect == Spec => []TypeOK
<1>1. IndInv => TypeOK
  BY DEF IndInv
<1> QED
  BY <1>1, Inductive, PTL

\* Frames wait in order and none is repeated, for every depth of the queue.
THEOREM OrderCorrect == Spec => []InOrder
<1>1. IndInv => InOrder
  BY DEF IndInv
<1> QED
  BY <1>1, Inductive, PTL

\* The newest frame a viewer was offered is never the one that is dropped.
THEOREM NewestCorrect == Spec => []NewestKept
<1>1. IndInv => NewestKept
  BY DEF IndInv, QueueState, Holding, NewestKept
<1> QED
  BY <1>1, Inductive, PTL

\* What the callback's own part of the state is after a step of anybody else.
LEMMA OthersLeaveCallback ==
  ASSUME [Next]_vars, ~Callback
  PROVE  UNCHANGED callback
BY DEF Next, Publish, Close, Viewer, Attach, StartWriter, Take, Written, WriterEnds, CloseDone,
       RemoveViewer, vars

\* However many viewers have come so far, it is a finite number of them that a callback
\* lists.
THEOREM FiniteCorrect == Spec => []ViewersFinite
<1>1. Init => ViewersFinite
  BY FS_EmptySet DEF Init, ViewersFinite
<1>2. ViewersFinite /\ [Next]_vars => ViewersFinite'
  <2> SUFFICES ASSUME ViewersFinite, [Next]_vars
               PROVE  ViewersFinite'
    OBVIOUS
  <2>1. IsFiniteSet(attached')
    <3>1. \A v : IsFiniteSet(attached \cup {v}) /\ IsFiniteSet(attached \ {v})
      BY FS_AddElement, FS_RemoveElement DEF ViewersFinite
    <3>2. attached' = attached \/ \E v : attached' = attached \cup {v} \/ attached' = attached \ {v}
      BY DEF Next, Publish, Close, Callback, Receive, NextViewer, CallbackReturns, Enqueue,
             Viewer, Attach, StartWriter, Take, Written, WriterEnds, CloseDone, RemoveViewer, vars
    <3> QED
      BY <3>1, <3>2 DEF ViewersFinite
  <2>2. IsFiniteSet(targets')
    <3>1. \A v : IsFiniteSet(targets \ {v})
      BY FS_RemoveElement DEF ViewersFinite
    <3>2. CASE Callback
      BY <3>1, <3>2 DEF Callback, Receive, NextViewer, CallbackReturns, Enqueue, ViewersFinite
    <3>3. CASE ~Callback
      BY <3>3, OthersLeaveCallback DEF callback, ViewersFinite
    <3> QED
      BY <3>2, <3>3
  <2> QED
    BY <2>1, <2>2 DEF ViewersFinite
<1> QED
  BY <1>1, <1>2, PTL DEF Spec

\* What a callback has left is a number.
LEMMA LeftNatural ==
  ASSUME TypeOK, ViewersFinite
  PROVE  CallbackLeft \in Nat
<1>1. Cardinality(targets) \in Nat
  BY FS_CardinalityType DEF ViewersFinite
<1>2. step \in {"done?", "offer", "evict", "again", "count"}
  BY DEF TypeOK
<1> QED
  BY <1>1, <1>2 DEF CallbackLeft

\* A step of the callback brings its return closer: the next viewer costs what enqueue
\* will do for it, and no send or eviction of enqueue is ever repeated.
LEMMA CallbackShrinks ==
  ASSUME TypeOK, ViewersFinite, frame # 0, Callback
  PROVE  CallbackLeft' <= CallbackLeft /\ CallbackLeft' < CallbackLeft
<1>1. Cardinality(targets) \in Nat /\ frame \in Nat
  BY FS_CardinalityType, BoundAssumption DEF ViewersFinite, TypeOK
<1>2. CASE NextViewer
  <2>1. PICK v \in targets : target' = v /\ targets' = targets \ {v}
    BY <1>2 DEF NextViewer
  <2>2. Cardinality(targets') = Cardinality(targets) - 1
    BY <2>1, FS_RemoveElement DEF ViewersFinite
  <2>3. target = Nobody /\ target' # Nobody /\ step' = "done?" /\ frame' = frame
    BY <1>2, <2>1, ViewersAssumption DEF NextViewer, TypeOK
  <2>4. CallbackLeft = 6 * Cardinality(targets) + 1 /\ CallbackLeft' = 6 * Cardinality(targets') + 6
    BY <2>3, <1>2 DEF CallbackLeft, NextViewer
  <2> QED
    BY <1>1, <2>2, <2>4
<1>3. CASE CallbackReturns
  <2>1. CallbackLeft = 6 * Cardinality(targets) + 1 /\ CallbackLeft' = 0
    BY <1>3 DEF CallbackLeft, CallbackReturns
  <2> QED
    BY <1>1, <2>1
<1>4. CASE Enqueue
  <2> DEFINE Cost(t, s) == IF t = Nobody THEN 1
                           ELSE CASE s = "done?" -> 6
                                  [] s = "offer" -> 5
                                  [] s = "evict" -> 4
                                  [] s = "again" -> 3
                                  [] s = "count" -> 2
  <2>1. /\ CallbackLeft = 6 * Cardinality(targets) + Cost(target, step)
        /\ CallbackLeft' = 6 * Cardinality(targets) + Cost(target', step')
    BY <1>4 DEF CallbackLeft, Enqueue
  <2>2. Cost(target', step') \in Nat /\ Cost(target, step) \in Nat
        /\ Cost(target', step') < Cost(target, step)
    BY <1>4, ViewersAssumption DEF Enqueue, CheckDone, Offer, Evict, OfferAgain, CountDrop,
           EnqueueReturns, Goto
  <2> HIDE DEF Cost
  <2> QED
    BY <1>1, <2>1, <2>2
<1> QED
  BY <1>2, <1>3, <1>4 DEF Callback, Receive

\* No viewer, writer or publisher gives a running callback more to do, for any number of
\* viewers and any depth: it needs only its own goroutine, and at most six steps of it for
\* each viewer it listed.
THEOREM CallbackCorrect == Spec => CallbackBounded
<1> DEFINE Step == frame # 0 => /\ CallbackLeft' <= CallbackLeft
                                /\ Callback => CallbackLeft' < CallbackLeft
<1>1. ASSUME TypeOK, ViewersFinite, ViewersFinite', TypeOK', [Next]_vars
      PROVE  Step
  <2> SUFFICES ASSUME frame # 0
               PROVE  /\ CallbackLeft' <= CallbackLeft
                      /\ Callback => CallbackLeft' < CallbackLeft
    OBVIOUS
  <2>1. CASE Callback
    BY <1>1, <2>1, CallbackShrinks
  <2>2. CASE ~Callback
    <3>1. CallbackLeft' = CallbackLeft
      <4>1. frame' = frame /\ targets' = targets /\ target' = target /\ step' = step
        BY <1>1, <2>2, OthersLeaveCallback DEF callback
      <4>2. Cardinality(targets') = Cardinality(targets)
        BY <4>1
      <4> QED
        BY <4>1, <4>2 DEF CallbackLeft
    <3> QED
      BY <1>1, <2>2, <3>1, LeftNatural
  <2> QED
    BY <2>1, <2>2
<1>2. IndInv => TypeOK
  BY DEF IndInv
<1> QED
  BY <1>1, <1>2, Inductive, FiniteCorrect, PTL DEF Spec, CallbackBounded
-----------------------------------------------------------------------------
(* The hub implements DropOldest. *)

\* The oldest of a queue is taken from it alike whether or not another frame is still to
\* be appended.
LEMMA AppendLater ==
  ASSUME NEW q \in Seq(Frames), q # << >>, NEW f \in Frames
  PROVE  /\ Append(q, f) # << >>
         /\ Head(Append(q, f)) = Head(q)
         /\ Tail(Append(q, f)) = Append(Tail(q), f)
<1> HIDE DEF Frames
<1> QED
  BY HeadTailAppend, AppendProperties

\* The initial states are initial states of the promise.
LEMMA RefineInit == Init => Buffer!Init
BY ViewersAssumption DEF Init, Buffer!Init, Waits, Misses, Zeros

\* What leaves the queues, the counters and the place of enqueue alone is a stutter.
LEMMA RefineQuiet ==
  ASSUME UNCHANGED <<queue, dropped, last, target, step>>, target # Nobody => UNCHANGED frame
  PROVE  UNCHANGED Buffer!vars
<1>1. \A v \in Viewers : Waits(v)' = Waits(v) /\ Misses(v)' = Misses(v)
  BY ViewersAssumption DEF Waits, Misses
<1> QED
  BY <1>1 DEF Buffer!vars

\* The walk over the viewers, and their steps but the taking of a frame, are stutters.
LEMMA RefineWalk ==
  ASSUME IndInv,
         \/ Publish \/ Close \/ Receive \/ NextViewer \/ CallbackReturns \/ UNCHANGED vars
         \/ \E v \in Viewers : Viewer(v) /\ ~Take(v)
  PROVE  UNCHANGED Buffer!vars
<1>1. CASE Receive
  <2>1. target = Nobody
    BY <1>1 DEF Receive, IndInv, CallbackState
  <2> QED
    BY <1>1, <2>1, RefineQuiet DEF Receive, counters, output
<1>2. CASE NextViewer \/ CallbackReturns
  <2>1. target = Nobody /\ UNCHANGED <<queue, dropped, last>>
    BY <1>2 DEF NextViewer, CallbackReturns, counters, output
  <2>2. \A v \in Viewers : target' = v => step' \notin {"evict", "again", "count"}
    BY <1>2, ViewersAssumption DEF NextViewer, CallbackReturns
  <2>3. \A v \in Viewers : Waits(v)' = Waits(v) /\ Misses(v)' = Misses(v)
    BY <2>1, <2>2, ViewersAssumption DEF Waits, Misses
  <2> QED
    BY <2>1, <2>2, <2>3, ViewersAssumption DEF Buffer!vars
<1>3. CASE Publish \/ Close \/ UNCHANGED vars
  BY <1>3, RefineQuiet DEF Publish, Close, vars, callback, counters, output
<1>4. CASE \E v \in Viewers : Viewer(v) /\ ~Take(v)
  BY <1>4, RefineQuiet DEF Viewer, Attach, StartWriter, Written, WriterEnds, CloseDone,
                           RemoveViewer, callback, counters, output
<1> QED
  BY <1>1, <1>2, <1>3, <1>4

\* The writer takes the oldest frame, wherever enqueue is.
LEMMA RefineTake ==
  ASSUME IndInv, NEW v \in Viewers, Take(v)
  PROVE  Buffer!Take(v)
<1>1. /\ queue \in [Viewers -> Seq(Frames)] /\ last \in [Viewers -> 0..FrameBound]
      /\ queue[v] # << >>
      /\ queue' = [queue EXCEPT ![v] = Tail(@)]
      /\ last' = [last EXCEPT ![v] = Head(queue[v])]
      /\ UNCHANGED <<frame, target, step, dropped>>
  BY DEF Take, IndInv, TypeOK, callback, counters
<1>2. /\ Waits(v) # << >> /\ Head(Waits(v)) = Head(queue[v])
      /\ Waits(v)' = Tail(Waits(v))
  <2>1. CASE target = v /\ step = "again"
    <3>1. frame \in Frames
      BY <2>1, ViewersAssumption, BoundAssumption DEF IndInv, TypeOK, CallbackState, Frames
    <3> QED
      BY <1>1, <2>1, <3>1, AppendLater DEF Waits
  <2>2. CASE ~(target = v /\ step = "again")
    BY <1>1, <2>2 DEF Waits
  <2> QED
    BY <2>1, <2>2
<1>3. \A w \in Viewers \ {v} : Waits(w)' = Waits(w)
  BY <1>1 DEF Waits
<1>4. \A w \in Viewers : Misses(w)' = Misses(w)
  BY <1>1 DEF Misses
<1> QED
  BY <1>1, <1>2, <1>3, <1>4 DEF Buffer!Take

\* What a step of enqueue leaves alone: all but one viewer's queue and counter.
LEMMA OneViewer ==
  ASSUME IndInv, Enqueue, NEW v \in Viewers, target = v,
         \A w \in Viewers \ {v} : queue'[w] = queue[w] /\ dropped'[w] = dropped[w],
         target' \in {v, Nobody}
  PROVE  /\ \A w \in Viewers \ {v} : Waits(w)' = Waits(w) /\ Misses(w)' = Misses(w)
         /\ last' = last /\ frame' = frame /\ frame \in Frames
<1>1. frame \in Frames
  BY ViewersAssumption, BoundAssumption DEF IndInv, TypeOK, CallbackState, Frames
<1>2. last' = last /\ frame' = frame
  BY DEF Enqueue, output
<1>3. \A w \in Viewers \ {v} : target # w /\ target' # w
  BY ViewersAssumption
<1>4. \A w \in Viewers \ {v} : Waits(w)' = Waits(w) /\ Misses(w)' = Misses(w)
  BY <1>3 DEF Waits, Misses
<1> QED
  BY <1>1, <1>2, <1>4

\* The frame in hand is newer than all the viewer has.
LEMMA HeldIsNewest ==
  ASSUME IndInv, NEW v \in Viewers, target = v, step \in {"offer", "evict"}
  PROVE  frame > Buffer!Newest(v)
<1>1. Waits(v) = queue[v]
  BY DEF Waits
<1>2. Holding(v)
  BY DEF Holding
<1>3. last[v] < frame /\ \A i \in 1..Len(queue[v]) : queue[v][i] < frame
  BY <1>2 DEF IndInv, QueueState
<1>4. queue[v] \in Seq(Frames) /\ Len(queue[v]) \in Nat
  BY QueueFacts
<1>5. queue[v] # << >> => Len(queue[v]) \in 1..Len(queue[v])
  BY <1>4
<1>6. frame \in Nat /\ last[v] \in Nat /\ \A i \in 1..Len(queue[v]) : queue[v][i] \in Nat
  BY QueueFacts
<1> QED
  BY <1>1, <1>3, <1>5, <1>6 DEF Buffer!Newest

\* enqueue, step by step: the first send is the put, or finds the buffer full; the
\* eviction is then the put; the rest only catches up.
LEMMA RefineEnqueue ==
  ASSUME IndInv, Enqueue, NEW v \in Viewers, target = v
  PROVE  [Buffer!Next]_(Buffer!vars)
<1> DEFINE B == [w \in Viewers |-> Waits(w)]
           M == [w \in Viewers |-> Misses(w)]
           F == {w \in Viewers : target = w /\ step = "evict"}
<1> USE ViewersAssumption
<1>0. /\ queue \in [Viewers -> Seq(Frames)] /\ dropped \in [Viewers -> Nat]
      /\ v # Nobody
  BY DEF IndInv, TypeOK, Enqueue
<1>1. CASE CheckDone(v)
  <2>1. /\ UNCHANGED <<queue, dropped>> /\ step = "done?"
        /\ target' \in {v, Nobody} /\ step' \in {"done?", "offer"}
    BY <1>1 DEF CheckDone, EnqueueReturns, Goto, counters
  <2>2. Waits(v)' = Waits(v) /\ Misses(v)' = Misses(v)
    BY <2>1 DEF Waits, Misses
  <2>3. F' = F
    BY <2>1
  <2> QED
    BY <2>1, <2>2, <2>3, OneViewer DEF Buffer!vars
<1>2. CASE Offer(v) /\ Len(queue[v]) < Depth
  <2>1. /\ queue' = [queue EXCEPT ![v] = Append(queue[v], frame)] /\ dropped' = dropped
        /\ step = "offer" /\ target' = Nobody /\ step' = step
    BY <1>2 DEF Offer, Push, EnqueueReturns, counters
  <2>2. Waits(v) = queue[v] /\ Waits(v)' = Append(queue[v], frame) /\ Misses(v)' = Misses(v)
    BY <1>0, <2>1 DEF Waits, Misses
  <2>3. F = {} /\ F' = {}
    BY <2>1
  <2>4. /\ \A w \in Viewers \ {v} : Waits(w)' = Waits(w) /\ Misses(w)' = Misses(w)
        /\ last' = last /\ frame \in Frames
    BY <1>0, <2>1, OneViewer
  <2>5. B' = [B EXCEPT ![v] = Append(@, frame)] /\ M' = M
    BY <1>0, <2>2, <2>4
  <2>6. frame > Buffer!Newest(v)
    BY <1>0, <2>1, HeldIsNewest
  <2>7. Len(B[v]) < Depth
    BY <1>0, <1>2, <2>2
  <2>8. Buffer!Put(v)
    BY <2>3, <2>4, <2>5, <2>6, <2>7 DEF Buffer!Put
  <2> QED
    BY <1>0, <2>8 DEF Buffer!Next
<1>3. CASE Offer(v) /\ ~(Len(queue[v]) < Depth)
  <2>1. /\ UNCHANGED <<queue, dropped>> /\ step = "offer"
        /\ target' = target /\ step' = "evict"
    BY <1>3 DEF Offer, Goto, counters
  <2>2. Waits(v) = queue[v] /\ Waits(v)' = Waits(v) /\ Misses(v)' = Misses(v)
    BY <2>1 DEF Waits, Misses
  <2>3. F = {} /\ F' = {v}
    BY <1>0, <2>1
  <2>4. Len(queue[v]) = Depth
    BY <1>0, <1>3, QueueFacts, DepthAssumption
  <2>5. /\ B' = B /\ M' = M /\ last' = last
    BY <1>0, <2>1, <2>2, OneViewer
  <2>6. Len(B[v]) = Depth
    BY <1>0, <2>2, <2>4
  <2>7. Buffer!FindFull(v)
    BY <2>3, <2>5, <2>6 DEF Buffer!FindFull
  <2> QED
    BY <1>0, <2>7 DEF Buffer!Next
<1>4. CASE Evict(v)
  <2>1. /\ queue' = IF queue[v] = << >> THEN queue ELSE [queue EXCEPT ![v] = Tail(@)]
        /\ dropped' = dropped /\ step = "evict" /\ target' = target /\ step' = "again"
    BY <1>4 DEF Evict, Goto, counters
  <2>2. F = {v} /\ F' = {}
    BY <1>0, <2>1
  <2>3. /\ \A w \in Viewers \ {v} : Waits(w)' = Waits(w) /\ Misses(w)' = Misses(w)
        /\ last' = last /\ frame' = frame /\ frame \in Frames
    BY <1>0, <2>1, OneViewer
  <2>4. /\ Waits(v) = queue[v]
        /\ Waits(v)' = IF queue[v] = << >> THEN <<frame>> ELSE Append(Tail(queue[v]), frame)
    <3>1. CASE queue[v] = << >>
      <4>1. Append(queue[v], frame) = <<frame>>
        BY <3>1
      <4> QED
        BY <2>1, <2>3, <3>1, <4>1 DEF Waits
    <3>2. CASE queue[v] # << >>
      BY <1>0, <2>1, <2>3, <3>2 DEF Waits
    <3> QED
      BY <3>1, <3>2
  <2>5. Misses(v) = dropped[v] /\ Misses(v)' = dropped[v] + 1
    BY <2>1 DEF Misses
  <2>6. B' = [B EXCEPT ![v] = IF @ = << >> THEN <<frame>> ELSE Append(Tail(@), frame)]
    BY <1>0, <2>3, <2>4
  <2>7. M' = [M EXCEPT ![v] = @ + 1]
    BY <1>0, <2>3, <2>5
  <2>8. frame > Buffer!Newest(v)
    BY <1>0, <2>1, HeldIsNewest
  <2>9. Buffer!PutDropping(v)
    BY <2>2, <2>3, <2>6, <2>7, <2>8 DEF Buffer!PutDropping
  <2> QED
    BY <1>0, <2>9 DEF Buffer!Next
<1>5. CASE OfferAgain(v)
  <2>1. step = "again" /\ Len(queue[v]) < Depth
    BY <1>0, <1>5 DEF OfferAgain, IndInv, QueueState, Holding
  <2>2. /\ queue' = [queue EXCEPT ![v] = Append(queue[v], frame)] /\ dropped' = dropped
        /\ target' = target /\ step' = "count"
    BY <1>5, <2>1 DEF OfferAgain, Push, Goto, counters
  <2>3. Waits(v)' = Waits(v) /\ Misses(v)' = Misses(v)
    BY <1>0, <2>1, <2>2 DEF Waits, Misses
  <2>4. F = {} /\ F' = {}
    BY <2>1, <2>2
  <2> QED
    BY <1>0, <2>2, <2>3, <2>4, OneViewer DEF Buffer!vars
<1>6. CASE CountDrop(v)
  <2>1. /\ queue' = queue /\ dropped' = [dropped EXCEPT ![v] = @ + 1]
        /\ step = "count" /\ target' = Nobody /\ step' = step
    BY <1>6 DEF CountDrop, EnqueueReturns
  <2>2. Waits(v)' = Waits(v) /\ Misses(v)' = Misses(v)
    BY <1>0, <2>1 DEF Waits, Misses
  <2>3. F = {} /\ F' = {}
    BY <2>1
  <2> QED
    BY <1>0, <2>1, <2>2, <2>3, OneViewer DEF Buffer!vars
<1> QED
  BY <1>1, <1>2, <1>3, <1>4, <1>5, <1>6 DEF Enqueue

\* For any viewers, depth, bus and number of frames, enqueue and the writers together are
\* the atomic puts and takes of a buffer that drops its oldest frame.
THEOREM Refinement == Spec => ImplementsBuffer
<1>1. Init => Buffer!Init
  BY RefineInit
<1>2. IndInv /\ [Next]_vars => [Buffer!Next]_(Buffer!vars)
  <2> SUFFICES ASSUME IndInv, [Next]_vars
               PROVE  [Buffer!Next]_(Buffer!vars)
    OBVIOUS
  <2>1. CASE \/ Publish \/ Close \/ Receive \/ NextViewer \/ CallbackReturns \/ UNCHANGED vars
             \/ \E v \in Viewers : Viewer(v) /\ ~Take(v)
    BY <2>1, RefineWalk
  <2>2. ASSUME NEW v \in Viewers, Take(v)
        PROVE  [Buffer!Next]_(Buffer!vars)
    BY <2>2, RefineTake DEF Buffer!Next
  <2>3. CASE Enqueue
    <3>1. target \in Viewers
      BY <2>3 DEF Enqueue, IndInv, TypeOK
    <3> QED
      BY <2>3, <3>1, RefineEnqueue
  <2> QED
    BY <2>1, <2>2, <2>3 DEF Next, Callback, Viewer
<1> QED
  BY <1>1, <1>2, Inductive, PTL DEF Spec, ImplementsBuffer, Buffer!Spec
=============================================================================
