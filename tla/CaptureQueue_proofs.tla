------------------------ MODULE CaptureQueue_proofs ------------------------
(***************************************************************************)
(* Safety of the frame hand-off, for every number of buffers, slots and    *)
(* consumers: each buffer is in exactly one place, no consumer sleeps      *)
(* through a frame, and the ring implements a first-in first-out queue.    *)
(***************************************************************************)
EXTENDS CaptureQueue, FiniteSetTheorems, SequenceTheorems, TLAPS

USE DepthAssumption, BuffersAssumption, ConsumersAssumption

-----------------------------------------------------------------------------
(* Lemmas on the operators.                                                *)

\* Advancing a ring index wraps at the last slot.
LEMMA NextIndex ==
  \A i \in 0..(Depth - 1) : (i + 1) % Depth = IF i + 1 = Depth THEN 0 ELSE i + 1
  BY SMT

\* The consumers that have just taken a token are finitely many.
LEMMA WokenFinite == IsFiniteSet(Woken) /\ Cardinality(Woken) \in Nat
<1>1. Woken \subseteq Consumers
  BY DEF Woken
<1> QED
  BY <1>1, FS_Subset, FS_CardinalityType


\* The head of a non-empty ring is a slot in use.
LEMMA HeadInUse == TypeOK /\ RingShape /\ count > 0 => InUse(head)
  BY DEF TypeOK, RingShape, InUse

\* A push adds the tail slot, which was free, to the arc in use.
LEMMA PushArc ==
  ASSUME TypeOK, RingShape, Push
  PROVE  /\ RingShape'
         /\ ~InUse(tail)
         /\ \A i \in 0..(Depth - 1) : InUse(i)' <=> InUse(i) \/ i = tail
<1>1. tail' = IF tail + 1 = Depth THEN 0 ELSE tail + 1
  BY NextIndex DEF Push, TypeOK
<1>2. head' = head /\ count' = count + 1 /\ count < Depth
  BY DEF Push
<1>3. ~InUse(tail)
  BY <1>2 DEF TypeOK, RingShape, InUse
<1>4. RingShape'
  BY <1>1, <1>2 DEF TypeOK, RingShape
<1>5. \A i \in 0..(Depth - 1) : InUse(i)' <=> InUse(i) \/ i = tail
  BY <1>1, <1>2 DEF TypeOK, RingShape, InUse
<1> QED
  BY <1>3, <1>4, <1>5

\* A pop takes the head slot, and no other, out of the arc.
LEMMA PopArc ==
  ASSUME TypeOK, RingShape, NEW c \in Consumers, Pop(c)
  PROVE  /\ RingShape'
         /\ \A i \in 0..(Depth - 1) : InUse(i)' <=> InUse(i) /\ i # head
<1>1. head' = IF head + 1 = Depth THEN 0 ELSE head + 1
  BY NextIndex DEF Pop, TypeOK
<1>2. tail' = tail /\ count' = count - 1 /\ count > 0
  BY DEF Pop
<1>3. RingShape'
  BY <1>1, <1>2 DEF TypeOK, RingShape
<1>4. \A i \in 0..(Depth - 1) : InUse(i)' <=> InUse(i) /\ i # head
  BY <1>1, <1>2 DEF TypeOK, RingShape, InUse
<1> QED
  BY <1>3, <1>4

-----------------------------------------------------------------------------
(* The inductive invariant holds initially.                                *)

LEMMA IndInit == Init => IndInv
<1> SUFFICES ASSUME Init
             PROVE  IndInv
  OBVIOUS
<1>1. TypeOK /\ RingShape /\ HeldInUse /\ SlotsFilled
  BY DEF Init, TypeOK, RingShape, HeldInUse, SlotsFilled, InUse
<1>2. Ownership
  BY DEF Init, Ownership, Exclusive, NoLeak, Waiting, InHand, InUse
<1>3. TokenBalance
  BY WokenFinite DEF Init, TokenBalance
<1> QED
  BY <1>1, <1>2, <1>3 DEF IndInv

-----------------------------------------------------------------------------
(* The producer's steps preserve it.                                       *)

LEMMA FbGetInd ==
  ASSUME IndInv, NEW b \in Buffers, FbGet(b)
  PROVE  IndInv'
<1> USE DEF IndInv, FbGet, ring
<1>1. TypeOK'
  BY DEF TypeOK
<1>2. RingShape' /\ HeldInUse' /\ SlotsFilled'
  BY DEF RingShape, HeldInUse, SlotsFilled, InUse
<1>3. Exclusive'
  BY BuffersAssumption DEF Ownership, Exclusive, NoLeak, Waiting, InHand, InUse, TypeOK
<1>4. NoLeak'
  BY DEF Ownership, NoLeak, Waiting, InHand, InUse, TypeOK
<1>5. TokenBalance'
  BY DEF TokenBalance, Woken
<1> QED
  BY <1>1, <1>2, <1>3, <1>4, <1>5 DEF Ownership

LEMMA PushInd ==
  ASSUME IndInv, Push
  PROVE  IndInv'
<1> USE DEF IndInv
<1>1. TypeOK'
  <2>1. (tail + 1) % Depth \in 0..(Depth - 1)
    BY NextIndex DEF TypeOK
  <2> QED
    BY <2>1 DEF Push, TypeOK
<1>2. RingShape' /\ ~InUse(tail)
  BY PushArc
<1>3. \A i \in 0..(Depth - 1) : InUse(i)' <=> InUse(i) \/ i = tail
  BY PushArc
<1>4. \A i \in 0..(Depth - 1) : slots'[i] = IF i = tail THEN producer ELSE slots[i]
  BY DEF Push, TypeOK
<1>5. producer \in Buffers /\ producer # NoBuf /\ producer' = NoBuf /\ tail \in 0..(Depth - 1)
  BY DEF Push, TypeOK
<1>6. \A b \in Buffers : Waiting(b)' <=> Waiting(b) \/ b = producer
  BY <1>2, <1>3, <1>4, <1>5 DEF Waiting
<1>7. driver' = driver /\ held' = held /\ \A b : InHand(b)' <=> InHand(b)
  BY DEF Push, InHand
<1>8. Exclusive'
  <2>1. producer' \notin driver'
    BY <1>5, <1>7, BuffersAssumption DEF TypeOK
  <2>2. \A b \in Buffers : /\ Waiting(b)' => b \notin driver' /\ b # producer' /\ ~InHand(b)'
                           /\ InHand(b)' => b \notin driver' /\ b # producer'
    BY <1>5, <1>6, <1>7, BuffersAssumption DEF Ownership, Exclusive
  <2>3. \A i, j \in 0..(Depth - 1) :
          InUse(i)' /\ InUse(j)' /\ slots'[i] = slots'[j] => i = j
    <3>1. \A i \in 0..(Depth - 1) : InUse(i) => slots[i] # producer
      BY <1>5 DEF Ownership, Exclusive, Waiting
    <3> QED
      BY <1>3, <1>4, <3>1 DEF Ownership, Exclusive
  <2> QED
    BY <2>1, <2>2, <2>3, <1>7 DEF Ownership, Exclusive
<1>9. NoLeak'
  BY <1>6, <1>7 DEF Ownership, NoLeak
<1>10. HeldInUse'
  BY DEF Push, HeldInUse
<1>11. SlotsFilled'
  BY <1>3, <1>4, <1>5 DEF SlotsFilled
<1>12. TokenBalance'
  <2>1. Woken' = Woken
    BY DEF Push, Woken
  <2> QED
    BY <2>1, WokenFinite DEF Push, TokenBalance, TypeOK
<1> QED
  BY <1>1, <1>2, <1>8, <1>9, <1>10, <1>11, <1>12 DEF Ownership

LEMMA DropInd ==
  ASSUME IndInv, DropOnFull
  PROVE  IndInv'
<1> USE DEF IndInv, ring
<1>1. TypeOK'
  BY DEF DropOnFull, TypeOK
<1>2. RingShape' /\ HeldInUse' /\ SlotsFilled'
  BY DEF DropOnFull, RingShape, HeldInUse, SlotsFilled, InUse
<1>3. Exclusive'
  BY BuffersAssumption DEF DropOnFull, Ownership, Exclusive, NoLeak, Waiting, InHand, InUse, TypeOK
<1>4. NoLeak'
  BY DEF DropOnFull, Ownership, NoLeak, Waiting, InHand, InUse, TypeOK
<1>5. TokenBalance'
  BY DEF DropOnFull, TokenBalance, Woken
<1> QED
  BY <1>1, <1>2, <1>3, <1>4, <1>5 DEF Ownership

-----------------------------------------------------------------------------
(* The consumers' steps preserve it.                                       *)

\* A step that only moves c between the places where it owns no buffer, and
\* does not touch the ring, the driver or the producer, can only disturb the
\* balance of tokens.
LEMMA WaitingStepInd ==
  ASSUME IndInv, NEW c \in Consumers, NEW l \in {"idle", "check", "wait", "woken", "late"},
         pc[c] # "use",
         pc' = [pc EXCEPT ![c] = l],
         UNCHANGED <<driver, producer, ring, held>>,
         sem' \in 0..Depth,
         TokenBalance'
  PROVE  IndInv'
<1> USE DEF IndInv, ring
<1>1. TypeOK'
  BY DEF TypeOK
<1>2. RingShape' /\ SlotsFilled'
  BY DEF RingShape, SlotsFilled, InUse
<1>3. Exclusive' /\ NoLeak'
  BY DEF Ownership, Exclusive, NoLeak, Waiting, InHand, InUse
<1>4. HeldInUse'
  BY DEF HeldInUse, TypeOK
<1> QED
  BY <1>1, <1>2, <1>3, <1>4 DEF Ownership

LEMMA PopInd ==
  ASSUME IndInv, NEW c \in Consumers, Pop(c)
  PROVE  IndInv'
<1> USE DEF IndInv
<1> DEFINE b == slots[head]
<1>1. InUse(head) /\ head \in 0..(Depth - 1)
  BY HeadInUse DEF Pop, TypeOK
<1>2. b \in Buffers /\ b # NoBuf /\ Waiting(b)
  BY <1>1 DEF SlotsFilled, Waiting, TypeOK
<1>3. held[c] = NoBuf
  BY DEF Pop, Looking, HeldInUse, TypeOK
<1>4. \A d \in Consumers : held'[d] = IF d = c THEN b ELSE held[d]
  BY DEF Pop, TypeOK
<1>5. RingShape'
  BY PopArc
<1>6. \A i \in 0..(Depth - 1) : InUse(i)' <=> InUse(i) /\ i # head
  BY PopArc
<1>7. slots' = slots /\ driver' = driver /\ producer' = producer
  BY DEF Pop
<1>8. \A x \in Buffers : Waiting(x)' <=> Waiting(x) /\ x # b
  BY <1>1, <1>6, <1>7 DEF Waiting, Ownership, Exclusive
<1>9. \A x \in Buffers : InHand(x)' <=> InHand(x) \/ x = b
  BY <1>2, <1>3, <1>4, BuffersAssumption DEF InHand
<1>10. TypeOK'
  <2>1. (head + 1) % Depth \in 0..(Depth - 1)
    BY NextIndex DEF TypeOK
  <2>2. slots[head] \in Buffers \union {NoBuf}
    BY DEF TypeOK
  <2> QED
    BY <2>1, <2>2 DEF Pop, TypeOK
<1>11. Exclusive'
  <2>1. b \notin driver /\ b # producer /\ ~InHand(b)
    BY <1>2 DEF Ownership, Exclusive
  <2>2. \A x \in Buffers : /\ Waiting(x)' => x \notin driver' /\ x # producer' /\ ~InHand(x)'
                           /\ InHand(x)' => x \notin driver' /\ x # producer'
    BY <1>7, <1>8, <1>9, <2>1 DEF Ownership, Exclusive
  <2>3. \A i, j \in 0..(Depth - 1) :
          InUse(i)' /\ InUse(j)' /\ slots'[i] = slots'[j] => i = j
    BY <1>6, <1>7 DEF Ownership, Exclusive
  <2>4. \A d, e \in Consumers : held'[d] = held'[e] /\ held'[d] # NoBuf => d = e
    BY <1>4, <2>1 DEF Ownership, Exclusive, InHand
  <2> QED
    BY <1>7, <2>2, <2>3, <2>4 DEF Ownership, Exclusive
<1>12. NoLeak'
  BY <1>7, <1>8, <1>9 DEF Ownership, NoLeak
<1>13. HeldInUse'
  BY <1>2, <1>4 DEF Pop, HeldInUse, TypeOK
<1>14. SlotsFilled'
  BY <1>6, <1>7 DEF SlotsFilled
<1>15. TokenBalance'
  <2>1. CASE pc[c] = "woken"
    <3>1. c \in Woken /\ Woken' = Woken \ {c}
      BY <2>1 DEF Pop, Woken, TypeOK
    <3>2. Cardinality(Woken') = Cardinality(Woken) - 1
      BY <3>1, WokenFinite, FS_RemoveElement
    <3> QED
      BY <3>2, WokenFinite DEF Pop, TokenBalance, TypeOK
  <2>2. CASE pc[c] # "woken"
    <3>1. Woken' = Woken
      BY <2>2 DEF Pop, Woken, TypeOK
    <3> QED
      BY <3>1, WokenFinite DEF Pop, TokenBalance, TypeOK
  <2> QED
    BY <2>1, <2>2
<1> QED
  BY <1>5, <1>10, <1>11, <1>12, <1>13, <1>14, <1>15 DEF Ownership

\* Looking at an empty ring, waiting and timing out: no token is needed while
\* the ring is empty, and only Wake consumes one.
LEMMA LookInd ==
  ASSUME IndInv, NEW c \in Consumers,
         Call(c) \/ Block(c) \/ GiveUp(c) \/ Wake(c) \/ Timeout(c)
  PROVE  IndInv'
<1> USE DEF IndInv
<1>1. CASE Call(c) \/ Timeout(c)
  <2>1. Woken' = Woken
    BY <1>1 DEF Call, Timeout, Woken, TypeOK
  <2>2. TokenBalance' /\ sem' \in 0..Depth
    BY <1>1, <2>1 DEF Call, Timeout, TokenBalance, TypeOK, ring
  <2> QED
    BY <1>1, <2>2, WaitingStepInd DEF Call, Timeout
<1>2. CASE Block(c) \/ GiveUp(c)
  <2>1. count = 0 /\ count' = 0 /\ sem' = sem
    BY <1>2 DEF Block, GiveUp, ring
  <2>2. Woken' \subseteq Consumers /\ IsFiniteSet(Woken')
    <3>1. Woken' \subseteq Consumers
      BY DEF Woken
    <3> QED
      BY <3>1, FS_Subset
  <2>3. Cardinality(Woken') \in Nat
    BY <2>2, FS_CardinalityType
  <2>4. TokenBalance' /\ sem' \in 0..Depth
    BY <2>1, <2>3 DEF TokenBalance, TypeOK
  <2>5. pc[c] # "use"
    BY <1>2 DEF Block, GiveUp, Looking
  <2> QED
    BY <1>2, <2>4, <2>5, WaitingStepInd DEF Block, GiveUp
<1>3. CASE Wake(c)
  <2>1. c \notin Woken /\ Woken' = Woken \union {c}
    BY <1>3 DEF Wake, Woken, TypeOK
  <2>2. Cardinality(Woken') = Cardinality(Woken) + 1
    BY <2>1, WokenFinite, FS_AddElement
  <2>3. TokenBalance' /\ sem' \in 0..Depth
    BY <1>3, <2>2, WokenFinite DEF Wake, TokenBalance, TypeOK, ring
  <2> QED
    BY <1>3, <2>3, WaitingStepInd DEF Wake
<1> QED
  BY <1>1, <1>2, <1>3

LEMMA FbReturnInd ==
  ASSUME IndInv, NEW c \in Consumers, FbReturn(c)
  PROVE  IndInv'
<1> USE DEF IndInv
<1> DEFINE b == held[c]
<1>1. b \in Buffers /\ b # NoBuf
  BY DEF FbReturn, HeldInUse, TypeOK
<1>2. driver' = driver \union {b} /\ producer' = producer
  BY DEF FbReturn
<1>3. \A d \in Consumers : held'[d] = IF d = c THEN NoBuf ELSE held[d]
  BY DEF FbReturn, TypeOK
<1>4. UNCHANGED <<slots, head, tail, count, sem>>
  BY DEF FbReturn, ring
<1>5. \A x \in Buffers : Waiting(x)' <=> Waiting(x)
  BY <1>4 DEF Waiting, InUse
<1>6. \A x \in Buffers : InHand(x)' <=> InHand(x) /\ x # b
  BY <1>1, <1>3, BuffersAssumption DEF InHand, Ownership, Exclusive
<1>7. TypeOK'
  BY <1>1 DEF FbReturn, TypeOK, ring
<1>8. Exclusive'
  <2>1. InHand(b)
    BY DEF InHand
  <2>2. ~Waiting(b) /\ b # producer
    BY <1>1, <2>1 DEF Ownership, Exclusive
  <2>3. \A x \in Buffers : /\ Waiting(x)' => x \notin driver' /\ x # producer' /\ ~InHand(x)'
                           /\ InHand(x)' => x \notin driver' /\ x # producer'
    BY <1>2, <1>5, <1>6, <2>2 DEF Ownership, Exclusive
  <2>4. \A i, j \in 0..(Depth - 1) :
          InUse(i)' /\ InUse(j)' /\ slots'[i] = slots'[j] => i = j
    BY <1>4 DEF Ownership, Exclusive, InUse
  <2>5. \A d, e \in Consumers : held'[d] = held'[e] /\ held'[d] # NoBuf => d = e
    BY <1>3 DEF Ownership, Exclusive
  <2> QED
    BY <1>2, <2>2, <2>3, <2>4, <2>5 DEF Ownership, Exclusive
<1>9. NoLeak'
  BY <1>2, <1>5, <1>6 DEF Ownership, NoLeak
<1>10. RingShape' /\ SlotsFilled'
  BY <1>4 DEF RingShape, SlotsFilled, InUse
<1>11. HeldInUse'
  BY <1>3 DEF FbReturn, HeldInUse, TypeOK
<1>12. TokenBalance'
  <2>1. Woken' = Woken
    BY DEF FbReturn, Woken, TypeOK
  <2> QED
    BY <1>4, <2>1 DEF TokenBalance
<1> QED
  BY <1>7, <1>8, <1>9, <1>10, <1>11, <1>12 DEF Ownership

-----------------------------------------------------------------------------
(* The theorems.                                                           *)

LEMMA IndNext == IndInv /\ [Next]_vars => IndInv'
<1> SUFFICES ASSUME IndInv, [Next]_vars
             PROVE  IndInv'
  OBVIOUS
<1>1. ASSUME NEW b \in Buffers, FbGet(b) PROVE IndInv'
  BY <1>1, FbGetInd
<1>2. CASE Push
  BY <1>2, PushInd
<1>3. CASE DropOnFull
  BY <1>3, DropInd
<1>4. ASSUME NEW c \in Consumers, Call(c) \/ Resume(c) PROVE IndInv'
  BY <1>4, LookInd, PopInd, FbReturnInd DEF Resume
<1>5. CASE UNCHANGED vars
  BY <1>5 DEF vars, ring, IndInv, TypeOK, RingShape, Ownership, Exclusive,
              NoLeak, Waiting, InHand, InUse, HeldInUse, SlotsFilled, TokenBalance, Woken
<1> QED
  BY <1>1, <1>2, <1>3, <1>4, <1>5 DEF Next

LEMMA IndCorrect == Spec => []IndInv
  BY IndInit, IndNext, PTL DEF Spec

\* The variables keep their types: the ring never overfills, its indices never
\* leave it and the semaphore never exceeds its maximum.
THEOREM TypeCorrect == Spec => []TypeOK
<1>1. IndInv => TypeOK
  BY DEF IndInv
<1> QED
  BY IndCorrect, <1>1, PTL

\* Every frame buffer is in exactly one place, for any number of buffers, slots
\* and consumers: none leaks, none is returned twice, none has two owners.
THEOREM OwnershipCorrect == Spec => []Ownership
<1>1. IndInv => Ownership
  BY DEF IndInv
<1> QED
  BY IndCorrect, <1>1, PTL

\* A frame in the ring never coincides with a sleeping consumer unless a token
\* is pending or a woken consumer is on its way to the ring.
THEOREM WakeupCorrect == Spec => []NoLostWakeup
<1>1. IndInv => NoLostWakeup
  <2> SUFFICES ASSUME IndInv, count > 0, Woken = {}, sem = 0
               PROVE  FALSE
    BY DEF NoLostWakeup, IndInv, TypeOK
  <2>1. Cardinality(Woken) = 0
    BY FS_EmptySet
  <2> QED
    BY <2>1 DEF IndInv, TokenBalance, TypeOK
<1> QED
  BY IndCorrect, <1>1, PTL

-----------------------------------------------------------------------------
(* The ring implements the first-in first-out queue.                       *)

\* The i-th slot of the ring from its head, and the frames that wait, oldest first.
Slot(i) == (head + i - 1) % Depth
Frames  == [i \in 1..count |-> slots[Slot(i)]]

\* Slots are counted round the ring.
LEMMA SlotIndex ==
  \A h \in 0..(Depth - 1), i \in 1..(Depth + 1) :
    (h + i - 1) % Depth = IF h + i <= Depth THEN h + i - 1 ELSE h + i - 1 - Depth
  BY SMT

\* The first count slots from the head are those of the arc; the next is the tail.
LEMMA SlotInUse ==
  ASSUME TypeOK, RingShape
  PROVE  /\ \A i \in 1..count : Slot(i) \in 0..(Depth - 1) /\ InUse(Slot(i))
         /\ count < Depth => Slot(count + 1) = tail
         /\ count > 0 => Slot(1) = head
<1> USE DEF TypeOK, RingShape
<1>1. ASSUME NEW i \in 1..count PROVE Slot(i) \in 0..(Depth - 1) /\ InUse(Slot(i))
  <2>1. Slot(i) = IF head + i <= Depth THEN head + i - 1 ELSE head + i - 1 - Depth
    BY SlotIndex DEF Slot
  <2> QED
    BY <2>1 DEF InUse
<1>2. count < Depth => Slot(count + 1) = tail
  <2>1. Slot(count + 1) = IF head + count + 1 <= Depth THEN head + count ELSE head + count - Depth
    BY SlotIndex DEF Slot
  <2> QED
    BY <2>1
<1>3. count > 0 => Slot(1) = head
  BY SlotIndex DEF Slot
<1> QED
  BY <1>1, <1>2, <1>3

\* What waits is a sequence of frames, none of them NULL.
LEMMA FramesSeq == IndInv => Frames \in Seq(Buffers) /\ Len(Frames) = count
<1> SUFFICES ASSUME IndInv PROVE Frames \in Seq(Buffers) /\ Len(Frames) = count
  OBVIOUS
<1>1. \A i \in 1..count : slots[Slot(i)] \in Buffers
  BY SlotInUse DEF IndInv, SlotsFilled, TypeOK
<1>2. count \in Nat
  BY DEF IndInv, TypeOK
<1> QED
  BY <1>1, <1>2 DEF Frames

LEMMA RefineInit == Init => Fifo!Init
<1> SUFFICES ASSUME Init PROVE Fifo!Init
  OBVIOUS
<1>1. [i \in 1..count |-> slots[(head + i - 1) % Depth]] = << >>
  BY DEF Init
<1> QED
  BY <1>1 DEF Init, Fifo!Init

\* Frames are enqueued at the tail.
LEMMA RefinePush ==
  ASSUME IndInv, Push
  PROVE  Fifo!Enqueue
<1>1. /\ producer # NoBuf /\ producer \in Buffers /\ producer' = NoBuf
      /\ count < Depth /\ count' = count + 1 /\ head' = head /\ count \in Nat
      /\ driver' = driver /\ held' = held
  BY DEF Push, IndInv, TypeOK
<1>2. \A i \in 1..count : slots'[Slot(i)] = slots[Slot(i)]
  <2> TAKE i \in 1..count
  <2>1. Slot(i) \in 0..(Depth - 1) /\ Slot(i) # tail
    BY SlotInUse, PushArc DEF IndInv
  <2> QED
    BY <2>1 DEF Push, IndInv, TypeOK
<1>3. slots'[Slot(count + 1)] = producer
  <2>1. Slot(count + 1) = tail
    BY <1>1, SlotInUse DEF IndInv
  <2> QED
    BY <2>1 DEF Push, IndInv, TypeOK
<1>4. Frames \in Seq(Buffers) /\ Len(Frames) = count
  BY FramesSeq
<1>5. Frames' = Append(Frames, producer)
  <2>1. Frames' = [i \in 1..(count + 1) |-> slots'[Slot(i)]]
    BY <1>1 DEF Frames, Slot
  <2>2. /\ Append(Frames, producer) \in Seq(Buffers)
        /\ Len(Append(Frames, producer)) = count + 1
        /\ \A i \in 1..count : Append(Frames, producer)[i] = Frames[i]
        /\ Append(Frames, producer)[count + 1] = producer
    BY <1>1, <1>4, AppendProperties
  <2>3. \A i \in 1..(count + 1) : slots'[Slot(i)] = Append(Frames, producer)[i]
    BY <1>1, <1>2, <1>3, <2>2 DEF Frames
  <2>4. \A i \in 1..(count + 1) : slots'[Slot(i)] \in Buffers
    <3> TAKE i \in 1..(count + 1)
    <3>1. CASE i = count + 1
      BY <1>1, <1>3, <3>1
    <3>2. CASE i \in 1..count
      <4>1. slots'[Slot(i)] = slots[Slot(i)]
        BY <1>2, <3>2
      <4>2. Slot(i) \in 0..(Depth - 1) /\ InUse(Slot(i))
        BY <3>2, SlotInUse DEF IndInv
      <4> QED
        BY <4>1, <4>2 DEF IndInv, SlotsFilled, TypeOK
    <3> QED
      BY <1>1, <3>1, <3>2
  <2>5. Frames' \in Seq(Buffers) /\ Len(Frames') = count + 1
    BY <1>1, <2>1, <2>4
  <2>6. \A i \in 1..(count + 1) : Frames'[i] = Append(Frames, producer)[i]
    BY <2>1, <2>3
  <2> QED
    BY <2>2, <2>5, <2>6, SeqEqual
<1> QED
  BY <1>1, <1>4, <1>5 DEF Fifo!Enqueue, Frames, Slot

\* A consumer receives the oldest frame.
LEMMA RefinePop ==
  ASSUME IndInv, NEW c \in Consumers, Pop(c)
  PROVE  Fifo!Receive(c)
<1>1. /\ count > 0 /\ count' = count - 1 /\ count \in Nat /\ head \in 0..(Depth - 1)
      /\ held[c] = NoBuf /\ held' = [held EXCEPT ![c] = slots[head]]
      /\ UNCHANGED <<driver, producer, slots>>
  BY DEF Pop, Looking, HeldInUse, IndInv, TypeOK
<1>2. head' = IF head + 1 = Depth THEN 0 ELSE head + 1
  BY NextIndex DEF Pop, IndInv, TypeOK
<1>3. \A i \in 1..(count - 1) : Slot(i)' = Slot(i + 1)
  <2> TAKE i \in 1..(count - 1)
  <2>1. count <= Depth
    BY DEF IndInv, TypeOK
  <2>2. Slot(i + 1) = IF head + i + 1 <= Depth THEN head + i ELSE head + i - Depth
    BY <1>1, <2>1, SlotIndex DEF Slot
  <2>3. head' \in 0..(Depth - 1)
    BY <1>1, <1>2
  <2>4. Slot(i)' = IF head' + i <= Depth THEN head' + i - 1 ELSE head' + i - 1 - Depth
    <3>1. Slot(i)' = (head' + i - 1) % Depth
      BY DEF Slot
    <3>2. i \in 1..(Depth + 1)
      BY <1>1, <2>1
    <3> QED
      BY <2>3, <3>1, <3>2, SlotIndex
  <2> QED
    BY <1>1, <1>2, <2>1, <2>2, <2>4
<1>4. Frames \in Seq(Buffers) /\ Len(Frames) = count /\ Frames # << >>
  BY <1>1, FramesSeq
<1>5. Head(Frames) = slots[head]
  BY <1>1, <1>4, SlotInUse DEF Frames, IndInv
<1>6. Frames' = Tail(Frames)
  <2>1. Frames' = [i \in 1..(count - 1) |-> slots[Slot(i)']]
    BY <1>1 DEF Frames, Slot
  <2>2. \A i \in 1..(count - 1) : slots[Slot(i)'] = Frames[i + 1]
    BY <1>1, <1>3 DEF Frames
  <2>3. /\ Tail(Frames) \in Seq(Buffers) /\ Len(Tail(Frames)) = count - 1
        /\ \A i \in 1..(count - 1) : Tail(Frames)[i] = Frames[i + 1]
    BY <1>4, HeadTailProperties
  <2>4. \A i \in 1..(count - 1) : Frames[i + 1] \in Buffers
    BY <1>1, <1>4
  <2>5. Frames' \in Seq(Buffers) /\ Len(Frames') = count - 1
    BY <1>1, <2>1, <2>2, <2>4
  <2>6. \A i \in 1..(count - 1) : Frames'[i] = Tail(Frames)[i]
    BY <2>1, <2>2, <2>3
  <2> QED
    BY <2>3, <2>5, <2>6, SeqEqual
<1> QED
  BY <1>1, <1>4, <1>5, <1>6 DEF Fifo!Receive, Frames, Slot

\* A step that leaves the ring alone leaves what waits in it alone.
LEMMA FramesSame == UNCHANGED ring => Frames' = Frames
  BY DEF ring, Frames, Slot

LEMMA RefineGrab ==
  ASSUME IndInv, NEW b \in Buffers, FbGet(b)
  PROVE  Fifo!Grab(b)
  BY FramesSame DEF FbGet, Fifo!Grab, Frames, Slot

\* A full ring is a full queue.
LEMMA RefineDrop ==
  ASSUME IndInv, DropOnFull
  PROVE  Fifo!Drop
<1>1. Len(Frames) = Depth
  BY FramesSeq DEF DropOnFull, IndInv, TypeOK
<1> QED
  BY <1>1, FramesSame DEF DropOnFull, Fifo!Drop, Frames, Slot

LEMMA RefineRelease ==
  ASSUME IndInv, NEW c \in Consumers, FbReturn(c)
  PROVE  Fifo!Release(c)
<1>1. held[c] # NoBuf
  BY DEF FbReturn, IndInv, HeldInUse
<1> QED
  BY <1>1, FramesSame DEF FbReturn, Fifo!Release, Frames, Slot

\* Calling, waiting, waking and giving up move no frame.
LEMMA RefineQuiet ==
  ASSUME NEW c \in Consumers,
         Call(c) \/ Block(c) \/ GiveUp(c) \/ Wake(c) \/ Timeout(c)
  PROVE  UNCHANGED Fifo!vars
<1>1. UNCHANGED <<driver, producer, ring, held>>
  BY DEF Call, Block, GiveUp, Wake, Timeout
<1> QED
  BY <1>1, FramesSame DEF Fifo!vars, Frames, Slot

\* Whatever the time-outs, the stale tokens and the consumers that drain the
\* ring together, frames leave it in the order they came and each to one consumer.
THEOREM Refinement == Spec => ImplementsFifo
<1>1. Init => Fifo!Init
  BY RefineInit
<1>2. IndInv /\ [Next]_vars => [Fifo!Next]_(Fifo!vars)
  <2> SUFFICES ASSUME IndInv, [Next]_vars
               PROVE  [Fifo!Next]_(Fifo!vars)
    OBVIOUS
  <2>1. ASSUME NEW b \in Buffers, FbGet(b) PROVE Fifo!Next
    BY <2>1, RefineGrab DEF Fifo!Next
  <2>2. CASE Push
    BY <2>2, RefinePush DEF Fifo!Next
  <2>3. CASE DropOnFull
    BY <2>3, RefineDrop DEF Fifo!Next
  <2>4. ASSUME NEW c \in Consumers, Call(c) \/ Resume(c) PROVE [Fifo!Next]_(Fifo!vars)
    BY <2>4, RefinePop, RefineRelease, RefineQuiet DEF Resume, Fifo!Next
  <2>5. CASE UNCHANGED vars
    BY <2>5, FramesSame DEF vars, Fifo!vars, Frames, Slot
  <2> QED
    BY <2>1, <2>2, <2>3, <2>4, <2>5 DEF Next
<1> QED
  BY <1>1, <1>2, IndCorrect, PTL DEF Spec, ImplementsFifo, Fifo!Spec
=============================================================================
