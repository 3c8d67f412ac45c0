------------------------ MODULE ControlRouter_proofs ------------------------
(***************************************************************************)
(* The control dispatcher for every ring depth, heap, set of bodies and    *)
(* range of rates: each copy has one owner, no wake-up is lost, and the    *)
(* router implements the command line its header promises; what of this    *)
(* ends with a torn count, and what only with a late push, is in the       *)
(* properties themselves.                                                  *)
(***************************************************************************)
EXTENDS ControlRouter, SequenceTheorems, TLAPS

USE DepthAssumption, CellAssumption, FpsAssumption, CounterAssumption

-----------------------------------------------------------------------------
(* Lemmas on the ring.                                                     *)

\* Advancing a ring index wraps at the last slot.
LEMMA NextIndex ==
  \A i \in 0..(Depth - 1) : (i + 1) % Depth = IF i + 1 = Depth THEN 0 ELSE i + 1
  BY SMT

\* A copy waits when some slot of the arc holds it.
LEMMA WaitingMember ==
  \A c : c \in Waiting <=> \E i \in 0..(Depth - 1) : InUse(i) /\ slots[i] = c
  BY DEF Waiting

\* The same in the next state.
LEMMA WaitingMemberNext ==
  \A c : c \in Waiting' <=> \E i \in 0..(Depth - 1) : InUse(i)' /\ slots'[i] = c
  BY DEF Waiting

\* A push adds the tail slot, which was free, to the arc in use.
LEMMA EnqueueArc ==
  ASSUME TypeOK, RingShape, count < Depth, head' = head, Enqueue(count + 1)
  PROVE  /\ RingShape'
         /\ tail' \in 0..(Depth - 1)
         /\ ~InUse(tail)
         /\ \A i \in 0..(Depth - 1) : InUse(i)' <=> InUse(i) \/ i = tail
<1>1. tail' = IF tail + 1 = Depth THEN 0 ELSE tail + 1
  BY NextIndex DEF Enqueue, TypeOK
<1>2. head' = head /\ count' = count + 1 /\ count < Depth
  BY DEF Enqueue
<1>3. ~InUse(tail)
  BY <1>2 DEF TypeOK, RingShape, InUse
<1>4. RingShape' /\ tail' \in 0..(Depth - 1)
  BY <1>1, <1>2 DEF TypeOK, RingShape
<1>5. \A i \in 0..(Depth - 1) : InUse(i)' <=> InUse(i) \/ i = tail
  BY <1>1, <1>2 DEF TypeOK, RingShape, InUse
<1> QED
  BY <1>3, <1>4, <1>5

\* A pop takes the head slot, and no other, out of the arc.
LEMMA PopArc ==
  ASSUME TypeOK, RingShape, Pop
  PROVE  /\ RingShape'
         /\ head' \in 0..(Depth - 1)
         /\ InUse(head)
         /\ \A i \in 0..(Depth - 1) : InUse(i)' <=> InUse(i) /\ i # head
<1>1. head' = IF head + 1 = Depth THEN 0 ELSE head + 1
  BY NextIndex DEF Pop, Dequeue, TypeOK
<1>2. tail' = tail /\ count' = count - 1 /\ count > 0
  BY DEF Pop, Dequeue
<1>3. RingShape' /\ head' \in 0..(Depth - 1)
  BY <1>1, <1>2 DEF TypeOK, RingShape
<1>4. InUse(head)
  BY <1>2 DEF TypeOK, RingShape, InUse
<1>5. \A i \in 0..(Depth - 1) : InUse(i)' <=> InUse(i) /\ i # head
  BY <1>1, <1>2 DEF TypeOK, RingShape, InUse
<1> QED
  BY <1>3, <1>4, <1>5

\* A step that leaves the ring alone leaves what waits in it alone.
LEMMA RingStutter ==
  ASSUME UNCHANGED ring
  PROVE  /\ RingShape' <=> RingShape
         /\ Waiting' = Waiting
         /\ \A i : InUse(i)' <=> InUse(i)
  BY DEF ring, RingShape, Waiting, InUse

-----------------------------------------------------------------------------
(* Typing, and the conjuncts of the invariant that hold whatever the count *)
(* has come to.                                                            *)

LEMMA IndInit == Init => IndInv
<1> SUFFICES ASSUME Init
             PROVE  IndInv
  OBVIOUS
<1>1. TypeOK
  <2>1. /\ body \in [Cells -> Bodies \union {NoBody}]
        /\ slots \in [0..(Depth - 1) -> Cells \union {NoCell}]
    BY DEF Init
  <2>2. 0 \in 0..(Depth - 1) /\ 0 \in 0..Depth /\ 0 \in 0..(CounterMod - 1)
    OBVIOUS
  <2> QED
    BY <2>1, <2>2 DEF Init, TypeOK
<1>2. Waiting = {}
  BY DEF Init, Waiting, InUse
<1>3. OneHand
  BY <1>2 DEF Init, OneHand, InUse
<1>4. RingShape /\ LiveBodies
  BY DEF Init, RingShape, LiveBodies, InUse
<1>5. Owning /\ Room /\ NoLostWakeup
  BY DEF Init, Owning, Room, NoLostWakeup
<1> QED
  BY <1>1, <1>3, <1>4, <1>5 DEF IndInv, Sound

\* A push of any kind keeps the ring well typed.
LEMMA EnqueueType ==
  ASSUME TypeOK, NEW n \in 0..Depth, Enqueue(n)
  PROVE  /\ slots' \in [0..(Depth - 1) -> Cells \union {NoCell}]
         /\ tail' \in 0..(Depth - 1) /\ count' \in 0..Depth /\ copy' = NoCell
<1>1. tail' \in 0..(Depth - 1)
  BY NextIndex DEF TypeOK, Enqueue
<1> QED
  BY <1>1 DEF TypeOK, Enqueue

\* A pop keeps it so, whether or not a push runs into it.
LEMMA DequeueType ==
  ASSUME TypeOK, Dequeue
  PROVE  head' \in 0..(Depth - 1) /\ frame' \in Cells \union {NoCell} /\ pc' = "route"
<1>1. head' \in 0..(Depth - 1)
  BY NextIndex DEF TypeOK, Dequeue
<1> QED
  BY <1>1 DEF TypeOK, Dequeue

LEMMA TypeHttpd ==
  ASSUME TypeOK, Room, Httpd
  PROVE  TypeOK'
<1>1. ASSUME NEW b \in Bodies, Ingest(b) PROVE TypeOK'
  <2>1. malloc \in Cells
    BY <1>1 DEF Ingest, malloc, TypeOK
  <2> DEFINE m == malloc
  <2>2. /\ heap' = heap \union {m} /\ copy' = m /\ body' = [body EXCEPT ![m] = b]
        /\ UNCHANGED <<sending, seen, ring, sem, dropped, boot, race, task>>
    BY <1>1 DEF Ingest
  <2> HIDE DEF m
  <2> QED
    BY <2>1, <2>2 DEF TypeOK, ring, boot, race, task, m
<1>2. CASE Oversize
  BY <1>2 DEF Oversize, TypeOK, memory, worker, ring, boot, race, task
<1>3. CASE Push
  <2>1. count + 1 \in 0..Depth /\ Enqueue(count + 1)
    BY <1>3 DEF Push, TypeOK
  <2> QED
    BY <1>3, <2>1, EnqueueType DEF Push, TypeOK, memory, boot, race, task
<1>4. CASE PushUnlocked
  <2>1. PICK n \in (count + 1)..(seen + 1) : Enqueue(n) /\ torn' = (torn \/ n # count + 1)
    BY <1>4 DEF PushUnlocked
  <2>2. n \in 0..Depth
    BY <1>4, <2>1 DEF PushUnlocked, Room, TypeOK
  <2>3. 0 \in 0..Depth
    OBVIOUS
  <2>4. torn' \in BOOLEAN
    BY <2>1 DEF TypeOK
  <2>5. /\ UNCHANGED <<heap, body, head, sem, dropped, started, registered, pc, frame, fps>>
        /\ late' \in BOOLEAN /\ sending' = "no" /\ seen' = 0
    BY <1>4 DEF PushUnlocked, memory, boot, task
  <2> QED
    BY <2>1, <2>2, <2>3, <2>4, <2>5, EnqueueType DEF TypeOK
<1>5. CASE SkipLock \/ CheckRoom
  BY <1>5 DEF SkipLock, CheckRoom, TypeOK, memory, ring, boot, race, task
<1>6. CASE Refuse
  <2>1. dropped' \in 0..(CounterMod - 1)
    BY <1>6 DEF Refuse, TypeOK
  <2> QED
    BY <1>6, <2>1 DEF Refuse, TypeOK, ring, boot, race, task
<1> QED
  BY <1>1, <1>2, <1>3, <1>4, <1>5, <1>6 DEF Httpd, Submit

LEMMA TypeControl ==
  ASSUME TypeOK, Room, Control
  PROVE  TypeOK'
<1>1. CASE Pop
  BY <1>1, DequeueType DEF Pop, Dequeue, TypeOK, memory, worker, boot, race
<1>2. CASE PopUnderPush
  <2>1. count - 1 \in 0..Depth /\ Enqueue(count - 1) /\ Dequeue
    BY <1>2 DEF PopUnderPush, Dequeue, TypeOK
  <2>2. 0 \in 0..Depth
    OBVIOUS
  <2>3. /\ UNCHANGED <<heap, body, sem, dropped, started, registered, fps>>
        /\ late' = TRUE /\ torn' = TRUE /\ sending' = "no" /\ seen' = 0
    BY <1>2 DEF PopUnderPush, memory, boot
  <2> QED
    BY <2>1, <2>2, <2>3, EnqueueType, DequeueType DEF TypeOK
<1>3. CASE Serve
  <2>1. fps' \in FpsMin..FpsMax
    <3>1. CASE \E r \in FpsMin..FpsMax : Head(todo) = GateOpen(r)
      <4>1. PICK r \in FpsMin..FpsMax : Head(todo) = GateOpen(r)
        BY <3>1
      <4>2. Head(todo).fps = r
        BY <4>1 DEF GateOpen
      <4> QED
        BY <1>3, <3>1, <4>2 DEF Serve
    <3>2. CASE ~\E r \in FpsMin..FpsMax : Head(todo) = GateOpen(r)
      BY <1>3, <3>2 DEF Serve, TypeOK
    <3> QED
      BY <3>1, <3>2
  <2> QED
    BY <1>3, <2>1 DEF Serve, TypeOK, memory, worker, ring, boot, race
<1>4. CASE Wake
  BY <1>4 DEF Wake, TypeOK, memory, worker, ring, boot, race
<1>5. CASE Block \/ Timeout \/ Route
  BY <1>5 DEF Block, Timeout, Route, TypeOK, memory, worker, ring, boot, race
<1>6. CASE FreeFrame
  BY <1>6 DEF FreeFrame, TypeOK, worker, ring, boot, race
<1> QED
  BY <1>1, <1>2, <1>3, <1>4, <1>5, <1>6 DEF Control

LEMMA TypeNext == TypeOK /\ Room /\ [Next]_vars => TypeOK'
<1>1. TypeOK /\ Boot => TypeOK'
  BY DEF Boot, Start, Register, TypeOK, memory, worker, ring, race, task
<1>2. TypeOK /\ UNCHANGED vars => TypeOK'
  BY DEF vars, TypeOK, memory, worker, ring, boot, race, task
<1> QED
  BY <1>1, <1>2, TypeHttpd, TypeControl DEF Next

\* Past the check of an unlocked push the count only falls, until it is stored.
LEMMA RoomNext == TypeOK /\ Room /\ [Next]_vars => Room'
<1> SUFFICES ASSUME TypeOK, Room, [Next]_vars PROVE Room'
  OBVIOUS
<1>1. CASE Pop
  BY <1>1 DEF Pop, Dequeue, Room, TypeOK, worker
<1>2. CASE PopUnderPush \/ PushUnlocked \/ Refuse \/ SkipLock
  BY <1>2 DEF PopUnderPush, PushUnlocked, Refuse, SkipLock, Room
<1>3. CASE CheckRoom
  BY <1>3 DEF CheckRoom, Room, TypeOK, ring
<1>4. CASE Push
  BY <1>4 DEF Push, Locked, Room
<1>5. CASE Oversize \/ Start \/ Register \/ Block \/ Wake \/ Timeout \/ Route \/ Serve
             \/ FreeFrame \/ UNCHANGED vars
  BY <1>5 DEF Oversize, Start, Register, Block, Wake, Timeout, Route, Serve, FreeFrame, vars,
              Room, worker, ring
<1>6. ASSUME NEW b \in Bodies, Ingest(b) PROVE Room'
  BY <1>6 DEF Ingest, Room, ring
<1> QED
  BY <1>1, <1>2, <1>3, <1>4, <1>5, <1>6 DEF Next, Httpd, Submit, Control, Boot

\* Only finding the ring empty sends the task to sleep, and from then on a push
\* gives a token or is late.
LEMMA WakeNext == TypeOK /\ NoLostWakeup /\ [Next]_vars => NoLostWakeup'
<1> SUFFICES ASSUME TypeOK, NoLostWakeup, [Next]_vars PROVE NoLostWakeup'
  OBVIOUS
<1>1. CASE Push
  BY <1>1 DEF Push, NoLostWakeup, TypeOK
<1>2. CASE PushUnlocked
  BY <1>2 DEF PushUnlocked, NoLostWakeup
<1>3. CASE Pop \/ PopUnderPush \/ Wake \/ Timeout \/ Route \/ FreeFrame
  BY <1>3 DEF Pop, PopUnderPush, Dequeue, Wake, Timeout, Route, FreeFrame, NoLostWakeup
<1>4. CASE Block
  BY <1>4 DEF Block, NoLostWakeup, ring
<1>5. CASE Oversize \/ SkipLock \/ CheckRoom \/ Refuse \/ Start \/ Register \/ Serve
             \/ UNCHANGED vars
  BY <1>5 DEF Oversize, SkipLock, CheckRoom, Refuse, Start, Register, Serve, vars,
              NoLostWakeup, ring, race, task
<1>6. ASSUME NEW b \in Bodies, Ingest(b) PROVE NoLostWakeup'
  BY <1>6 DEF Ingest, NoLostWakeup, ring, race, task
<1> QED
  BY <1>1, <1>2, <1>3, <1>4, <1>5, <1>6 DEF Next, Httpd, Submit, Control, Boot

-----------------------------------------------------------------------------
(* The conjuncts that hold until the count is torn.                        *)

LEMMA IngestSound ==
  ASSUME TypeOK, Sound, NEW b \in Bodies, Ingest(b)
  PROVE  Sound'
<1> USE DEF Sound
<1>1. malloc \in Cells /\ malloc \notin heap
  BY DEF Ingest, malloc, TypeOK
<1> DEFINE m == malloc
<1>2. heap' = heap \union {m} /\ copy' = m /\ copy = NoCell /\ body' = [body EXCEPT ![m] = b]
  BY DEF Ingest
<1>3. UNCHANGED <<sending, seen, ring, sem, dropped, boot, race, task>>
  BY DEF Ingest
<1>4. RingShape' /\ Waiting' = Waiting /\ \A i : InUse(i)' <=> InUse(i)
  BY <1>3, RingStutter
<1> HIDE DEF m
<1>5. OneHand'
  <2>1. m # NoCell /\ m \notin Waiting /\ m # frame
    BY <1>1 DEF OneHand, m
  <2> QED
    BY <1>2, <1>3, <1>4, <2>1 DEF OneHand, ring, task
<1>6. LiveBodies'
  BY <1>1, <1>2, <1>3, <1>4 DEF LiveBodies, ring, TypeOK, m
<1>7. Owning'
  BY <1>2, <1>3 DEF Owning, task
<1> QED
  BY <1>4, <1>5, <1>6, <1>7

\* A push that counts what it pushes.
LEMMA EnqueueSound ==
  ASSUME TypeOK, Sound, copy # NoCell, count < Depth, Enqueue(count + 1), sending' = "no",
         UNCHANGED <<memory, head, task>>
  PROVE  Sound'
<1> USE DEF Sound
<1>1. /\ RingShape' /\ tail' \in 0..(Depth - 1) /\ ~InUse(tail)
      /\ \A i \in 0..(Depth - 1) : InUse(i)' <=> InUse(i) \/ i = tail
  BY EnqueueArc
<1>2. copy \in Cells /\ copy # NoCell /\ copy' = NoCell /\ tail \in 0..(Depth - 1)
  BY DEF Enqueue, TypeOK
<1>3. \A i \in 0..(Depth - 1) : slots'[i] = IF i = tail THEN copy ELSE slots[i]
  BY DEF Enqueue, TypeOK
<1>4. UNCHANGED <<heap, body, head, pc, frame, todo, fps>>
  BY DEF memory, task
<1>5. Waiting' = Waiting \union {copy}
  BY <1>1, <1>2, <1>3, WaitingMember, WaitingMemberNext
<1>6. OneHand'
  <2>1. \A i \in 0..(Depth - 1) : InUse(i) => slots[i] # copy
    BY WaitingMember DEF OneHand
  <2>2. \A i, j \in 0..(Depth - 1) : InUse(i)' /\ InUse(j)' /\ slots'[i] = slots'[j] => i = j
    BY <1>1, <1>3, <2>1 DEF OneHand
  <2>3. NoCell \notin Waiting'
    BY <1>2, <1>5, WaitingMember DEF LiveBodies
  <2> QED
    BY <1>2, <1>4, <1>5, <2>2, <2>3 DEF OneHand
<1>7. LiveBodies'
  BY <1>1, <1>2, <1>3, <1>4 DEF LiveBodies
<1>8. Owning'
  BY <1>4 DEF Owning
<1> QED
  BY <1>1, <1>6, <1>7, <1>8

LEMMA PushSound ==
  ASSUME TypeOK, Room, Sound, Push \/ PushUnlocked, ~torn'
  PROVE  Sound'
<1>1. CASE Push
  BY <1>1, EnqueueSound DEF Push, Locked
<1>2. CASE PushUnlocked
  <2>1. Enqueue(count + 1)
    BY <1>2 DEF PushUnlocked
  <2>2. copy # NoCell /\ count < Depth
    BY <1>2 DEF PushUnlocked, Sound, Owning, Room, TypeOK
  <2> QED
    BY <1>2, <2>1, <2>2, EnqueueSound DEF PushUnlocked
<1> QED
  BY <1>1, <1>2

LEMMA RefuseSound ==
  ASSUME TypeOK, Sound, Refuse
  PROVE  Sound'
<1> USE DEF Sound
<1>1. copy \in Cells /\ copy # NoCell /\ copy' = NoCell /\ sending' = "no"
  BY DEF Refuse, Locked, Owning, TypeOK
<1>2. heap' = heap \ {copy} /\ body' = [body EXCEPT ![copy] = NoBody]
  BY DEF Refuse
<1>3. UNCHANGED <<ring, task>>
  BY DEF Refuse
<1>4. RingShape' /\ Waiting' = Waiting /\ \A i : InUse(i)' <=> InUse(i)
  BY <1>3, RingStutter
<1>5. NoCell \notin Waiting
  BY WaitingMember DEF LiveBodies
<1>6. OneHand'
  BY <1>1, <1>2, <1>3, <1>4, <1>5 DEF OneHand, ring, task
<1>7. LiveBodies'
  BY <1>1, <1>2, <1>3, <1>4 DEF LiveBodies, ring, TypeOK
<1>8. Owning'
  BY <1>1, <1>3 DEF Owning, task
<1> QED
  BY <1>4, <1>6, <1>7, <1>8

LEMMA PopSound ==
  ASSUME TypeOK, Sound, Pop
  PROVE  Sound'
<1> USE DEF Sound
<1> DEFINE c == slots[head]
<1>1. /\ RingShape' /\ head' \in 0..(Depth - 1) /\ InUse(head)
      /\ \A i \in 0..(Depth - 1) : InUse(i)' <=> InUse(i) /\ i # head
  BY PopArc
<1>2. head \in 0..(Depth - 1) /\ c \in Cells /\ c # NoCell
  BY <1>1 DEF TypeOK, LiveBodies
<1>3. UNCHANGED <<heap, body, copy, sending, slots, tail, todo>>
  BY DEF Pop, memory, worker
<1>4. frame' = c /\ frame = NoCell /\ pc' = "route" /\ pc = "receive"
  BY DEF Pop, Dequeue, Owning
<1>5. Waiting' = Waiting \ {c}
  BY <1>1, <1>2, <1>3, WaitingMember, WaitingMemberNext DEF OneHand
<1>6. OneHand'
  <2>1. c \in Waiting
    BY <1>1, <1>2, WaitingMember
  <2>2. \A i, j \in 0..(Depth - 1) : InUse(i)' /\ InUse(j)' /\ slots'[i] = slots'[j] => i = j
    BY <1>1, <1>3 DEF OneHand
  <2> QED
    BY <1>2, <1>3, <1>4, <1>5, <2>1, <2>2 DEF OneHand
<1>7. LiveBodies'
  BY <1>1, <1>3 DEF LiveBodies
<1>8. Owning'
  BY <1>2, <1>3, <1>4 DEF Owning
<1> QED
  BY <1>1, <1>6, <1>7, <1>8

LEMMA FreeSound ==
  ASSUME TypeOK, Sound, FreeFrame
  PROVE  Sound'
<1> USE DEF Sound
<1>1. frame \in Cells /\ frame # NoCell /\ frame' = NoCell
  BY DEF FreeFrame, Owning, TypeOK
<1>2. heap' = heap \ {frame} /\ body' = [body EXCEPT ![frame] = NoBody]
  BY DEF FreeFrame
<1>3. UNCHANGED <<worker, ring, todo>>
  BY DEF FreeFrame
<1>4. RingShape' /\ Waiting' = Waiting /\ \A i : InUse(i)' <=> InUse(i)
  BY <1>3, RingStutter
<1>5. NoCell \notin Waiting
  BY WaitingMember DEF LiveBodies
<1>6. OneHand'
  BY <1>1, <1>2, <1>3, <1>4, <1>5 DEF OneHand, ring, worker
<1>7. LiveBodies'
  BY <1>1, <1>2, <1>3, <1>4 DEF LiveBodies, ring, TypeOK
<1>8. Owning'
  BY <1>1, <1>3 DEF FreeFrame, Owning, worker
<1> QED
  BY <1>4, <1>6, <1>7, <1>8

\* The other steps move neither a copy nor the ring.
LEMMA QuietSound ==
  ASSUME TypeOK, Sound,
         Oversize \/ SkipLock \/ CheckRoom \/ Start \/ Register \/ Block \/ Wake \/ Timeout
           \/ Route \/ Serve \/ UNCHANGED vars
  PROVE  Sound'
<1> USE DEF Sound
<1>1. UNCHANGED <<heap, body, copy, ring, frame>>
  BY DEF Oversize, SkipLock, CheckRoom, Start, Register, Block, Wake, Timeout, Route, Serve,
         vars, memory, worker, task
<1>2. RingShape' /\ Waiting' = Waiting /\ \A i : InUse(i)' <=> InUse(i)
  BY <1>1, RingStutter
<1>3. OneHand' /\ LiveBodies'
  BY <1>1, <1>2 DEF OneHand, LiveBodies, ring
<1>4. Owning'
  <2>1. CASE SkipLock \/ CheckRoom
    BY <1>1, <2>1 DEF Owning, SkipLock, CheckRoom, task
  <2>2. CASE ~(SkipLock \/ CheckRoom)
    BY <1>1, <2>2 DEF Owning, Oversize, Start, Register, Block, Wake, Timeout, Route, Serve,
                      vars, worker, task
  <2> QED
    BY <2>1, <2>2
<1> QED
  BY <1>2, <1>3, <1>4

\* A step that does not tear the count finds it untorn.
LEMMA TornStays == [Next]_vars /\ ~torn' => ~torn
  BY DEF Next, Httpd, Submit, Control, Boot, Ingest, Oversize, Push, SkipLock, CheckRoom,
         PushUnlocked, Refuse, Pop, PopUnderPush, Block, Wake, Timeout, Route, Serve, FreeFrame,
         Start, Register, vars, race

LEMMA SoundNext == TypeOK /\ Room /\ Sound /\ [Next]_vars /\ ~torn' => Sound'
<1>1. PopUnderPush => torn'
  BY DEF PopUnderPush
<1> QED
  BY <1>1, IngestSound, PushSound, RefuseSound, PopSound, FreeSound, QuietSound
     DEF Next, Httpd, Submit, Control, Boot

LEMMA IndNext == IndInv /\ [Next]_vars => IndInv'
  BY TypeNext, RoomNext, WakeNext, SoundNext, TornStays DEF IndInv

LEMMA IndCorrect == Spec => []IndInv
  BY IndInit, IndNext, PTL DEF Spec

-----------------------------------------------------------------------------
(* The safety theorems.                                                    *)

\* The ring never overfills, its indices never leave it, the semaphore never
\* exceeds its maximum and the applied rate never leaves the Kconfig range.
THEOREM TypeCorrect == Spec => []TypeOK
<1>1. IndInv => TypeOK
  BY DEF IndInv
<1> QED
  BY IndCorrect, <1>1, PTL

\* Every heap copy has exactly one owner until it is freed, which is once, up to
\* the accident that tears the ring's count.
THEOREM FreedCorrect == Spec => []FreedOnce
<1>1. IndInv => FreedOnce
  BY DEF IndInv, FreedOnce, Sound
<1> QED
  BY IndCorrect, <1>1, PTL

\* The control task never sleeps beside a frame without a token to wake it, in
\* any order of boot's steps and the worker's, torn count or not, except after an
\* unlocked push that ended behind the task's last look at the ring.
THEOREM WakeupCorrect == Spec => []NoLostWakeup
<1>1. IndInv => NoLostWakeup
  BY DEF IndInv
<1> QED
  BY IndCorrect, <1>1, PTL

-----------------------------------------------------------------------------
(* The router implements the command line.                                 *)

\* The i-th slot of the ring from its head, and what it says.
Slot(i) == (head + i - 1) % Depth
W == [i \in 1..count |-> body[slots[Slot(i)]]]

\* Slots are counted round the ring.
LEMMA SlotIndex ==
  \A h \in 0..(Depth - 1), i \in 1..(Depth + 1) :
    (h + i - 1) % Depth = IF h + i <= Depth THEN h + i - 1 ELSE h + i - 1 - Depth
  BY SMT

\* The first count slots from the head are those of the arc; the next is the tail.
LEMMA SlotInUse ==
  ASSUME TypeOK, RingShape
  PROVE  /\ \A i \in 1..count : Slot(i) \in 0..(Depth - 1) /\ InUse(Slot(i))
         /\ count < Depth => Slot(count + 1) = tail
         /\ count > 0 => Slot(1) = head
<1> USE DEF TypeOK, RingShape
<1>1. ASSUME NEW i \in 1..count PROVE Slot(i) \in 0..(Depth - 1) /\ InUse(Slot(i))
  <2>1. Slot(i) = IF head + i <= Depth THEN head + i - 1 ELSE head + i - 1 - Depth
    BY SlotIndex DEF Slot
  <2> QED
    BY <2>1 DEF InUse
<1>2. count < Depth => Slot(count + 1) = tail
  <2>1. Slot(count + 1) = IF head + count + 1 <= Depth THEN head + count ELSE head + count - Depth
    BY SlotIndex DEF Slot
  <2> QED
    BY <2>1
<1>3. count > 0 => Slot(1) = head
  BY SlotIndex DEF Slot
<1> QED
  BY <1>1, <1>2, <1>3

\* What waits is a sequence of bodies.
LEMMA WaitingSeq == TypeOK /\ Sound => W \in Seq(Bodies) /\ Len(W) = count
<1> SUFFICES ASSUME TypeOK, Sound PROVE W \in Seq(Bodies) /\ Len(W) = count
  OBVIOUS
<1>1. \A i \in 1..count : body[slots[Slot(i)]] \in Bodies
  <2> TAKE i \in 1..count
  <2>1. slots[Slot(i)] \in Waiting
    BY SlotInUse, WaitingMember DEF Sound
  <2>2. slots[Slot(i)] \in Cells
    BY SlotInUse DEF Sound, LiveBodies
  <2> QED
    BY <2>1, <2>2, CellAssumption DEF Sound, OneHand, LiveBodies
<1>2. count \in Nat
  BY DEF Sound, TypeOK
<1> QED
  BY <1>1, <1>2 DEF W

\* A copy that does not wait can change without changing what waits.
LEMMA WaitingSame ==
  ASSUME TypeOK, Sound, UNCHANGED ring, NEW c \in Cells \ Waiting, NEW v,
         body' = [body EXCEPT ![c] = v]
  PROVE  W' = W
<1>1. \A i \in 1..count : slots[Slot(i)] \in Cells /\ slots[Slot(i)] # c
  <2> TAKE i \in 1..count
  <2>1. slots[Slot(i)] \in Waiting
    BY SlotInUse, WaitingMember DEF Sound
  <2> QED
    BY <2>1, SlotInUse DEF Sound, LiveBodies
<1>2. \A i \in 1..count : body'[slots[Slot(i)]] = body[slots[Slot(i)]]
  BY <1>1 DEF Sound, TypeOK
<1>3. count' = count /\ slots' = slots /\ \A i : Slot(i)' = Slot(i)
  BY DEF ring, Slot
<1> QED
  BY <1>2, <1>3 DEF W

\* What the httpd worker offers, and what the control task serves.
Offered == IF copy = NoCell THEN NoBody ELSE body[copy]
Serving == IF frame = NoCell THEN NoBody ELSE body[frame]

LEMMA RefineInit == Init => Line!Init
<1> SUFFICES ASSUME Init PROVE Line!Init
  OBVIOUS
<1>1. [i \in 1..count |-> body[slots[(head + i - 1) % Depth]]] = << >>
  BY DEF Init
<1> QED
  BY <1>1 DEF Init, Line!Init

LEMMA RefineIngest ==
  ASSUME TypeOK, Sound, NEW b \in Bodies, Ingest(b)
  PROVE  Line!Offer(b)
<1>1. malloc \in Cells /\ malloc \notin heap
  BY DEF Ingest, malloc, Sound, TypeOK
<1> DEFINE m == malloc
<1>2. /\ copy = NoCell /\ copy' = m /\ body' = [body EXCEPT ![m] = b]
      /\ UNCHANGED <<sending, seen, ring, sem, dropped, boot, race, task>>
  BY DEF Ingest
<1> HIDE DEF m
<1>3. m \in Cells /\ m \notin Waiting /\ m # NoCell /\ m # frame
  BY <1>1 DEF Sound, OneHand, m
<1>4. W' = W
  BY <1>2, <1>3, WaitingSame
<1>5. Serving' = Serving
  BY <1>2, <1>3 DEF Serving, Sound, TypeOK, task
<1>6. Offered = NoBody /\ Offered' = b
  BY <1>2, <1>3 DEF Offered, Sound, TypeOK
<1>7. pc' = pc /\ todo' = todo /\ fps' = fps /\ registered' = registered /\ dropped' = dropped
  BY <1>2 DEF task, boot
<1> QED
  BY <1>4, <1>5, <1>6, <1>7 DEF Line!Offer, Offered, Serving, W, Slot

LEMMA RefineRefuse ==
  ASSUME TypeOK, Sound, Refuse
  PROVE  Line!Refuse
<1>1. /\ copy \in Cells /\ copy # NoCell /\ copy' = NoCell
      /\ body' = [body EXCEPT ![copy] = NoBody]
      /\ UNCHANGED <<ring, sem, boot, task>> /\ dropped' = (dropped + 1) % CounterMod
  BY DEF Refuse, Locked, Sound, Owning, TypeOK
<1>2. copy \notin Waiting /\ copy # frame
  BY <1>1 DEF Sound, OneHand
<1>3. W' = W
  BY <1>1, <1>2, WaitingSame
<1>4. Len(W) = Depth
  BY WaitingSeq DEF Refuse, Sound, TypeOK
<1>5. Serving' = Serving
  BY <1>1, <1>2 DEF Serving, Sound, TypeOK, task
<1>6. Offered # NoBody /\ Offered' = NoBody
  <2>1. body[copy] \in Bodies
    BY <1>1 DEF Sound, OneHand, LiveBodies
  <2> QED
    BY <1>1, <2>1 DEF Offered
<1>7. pc' = pc /\ todo' = todo /\ fps' = fps /\ registered' = registered
  BY <1>1 DEF task, boot
<1> QED
  BY <1>1, <1>3, <1>4, <1>5, <1>6, <1>7 DEF Line!Refuse, Offered, Serving, W, Slot

\* A push that counts what it pushes accepts the frame.
LEMMA RefineEnqueue ==
  ASSUME TypeOK, Sound, copy # NoCell, count < Depth, Enqueue(count + 1),
         UNCHANGED <<memory, head, dropped, boot, task>>
  PROVE  Line!Accept
<1>1. /\ copy \in Cells /\ copy # NoCell /\ copy' = NoCell
      /\ count < Depth /\ count' = count + 1 /\ head' = head /\ count \in Nat
      /\ UNCHANGED <<memory, dropped, boot, task>>
  BY DEF Enqueue, TypeOK
<1>2. \A i \in 1..count : slots'[Slot(i)] = slots[Slot(i)]
  <2> TAKE i \in 1..count
  <2>1. Slot(i) \in 0..(Depth - 1) /\ Slot(i) # tail
    BY SlotInUse, EnqueueArc DEF Sound
  <2> QED
    BY <2>1 DEF Enqueue, TypeOK
<1>3. slots'[Slot(count + 1)] = copy
  <2>1. Slot(count + 1) = tail
    BY <1>1, SlotInUse DEF Sound
  <2> QED
    BY <2>1 DEF Enqueue, TypeOK
<1>4. W' = Append(W, body[copy])
  <2>1. W' = [i \in 1..(count + 1) |-> body[slots'[Slot(i)]]]
    BY <1>1 DEF W, Slot, memory
  <2>2. W \in Seq(Bodies) /\ Len(W) = count
    BY WaitingSeq
  <2>3. Append(W, body[copy]) = [i \in 1..(count + 1) |-> IF i = count + 1 THEN body[copy] ELSE W[i]]
    BY <2>2
  <2>4. \A i \in 1..(count + 1) :
           body[slots'[Slot(i)]] = IF i = count + 1 THEN body[copy] ELSE W[i]
    BY <1>1, <1>2, <1>3 DEF W
  <2> QED
    BY <2>1, <2>3, <2>4
<1>5. Len(W) < Depth
  BY <1>1, WaitingSeq
<1>6. Serving' = Serving
  BY <1>1 DEF Serving, memory, task
<1>7. Offered = body[copy] /\ Offered # NoBody /\ Offered' = NoBody
  <2>1. body[copy] \in Bodies
    BY <1>1 DEF Sound, OneHand, LiveBodies
  <2> QED
    BY <1>1, <2>1 DEF Offered
<1>8. pc' = pc /\ todo' = todo /\ fps' = fps /\ registered' = registered /\ dropped' = dropped
  BY <1>1 DEF task, boot
<1>9. W' = Append(W, Offered)
  BY <1>4, <1>7
<1> QED
  BY <1>5, <1>6, <1>7, <1>8, <1>9 DEF Line!Accept, Offered, Serving, W, Slot

LEMMA RefinePush ==
  ASSUME TypeOK, Room, Sound, Push \/ PushUnlocked, ~torn'
  PROVE  Line!Accept
<1>1. CASE Push
  BY <1>1, RefineEnqueue DEF Push, Locked
<1>2. CASE PushUnlocked
  <2>1. Enqueue(count + 1)
    BY <1>2 DEF PushUnlocked
  <2>2. copy # NoCell /\ count < Depth
    BY <1>2 DEF PushUnlocked, Sound, Owning, Room, TypeOK
  <2> QED
    BY <1>2, <2>1, <2>2, RefineEnqueue DEF PushUnlocked
<1> QED
  BY <1>1, <1>2

LEMMA RefinePop ==
  ASSUME TypeOK, Sound, Pop
  PROVE  Line!Take
<1>1. /\ count > 0 /\ count' = count - 1 /\ count \in Nat /\ head \in 0..(Depth - 1)
      /\ frame = NoCell /\ frame' = slots[head] /\ pc = "receive" /\ pc' = "route"
      /\ UNCHANGED <<memory, copy, slots, tail, dropped, boot, todo, fps>>
  BY DEF Pop, Dequeue, Sound, TypeOK, Owning, worker
<1>2. head' = IF head + 1 = Depth THEN 0 ELSE head + 1
  BY NextIndex DEF Pop, Dequeue, TypeOK
<1>3. \A i \in 1..(count - 1) : Slot(i)' = Slot(i + 1)
  <2> TAKE i \in 1..(count - 1)
  <2>1. count <= Depth
    BY DEF Sound, TypeOK
  <2>2. Slot(i + 1) = IF head + i + 1 <= Depth THEN head + i ELSE head + i - Depth
    BY <1>1, <2>1, SlotIndex DEF Slot
  <2>3. head' \in 0..(Depth - 1)
    BY <1>1, <1>2
  <2>4. Slot(i)' = IF head' + i <= Depth THEN head' + i - 1 ELSE head' + i - 1 - Depth
    <3>1. Slot(i)' = (head' + i - 1) % Depth
      BY DEF Slot
    <3>2. i \in 1..(Depth + 1)
      BY <1>1, <2>1
    <3> QED
      BY <2>3, <3>1, <3>2, SlotIndex
  <2> QED
    BY <1>1, <1>2, <2>1, <2>2, <2>4
<1>4. Slot(1) = head
  BY <1>1, SlotInUse DEF Sound
<1>5. slots[head] \in Cells /\ slots[head] # NoCell
  BY <1>1, PopArc DEF Sound, LiveBodies
<1>6. W \in Seq(Bodies) /\ Len(W) = count /\ W # << >>
  BY <1>1, WaitingSeq
<1>7. Head(W) = body[slots[head]]
  BY <1>1, <1>4, <1>6 DEF W
<1>8. W' = Tail(W)
  <2>1. W' = [i \in 1..(count - 1) |-> body[slots[Slot(i)']]]
    BY <1>1 DEF W, Slot, memory
  <2>2. \A i \in 1..(count - 1) : body[slots[Slot(i)']] = W[i + 1]
    BY <1>1, <1>3 DEF W
  <2>3. /\ Tail(W) \in Seq(Bodies) /\ Len(Tail(W)) = count - 1
        /\ \A i \in 1..(count - 1) : Tail(W)[i] = W[i + 1]
    BY <1>6, HeadTailProperties
  <2>4. \A i \in 1..(count - 1) : W[i + 1] \in Bodies
    BY <1>1, <1>6
  <2>5. W' \in Seq(Bodies) /\ Len(W') = count - 1
    BY <1>1, <2>1, <2>2, <2>4
  <2>6. \A i \in 1..(count - 1) : W'[i] = Tail(W)[i]
    BY <2>1, <2>2, <2>3
  <2> QED
    BY <2>3, <2>5, <2>6, SeqEqual
<1>9. Serving = NoBody /\ Serving' = Head(W)
  BY <1>1, <1>5, <1>7 DEF Serving, memory
<1>10. Offered' = Offered
  BY <1>1 DEF Offered, memory
<1>11. registered' = registered /\ (pc = "serve") = FALSE /\ (pc' = "serve") = FALSE
  BY <1>1 DEF boot
<1> QED
  BY <1>1, <1>6, <1>8, <1>9, <1>10, <1>11 DEF Line!Take, Offered, Serving, W, Slot

\* Every sequence of replies and gate changes the router can make of a body is
\* one the header promises.
LEMMA ScriptsRight ==
  ASSUME TypeOK, NEW b \in Bodies, NEW s \in Scripts(b)
  PROVE  Line!Right(b, s)
<1> USE MarkAssumption, BodyAssumption
<1>1. \A r : Envelope(r, b) = Line!Error(r, b)
  BY DEF Envelope, Line!Error
<1>2. CASE b.json = "broken"
  <2>1. s = <<Envelope("bad_json", b)>>
    BY <1>2 DEF Scripts
  <2> QED
    BY <1>1, <1>2, <2>1 DEF Line!Right
<1>3. CASE b.json # "broken" /\ (b.json = "array" \/ b.cmd \notin k_allow_list)
  <2>1. s = <<Envelope("unknown", b)>>
    BY <1>3 DEF Scripts
  <2>2. ~Line!Listed(b)
    BY <1>3 DEF Line!Listed, Line!Commands, k_allow_list
  <2> QED
    BY <1>1, <1>3, <2>1, <2>2 DEF Line!Right
<1>4. CASE b.json = "object" /\ b.cmd \in k_allow_list /\ ~(b.cmd = "stream" /\ registered)
  BY <1>1, <1>4 DEF Scripts, Line!Right, Line!Listed, Line!Handled, Line!Commands, k_allow_list
<1>5. CASE b.json = "object" /\ b.cmd = "stream" /\ registered
  <2>1. Line!Handled(b)
    BY <1>5 DEF Line!Handled, Line!Listed, Line!Commands
  <2>2. s \in StreamScripts(b)
    BY <1>5 DEF Scripts, k_allow_list
  <2>3. PICK ok \in RateOk(b) :
          s \in IF b.on \notin {"true", "false"} \/ ~ok THEN {<<Envelope("bad_field", b)>>}
                ELSE IF b.on = "true"
                THEN {<<Envelope("no_viewer", b)>>}
                       \union {<<Acked(TRUE, r), GateOpen(r)>> : r \in Rates(b)}
                ELSE {<<GateClosed, Acked(FALSE, fps)>>}
    BY <2>2 DEF StreamScripts
  <2>4. CASE b.on \notin {"true", "false"} \/ ~ok
    <3>1. b.fps = Huge \/ ~(Line!Starts(b) \/ Line!Stops(b))
      BY <2>4 DEF RateOk, Line!Starts, Line!Stops
    <3> QED
      BY <1>1, <2>1, <2>3, <2>4, <3>1 DEF Line!Right
  <2>5. CASE b.on = "true" /\ ok
    <3>1. Line!Starts(b)
      BY <2>1, <2>3, <2>5 DEF RateOk, Line!Starts
    <3>2. \A r \in Rates(b) : r \in FpsMin..FpsMax /\ Line!Applies(b, r)
      BY <3>1 DEF Rates, capture_fps_clamp, Line!Applies, Line!Starts
    <3>3. \A r : Acked(TRUE, r) = Line!Ack(TRUE, r) /\ GateOpen(r) = Line!Open(r)
      BY DEF Acked, GateOpen, Line!Ack, Line!Open
    <3> QED
      BY <1>1, <2>3, <2>5, <3>1, <3>2, <3>3 DEF Line!Right
  <2>6. CASE b.on = "false" /\ ok
    <3>1. Line!Stops(b)
      BY <2>1, <2>3, <2>6 DEF RateOk, Line!Stops
    <3>2. GateClosed = Line!Close /\ Acked(FALSE, fps) = Line!Ack(FALSE, fps)
      BY DEF GateClosed, Acked, Line!Close, Line!Ack
    <3> QED
      BY <2>3, <2>6, <3>1, <3>2 DEF Line!Right
  <2> QED
    BY <2>4, <2>5, <2>6
<1> QED
  BY <1>2, <1>3, <1>4, <1>5

LEMMA RefineRoute ==
  ASSUME TypeOK, Sound, Route
  PROVE  Line!Judge
<1>1. /\ pc = "route" /\ pc' = "serve" /\ todo' \in Scripts(body[frame])
      /\ UNCHANGED <<memory, copy, ring, dropped, boot, frame, fps>>
  BY DEF Route, worker
<1>2. frame # NoCell /\ body[frame] \in Bodies
  BY <1>1 DEF Sound, TypeOK, Owning, OneHand, LiveBodies
<1>3. Line!Right(Serving, todo')
  BY <1>1, <1>2, ScriptsRight DEF Serving, Sound
<1>4. Serving # NoBody /\ Serving' = Serving /\ Offered' = Offered
  BY <1>1, <1>2 DEF Serving, Offered, memory
<1>5. W' = W
  BY <1>1 DEF W, Slot, ring, memory
<1>6. registered' = registered /\ fps' = fps /\ dropped' = dropped
  BY <1>1 DEF boot
<1> QED
  BY <1>1, <1>3, <1>4, <1>5, <1>6 DEF Line!Judge, Offered, Serving, W, Slot

LEMMA RefineServe ==
  ASSUME TypeOK, Sound, Serve
  PROVE  Line!Do
<1>1. W' = W /\ Serving' = Serving /\ Offered' = Offered
  BY DEF Serve, W, Slot, Serving, Offered, worker, ring, memory
<1>2. pc' = pc /\ registered' = registered /\ dropped' = dropped
  BY DEF Serve, boot
<1>3. fps' = IF \E f \in FpsMin..FpsMax : Head(todo) = Line!Open(f) THEN Head(todo).fps ELSE fps
  BY DEF Serve, GateOpen, Line!Open
<1>4. todo # << >> /\ todo' = Tail(todo)
  BY DEF Serve
<1> QED
  BY <1>1, <1>2, <1>3, <1>4 DEF Line!Do, Offered, Serving, W, Slot

LEMMA RefineFree ==
  ASSUME TypeOK, Sound, FreeFrame
  PROVE  Line!Finish
<1>1. /\ frame \in Cells /\ frame # NoCell /\ frame' = NoCell
      /\ body' = [body EXCEPT ![frame] = NoBody]
      /\ pc = "serve" /\ pc' = "receive" /\ todo = << >>
      /\ UNCHANGED <<copy, ring, dropped, boot, todo, fps>>
  BY DEF FreeFrame, Sound, TypeOK, Owning, worker
<1>2. frame \notin Waiting /\ frame # copy
  BY <1>1 DEF Sound, OneHand
<1>3. W' = W
  BY <1>1, <1>2, WaitingSame
<1>4. Serving' = NoBody /\ Offered' = Offered
  BY <1>1, <1>2 DEF Serving, Offered, Sound, TypeOK
<1>5. registered' = registered /\ fps' = fps /\ dropped' = dropped
  BY <1>1 DEF boot
<1> QED
  BY <1>1, <1>3, <1>4, <1>5 DEF Line!Finish, Offered, Serving, W, Slot

\* Registering the handler and the drop of an oversize frame are steps of the
\* line; starting the task, its waits and wake-ups, and the first steps of an
\* unlocked push are not.
LEMMA RefineQuiet ==
  ASSUME TypeOK, Sound,
         Oversize \/ SkipLock \/ CheckRoom \/ Start \/ Register \/ Block \/ Wake \/ Timeout
           \/ UNCHANGED vars
  PROVE  Line!Oversize \/ Line!Enable \/ UNCHANGED Line!vars
<1>1. W' = W /\ Serving' = Serving /\ Offered' = Offered
  BY DEF Oversize, SkipLock, CheckRoom, Start, Register, Block, Wake, Timeout, vars, W, Slot,
         Serving, Offered, worker, ring, memory, task
<1>2. todo' = todo /\ fps' = fps /\ (pc' = "serve") = (pc = "serve")
  BY DEF Oversize, SkipLock, CheckRoom, Start, Register, Block, Wake, Timeout, vars, task
<1>3. CASE Oversize
  <2>1. Offered = NoBody /\ dropped' = (dropped + 1) % CounterMod /\ registered' = registered
    BY <1>3 DEF Oversize, Offered, boot
  <2> QED
    BY <1>1, <1>2, <2>1 DEF Line!Oversize, Offered, Serving, W, Slot
<1>4. CASE Register
  <2>1. registered' = TRUE /\ dropped' = dropped
    BY <1>4 DEF Register
  <2> QED
    BY <1>1, <1>2, <2>1 DEF Line!Enable, Offered, Serving, W, Slot
<1>5. CASE SkipLock \/ CheckRoom \/ Start \/ Block \/ Wake \/ Timeout \/ UNCHANGED vars
  <2>1. registered' = registered /\ dropped' = dropped
    BY <1>5 DEF SkipLock, CheckRoom, Start, Block, Wake, Timeout, vars, boot
  <2> QED
    BY <1>1, <1>2, <2>1 DEF Line!vars, Offered, Serving, W, Slot
<1> QED
  BY <1>3, <1>4, <1>5

\* Whatever the frames, the ring depth and the interleaving, the router serves
\* its line as the header promises: once, in order, rightly, each refusal counted;
\* all of it until the ring's count is torn.
THEOREM Refinement == Spec => ImplementsLine
<1>1. Init => Line!Init
  BY RefineInit
<1>2. IndInv /\ [Next]_vars => [torn' \/ Line!Next]_(Line!vars)
  <2> SUFFICES ASSUME TypeOK, Room, Sound, [Next]_vars, ~torn'
               PROVE  [Line!Next]_(Line!vars)
    BY TornStays DEF IndInv
  <2>1. ~PopUnderPush
    BY DEF PopUnderPush
  <2> QED
    BY <2>1, RefineIngest, RefineRefuse, RefinePush, RefinePop, RefineRoute, RefineServe,
       RefineFree, RefineQuiet
       DEF Next, Httpd, Submit, Control, Boot, Line!Next
<1> QED
  BY <1>1, <1>2, IndCorrect, PTL DEF Spec, ImplementsLine
=============================================================================
