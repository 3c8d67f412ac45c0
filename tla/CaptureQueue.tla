---------------------------- MODULE CaptureQueue ----------------------------
(***************************************************************************)
(* The frame hand-off of the firmware: the capture task takes buffers from *)
(* the camera driver and pushes them on a ring of Depth slots              *)
(* (capture.c); the stream task (stream.c) and the /snapshot handler in    *)
(* the httpd worker (softap_handlers.c) both pop from it and give the      *)
(* buffer back to the driver.  The ring is guarded by a mutex; a counting  *)
(* semaphore stands in for a condition variable, and a consumer may pop    *)
(* without taking its token, so tokens and frames drift apart.             *)
(*                                                                         *)
(* This is the device build (FreeRTOS) of the queue.  A critical section   *)
(* under the mutex is one action.                                          *)
(***************************************************************************)
EXTENDS Integers, FiniteSets

CONSTANTS Buffers,     \* frame buffers of the driver (fb_count)
          Consumers,   \* the stream task and the /snapshot handler
          Loopers,     \* the consumers that call receive again and again
          Depth,       \* MOCK_CAPTURE_QUEUE_DEPTH
          NoBuf        \* NULL

ASSUME DepthAssumption == Depth \in Nat \ {0}
ASSUME BuffersAssumption == NoBuf \notin Buffers
ASSUME ConsumersAssumption == IsFiniteSet(Consumers)
ASSUME LoopersAssumption == Loopers \subseteq Consumers

VARIABLES
  driver,      \* buffers owned by the camera driver
  producer,    \* the capture task's local fb, between fb_get and the push
  slots, head, tail, count,   \* capture_queue_t
  sem,         \* g_queue_sem_handle: its count, at most Depth
  pc,          \* pc[c]: where consumer c is in capture_queue_receive_timeout
  held         \* held[c]: the buffer c owns, or NoBuf

ring == <<slots, head, tail, count>>
vars == <<driver, producer, ring, sem, pc, held>>

Init ==
  /\ driver = Buffers
  /\ producer = NoBuf
  /\ slots = [i \in 0..(Depth - 1) |-> NoBuf]
  /\ head = 0 /\ tail = 0 /\ count = 0
  /\ sem = 0
  /\ pc = [c \in Consumers |-> "idle"]
  /\ held = [c \in Consumers |-> NoBuf]

-----------------------------------------------------------------------------
(* The capture task: one pass of capture_loop_iteration.                   *)

\* esp_camera_fb_get: a driver with no free buffer returns NULL and the pass
\* ends, which changes nothing.
FbGet(b) ==
  /\ producer = NoBuf
  /\ b \in driver
  /\ driver' = driver \ {b}
  /\ producer' = b
  /\ UNCHANGED <<ring, sem, pc, held>>

\* Fault: a push that does not signal.
PushUnsignalled ==
  /\ producer # NoBuf
  /\ count < Depth
  /\ slots' = [slots EXCEPT ![tail] = producer]
  /\ tail' = (tail + 1) % Depth
  /\ count' = count + 1
  /\ producer' = NoBuf
  /\ UNCHANGED <<driver, head, sem, pc, held>>

\* xSemaphoreGive on a full counting semaphore fails and is ignored.
Push ==
  /\ producer # NoBuf
  /\ count < Depth
  /\ slots' = [slots EXCEPT ![tail] = producer]
  /\ tail' = (tail + 1) % Depth
  /\ count' = count + 1
  /\ sem' = IF sem < Depth THEN sem + 1 ELSE sem
  /\ producer' = NoBuf
  /\ UNCHANGED <<driver, head, pc, held>>

\* Fault: a frame dropped on a full ring is not returned to the driver.
DropAndForget ==
  /\ producer # NoBuf
  /\ count >= Depth
  /\ producer' = NoBuf
  /\ UNCHANGED <<driver, ring, sem, pc, held>>

\* Queue full: the frame goes straight back to the driver.
DropOnFull ==
  /\ producer # NoBuf
  /\ count >= Depth
  /\ driver' = driver \union {producer}
  /\ producer' = NoBuf
  /\ UNCHANGED <<ring, sem, pc, held>>

-----------------------------------------------------------------------------
(* A consumer: capture_queue_receive_timeout, then the frame's use.        *)
(* "check": about to look at the ring for the first time; "wait": blocked  *)
(* on the semaphore; "woken": has taken a token; "late": the wait timed    *)
(* out, one last look; "use": owns a frame.                                *)

Looking == {"check", "woken", "late"}

Call(c) ==
  /\ pc[c] = "idle"
  /\ pc' = [pc EXCEPT ![c] = "check"]
  /\ UNCHANGED <<driver, producer, ring, sem, held>>

\* Fault: the newest frame is popped instead of the oldest.
PopNewest(c) ==
  /\ pc[c] \in Looking
  /\ count > 0
  /\ tail' = (tail + Depth - 1) % Depth
  /\ held' = [held EXCEPT ![c] = slots[tail']]
  /\ count' = count - 1
  /\ pc' = [pc EXCEPT ![c] = "use"]
  /\ UNCHANGED <<driver, producer, slots, head, sem>>

\* queue_pop_unsafe, under the mutex.  The popped slot keeps its pointer.
Pop(c) ==
  /\ pc[c] \in Looking
  /\ count > 0
  /\ held' = [held EXCEPT ![c] = slots[head]]
  /\ head' = (head + 1) % Depth
  /\ count' = count - 1
  /\ pc' = [pc EXCEPT ![c] = "use"]
  /\ UNCHANGED <<driver, producer, slots, tail, sem>>

\* Empty ring: wait on the semaphore while the deadline is ahead ...
Block(c) ==
  /\ pc[c] \in {"check", "woken"}
  /\ count = 0
  /\ pc' = [pc EXCEPT ![c] = "wait"]
  /\ UNCHANGED <<driver, producer, ring, sem, held>>

\* ... and give up once it is behind.
GiveUp(c) ==
  /\ pc[c] \in Looking
  /\ count = 0
  /\ pc' = [pc EXCEPT ![c] = "idle"]
  /\ UNCHANGED <<driver, producer, ring, sem, held>>

Wake(c) ==
  /\ pc[c] = "wait"
  /\ sem > 0
  /\ sem' = sem - 1
  /\ pc' = [pc EXCEPT ![c] = "woken"]
  /\ UNCHANGED <<driver, producer, ring, held>>

Timeout(c) ==
  /\ pc[c] = "wait"
  /\ pc' = [pc EXCEPT ![c] = "late"]
  /\ UNCHANGED <<driver, producer, ring, sem, held>>

\* Fault: only a successful send gives the buffer back.
FbReturnOnSuccess(c) ==
  /\ pc[c] = "use"
  /\ driver' \in {driver, driver \union {held[c]}}
  /\ held' = [held EXCEPT ![c] = NoBuf]
  /\ pc' = [pc EXCEPT ![c] = "idle"]
  /\ UNCHANGED <<producer, ring, sem>>

\* The frame was sent, or the send failed; either way esp_camera_fb_return.
FbReturn(c) ==
  /\ pc[c] = "use"
  /\ driver' = driver \union {held[c]}
  /\ held' = [held EXCEPT ![c] = NoBuf]
  /\ pc' = [pc EXCEPT ![c] = "idle"]
  /\ UNCHANGED <<producer, ring, sem>>

-----------------------------------------------------------------------------
Resume(c) == Pop(c) \/ Block(c) \/ GiveUp(c) \/ Wake(c) \/ Timeout(c) \/ FbReturn(c)

Next == \/ \E b \in Buffers : FbGet(b)
        \/ Push
        \/ DropOnFull
        \/ \E c \in Consumers : Call(c) \/ Resume(c)

\* Tasks of one priority are time-sliced and every wait is bounded, so a
\* consumer that is inside a call goes on; the stream task calls again for
\* ever (stream_task_entry), a /snapshot request may never come.  The capture
\* task finishes an iteration it began.
Fairness == /\ WF_vars(Push \/ DropOnFull)
            /\ \A c \in Consumers : WF_vars(Resume(c))
            /\ \A c \in Loopers : WF_vars(Call(c))

Spec     == Init /\ [][Next]_vars
FairSpec == Spec /\ Fairness

-----------------------------------------------------------------------------
(* Properties                                                              *)

TypeOK ==
  /\ driver \in SUBSET Buffers
  /\ producer \in Buffers \union {NoBuf}
  /\ slots \in [0..(Depth - 1) -> Buffers \union {NoBuf}]
  /\ head \in 0..(Depth - 1)
  /\ tail \in 0..(Depth - 1)
  /\ count \in 0..Depth
  /\ sem \in 0..Depth
  /\ pc \in [Consumers -> {"idle", "check", "wait", "woken", "late", "use"}]
  /\ held \in [Consumers -> Buffers \union {NoBuf}]

\* head, tail and count describe one arc of the ring.
RingShape ==
  count = IF head < tail THEN tail - head
          ELSE IF tail < head THEN Depth - head + tail
          ELSE IF count = 0 THEN 0 ELSE Depth

InUse(i) == /\ count > 0
            /\ IF head < tail THEN head <= i /\ i < tail
                              ELSE head <= i \/ i < tail

Waiting(b) == \E i \in 0..(Depth - 1) : InUse(i) /\ slots[i] = b

InHand(b) == \E c \in Consumers : held[c] = b

\* A buffer is never in two places at once ...
Exclusive ==
  /\ producer \notin driver
  /\ \A b \in Buffers :
       /\ Waiting(b) => b \notin driver /\ b # producer /\ ~InHand(b)
       /\ InHand(b) => b \notin driver /\ b # producer
  /\ \A i, j \in 0..(Depth - 1) :
       InUse(i) /\ InUse(j) /\ slots[i] = slots[j] => i = j
  /\ \A c, d \in Consumers : held[c] = held[d] /\ held[c] # NoBuf => c = d

\* ... and never nowhere.
NoLeak == \A b \in Buffers : b \in driver \/ b = producer \/ Waiting(b) \/ InHand(b)

\* Every frame buffer is in exactly one place: with the driver, with the
\* producer, in the ring or with one consumer.  So esp_camera_fb_return runs
\* exactly once per esp_camera_fb_get (capture.h, transfer at receive), also
\* when /snapshot and the stream task drain the ring together.
Ownership == Exclusive /\ NoLeak

Woken == {c \in Consumers : pc[c] = "woken"}

\* A consumer never sleeps on the semaphore beside a waiting frame with nobody
\* on the way to it: popping without taking a token, stale tokens and failed
\* gives never cost a wake-up (capture.c, counting semaphore as condvar).
NoLostWakeup ==
  count > 0 /\ (\E c \in Consumers : pc[c] = "wait") => sem > 0 \/ Woken # {}

\* What makes the above inductive: a consumer has a buffer exactly while it
\* uses one, a slot in use has a frame, and there are at least as many tokens,
\* pending or just taken, as frames.
HeldInUse == \A c \in Consumers : pc[c] = "use" <=> held[c] # NoBuf

SlotsFilled == \A i \in 0..(Depth - 1) : InUse(i) => slots[i] # NoBuf

TokenBalance == count <= sem + Cardinality(Woken)

IndInv == /\ TypeOK
          /\ RingShape
          /\ Ownership
          /\ HeldInUse
          /\ SlotsFilled
          /\ TokenBalance

\* The ring, read from its head, is the first-in first-out queue of FrameFifo
\* whatever the consumers, the time-outs and the tokens do.
Fifo == INSTANCE FrameFifo WITH
          pool <- driver,
          hand <- producer,
          q    <- [i \in 1..count |-> slots[(head + i - 1) % Depth]],
          out  <- held
ImplementsFifo == Fifo!Spec

\* A buffer that left the driver comes back: a frame is sent or dropped, and
\* never rots in the ring while the stream task loops (stream.c).
FramesComeBack == \A b \in Buffers : b \notin driver ~> b \in driver
=============================================================================
