----------------------------- MODULE FrameFifo -----------------------------
(***************************************************************************)
(* What the capture component promises about camera frame buffers          *)
(* (capture.h, "Frame-buffer ownership"): a buffer is with the camera      *)
(* driver, in the producer's hand, in a bounded first-in first-out queue,  *)
(* or in the hand of exactly one consumer, and it moves between them one   *)
(* step at a time.  CaptureQueue.tla implements this with a ring of slots, *)
(* a mutex and a counting semaphore.                                       *)
(***************************************************************************)
EXTENDS Naturals, Sequences

CONSTANTS Buffers,    \* the driver's frame buffers (camera_fb_t)
          Consumers,  \* tasks that receive frames
          Depth,      \* capacity of the queue
          NoBuf       \* the NULL frame pointer

VARIABLES pool,       \* buffers the camera driver owns
          hand,       \* the buffer the producer holds, or NoBuf
          q,          \* buffers waiting, oldest first
          out         \* out[c]: the buffer consumer c holds, or NoBuf

vars == <<pool, hand, q, out>>

Init == /\ pool = Buffers
        /\ hand = NoBuf
        /\ q = << >>
        /\ out = [c \in Consumers |-> NoBuf]

Grab(b) == /\ hand = NoBuf
           /\ b \in pool
           /\ pool' = pool \ {b}
           /\ hand' = b
           /\ UNCHANGED <<q, out>>

\* The producer never waits for room: a full queue sends the frame back.
Enqueue == /\ hand # NoBuf
           /\ Len(q) < Depth
           /\ q' = Append(q, hand)
           /\ hand' = NoBuf
           /\ UNCHANGED <<pool, out>>

Drop == /\ hand # NoBuf
        /\ Len(q) = Depth
        /\ pool' = pool \union {hand}
        /\ hand' = NoBuf
        /\ UNCHANGED <<q, out>>

Receive(c) == /\ out[c] = NoBuf
              /\ q # << >>
              /\ out' = [out EXCEPT ![c] = Head(q)]
              /\ q' = Tail(q)
              /\ UNCHANGED <<pool, hand>>

Release(c) == /\ out[c] # NoBuf
              /\ pool' = pool \union {out[c]}
              /\ out' = [out EXCEPT ![c] = NoBuf]
              /\ UNCHANGED <<hand, q>>

Next == \/ \E b \in Buffers : Grab(b)
        \/ Enqueue
        \/ Drop
        \/ \E c \in Consumers : Receive(c) \/ Release(c)

Spec == Init /\ [][Next]_vars
=============================================================================
