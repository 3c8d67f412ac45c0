--------------------------- MODULE ControlRouter ---------------------------
(***************************************************************************)
(* The control dispatcher of the firmware: the httpd worker copies a text  *)
(* frame to the heap and pushes the copy on a ring (ws_server.c,           *)
(* control.c); the control task, its single consumer, routes it            *)
(* (control_route.c), runs the stream handler (stream_cmd.c) and frees it. *)
(* The ring is guarded by a mutex with a counting semaphore for condition  *)
(* variable, both armed only when boot starts the control task, and the    *)
(* handler is registered after that: frames can come before either.        *)
(*                                                                         *)
(* This is the device build.  A critical section under the mutex is one    *)
(* action.  A push that found no mutex holds none, and boot may start the  *)
(* task in the middle of it: it is taken apart into its reads and writes   *)
(* of the ring's count, the one place of the ring a pop writes too.        *)
(***************************************************************************)
EXTENDS Integers, Sequences

CONSTANTS Cells,           \* heap copies the memory has room for
          NoCell,          \* NULL
          Bodies, NoBody,  \* what the frames say, and freed memory
          Depth,           \* CONTROL_QUEUE_DEPTH
          FpsMin, FpsMax, FpsDefault,   \* CONFIG_FIRMWARE_STREAM_FPS...
          CounterMod,      \* 2^32
          Absent, Long, Wrong, Huge     \* see CommandLine

ASSUME DepthAssumption == Depth \in Nat \ {0}
ASSUME CellAssumption == NoCell \notin Cells /\ NoBody \notin Bodies
ASSUME FpsAssumption == /\ FpsMin \in Nat /\ FpsMax \in Nat /\ FpsMin <= FpsMax
                        /\ FpsDefault \in FpsMin..FpsMax
ASSUME CounterAssumption == CounterMod \in Nat \ {0}
ASSUME MarkAssumption == Absent # Wrong /\ Absent # Huge /\ Wrong # Huge
\* A body is what the parser finds in it: json, the members cmd, id, on and fps;
\* id is the one salvaged from a broken body, and none is looked for in an array.
ASSUME BodyAssumption ==
  \A b \in Bodies : /\ b.json \in {"broken", "array", "object"}
                    /\ b.json = "array" => b.id = Absent
                    /\ b.fps \in {Absent, Wrong, Huge} \/ b.fps \in Int

VARIABLES
  heap,        \* the copies allocated
  body,        \* body[c]: what copy c says
  copy,        \* httpd worker: the copy it is about to submit
  sending,     \* where its unlocked push of it is, or "no"
  seen,        \* the count that push has checked
  slots, head, tail, count,   \* control_queue_t
  sem,         \* g_queue_sem_handle: its count, at most Depth
  dropped,     \* s_frames_dropped
  started,     \* control_task_start has run
  registered,  \* stream_cmd_register has run
  late,        \* history: a push without a token has ended since the task
               \* last found the ring empty
  torn,        \* history: a count++ and a count-- ran into each other
  pc,          \* where the control task is
  frame,       \* the copy it owns
  todo,        \* the replies and gate changes it has still to make
  fps          \* s_fps

memory == <<heap, body>>
worker == <<copy, sending, seen>>
ring   == <<slots, head, tail, count>>
task   == <<pc, frame, todo, fps>>
boot   == <<started, registered>>
race   == <<late, torn>>
vars   == <<memory, worker, ring, sem, dropped, boot, race, task>>

Init ==
  /\ heap = {} /\ body = [c \in Cells |-> NoBody]
  /\ copy = NoCell /\ sending = "no" /\ seen = 0
  /\ slots = [i \in 0..(Depth - 1) |-> NoCell] /\ head = 0 /\ tail = 0 /\ count = 0
  /\ sem = 0 /\ dropped = 0
  /\ started = FALSE /\ registered = FALSE
  /\ late = FALSE /\ torn = FALSE
  /\ pc = "receive" /\ frame = NoCell /\ todo = << >>
  /\ fps = FpsDefault

-----------------------------------------------------------------------------
(* The httpd worker: ws_server_ingest_frame.                               *)

\* A free block of the heap; which one makes no difference.
malloc == CHOOSE c \in Cells : c \notin heap

\* A text frame that fits is copied.  Every other kind, a failed receive and a
\* full heap change nothing (the copy of a failed fill is freed again).
Ingest(b) ==
  /\ copy = NoCell
  /\ heap # Cells
  /\ heap' = heap \union {malloc}
  /\ body' = [body EXCEPT ![malloc] = b]
  /\ copy' = malloc
  /\ UNCHANGED <<sending, seen, ring, sem, dropped, boot, race, task>>

\* A text frame over CONTROL_FRAME_MAX is drained and counted.
Oversize ==
  /\ copy = NoCell
  /\ dropped' = (dropped + 1) % CounterMod
  /\ UNCHANGED <<memory, worker, ring, sem, boot, race, task>>

\* The copy goes into the tail slot, and the count becomes n.
Enqueue(n) ==
  /\ slots' = [slots EXCEPT ![tail] = copy]
  /\ tail' = (tail + 1) % Depth
  /\ count' = n
  /\ copy' = NoCell

\* A push that finds the hooks armed, and takes the mutex.
Locked == copy # NoCell /\ sending = "no" /\ started

\* Fault: a push that gives no token.
PushUnsignalled ==
  /\ Locked
  /\ count < Depth
  /\ Enqueue(count + 1)
  /\ UNCHANGED <<memory, sending, seen, head, sem, dropped, boot, race, task>>

\* control_queue_send_drop_on_full under the mutex; giving a full semaphore
\* fails and is ignored.
Push ==
  /\ Locked
  /\ count < Depth
  /\ Enqueue(count + 1)
  /\ sem' = IF sem < Depth THEN sem + 1 ELSE sem
  /\ UNCHANGED <<memory, sending, seen, head, dropped, boot, race, task>>

\* It finds the hooks not armed: whatever boot does from here on, this push
\* neither locks nor gives a token.
SkipLock ==
  /\ copy # NoCell /\ sending = "no" /\ ~started
  /\ sending' = "check"
  /\ UNCHANGED <<memory, copy, seen, ring, sem, dropped, boot, race, task>>

CheckRoom ==
  /\ sending = "check"
  /\ count < Depth
  /\ seen' = count
  /\ sending' = "count"
  /\ UNCHANGED <<memory, copy, ring, sem, dropped, boot, race, task>>

\* No pop looks at the tail and its slot before they count, so they can be
\* written with the count.  The value that count++ adds to was read at the check
\* or at any time after it, before later pops.
PushUnlocked ==
  /\ sending = "count"
  /\ \E n \in (count + 1)..(seen + 1) : Enqueue(n) /\ torn' = (torn \/ n # count + 1)
  /\ late' = TRUE
  /\ sending' = "no" /\ seen' = 0
  /\ UNCHANGED <<memory, head, sem, dropped, boot, task>>

\* Fault: the refused copy is not freed.
RefuseAndForget ==
  /\ Locked \/ sending = "check"
  /\ count >= Depth
  /\ dropped' = (dropped + 1) % CounterMod
  /\ copy' = NoCell /\ sending' = "no"
  /\ UNCHANGED <<memory, seen, ring, sem, boot, race, task>>

\* The ring is full, for either kind of push: the newest frame is counted and
\* freed at once.
Refuse ==
  /\ Locked \/ sending = "check"
  /\ count >= Depth
  /\ dropped' = (dropped + 1) % CounterMod
  /\ heap' = heap \ {copy}
  /\ body' = [body EXCEPT ![copy] = NoBody]
  /\ copy' = NoCell /\ sending' = "no"
  /\ UNCHANGED <<seen, ring, sem, boot, race, task>>

-----------------------------------------------------------------------------
(* Boot: boot_run_normal starts the task, then registers the handler.      *)

\* Arming the hooks and creating the task are one step: only a push can come
\* between them, and it leaves what it would leave before the task's first step.
Start ==
  /\ ~started
  /\ started' = TRUE
  /\ UNCHANGED <<memory, worker, ring, sem, dropped, registered, race, task>>

Register ==
  /\ started /\ ~registered
  /\ registered' = TRUE
  /\ UNCHANGED <<memory, worker, ring, sem, dropped, started, race, task>>

-----------------------------------------------------------------------------
(* The router and the stream handler, as functions of a body: the replies  *)
(* and gate changes they make, in order.                                   *)

\* control_error_build: the id of any scalar type, but not a long string.
Envelope(reason, b) ==
  [reply |-> "error", reason |-> reason, id |-> IF b.id = Long THEN Absent ELSE b.id]

\* stream_ok_build, capture_run_start, capture_run_stop.
Acked(on, rate) == [reply |-> "stream_ok", on |-> on, fps |-> rate]
GateOpen(rate)  == [gate |-> "open", fps |-> rate]
GateClosed      == [gate |-> "closed"]

\* Fault: the ceiling is exclusive.
ClampBelow(n) == IF n < FpsMin THEN FpsMin ELSE IF n >= FpsMax THEN FpsMax - 1 ELSE n

capture_fps_clamp(n) == IF n < FpsMin THEN FpsMin ELSE IF n > FpsMax THEN FpsMax ELSE n

\* The rates a start can apply.  Converting a double that no long long can hold
\* is undefined: any value may come out, and be clamped.
Rates(b) ==
  CASE b.fps = Absent -> {FpsDefault}
    [] b.fps = Huge   -> FpsMin..FpsMax
    [] OTHER          -> {capture_fps_clamp(b.fps)}

\* fps->valuedouble == (double)(long long)fps->valuedouble
RateOk(b) ==
  CASE b.fps = Wrong -> {FALSE}
    [] b.fps = Huge  -> BOOLEAN
    [] OTHER         -> {TRUE}

\* stream_cmd_handle.  Whether a viewer is active is the session's business.
StreamScripts(b) ==
  UNION {
    IF b.on \notin {"true", "false"} \/ ~ok THEN {<<Envelope("bad_field", b)>>}
    ELSE IF b.on = "true"
    THEN {<<Envelope("no_viewer", b)>>} \union {<<Acked(TRUE, r), GateOpen(r)>> : r \in Rates(b)}
    ELSE {<<GateClosed, Acked(FALSE, fps)>>}
  : ok \in RateOk(b)}

k_allow_list == {"stream", "config", "reset_cam", "sleep", "reboot", "identify"}

\* control_parse and control_frame_process.
Scripts(b) ==
  IF b.json = "broken" THEN {<<Envelope("bad_json", b)>>}
  ELSE IF b.json = "array" \/ b.cmd \notin k_allow_list THEN {<<Envelope("unknown", b)>>}
  ELSE IF b.cmd = "stream" /\ registered THEN StreamScripts(b)
  ELSE {<<Envelope("not_implemented", b)>>}

-----------------------------------------------------------------------------
(* The control task: control_loop_iteration, for ever.                     *)

\* queue_pop_unsafe: the copy in the head slot is taken.
Dequeue ==
  /\ started /\ pc = "receive"
  /\ count > 0
  /\ frame' = slots[head]
  /\ head' = (head + 1) % Depth
  /\ pc' = "route"

\* Under the mutex.
Pop ==
  /\ Dequeue
  /\ count' = count - 1
  /\ UNCHANGED <<memory, worker, slots, tail, sem, dropped, boot, race, todo, fps>>

\* An unlocked push stores its count between the read and the write of the
\* pop's count--, which the mutex does not keep from it: the push is not counted.
PopUnderPush ==
  /\ sending = "count"
  /\ Dequeue
  /\ Enqueue(count - 1)
  /\ late' = TRUE /\ torn' = TRUE
  /\ sending' = "no" /\ seen' = 0
  /\ UNCHANGED <<memory, sem, dropped, boot, todo, fps>>

\* The ring is empty: wait (or, past the deadline, begin again).
Block ==
  /\ started /\ pc = "receive"
  /\ count = 0
  /\ pc' = "wait"
  /\ late' = FALSE
  /\ UNCHANGED <<memory, worker, ring, sem, dropped, boot, torn, frame, todo, fps>>

\* A token, or the time-out; either way the ring is looked at again.
Wake ==
  /\ pc = "wait"
  /\ sem > 0
  /\ sem' = sem - 1
  /\ pc' = "receive"
  /\ UNCHANGED <<memory, worker, ring, dropped, boot, race, frame, todo, fps>>

Timeout ==
  /\ pc = "wait"
  /\ pc' = "receive"
  /\ UNCHANGED <<memory, worker, ring, sem, dropped, boot, race, frame, todo, fps>>

\* Off a ring whose count is torn the task may take NULL or a copy freed before;
\* what the router makes of that is no longer its own doing, and it ends here.
Route ==
  /\ pc = "route"
  /\ frame # NoCell /\ body[frame] # NoBody
  /\ todo' \in Scripts(body[frame])
  /\ pc' = "serve"
  /\ UNCHANGED <<memory, worker, ring, sem, dropped, boot, race, frame, fps>>

\* One reply (ws_sink_send_text, whatever becomes of it) or one gate change.
Serve ==
  /\ pc = "serve" /\ todo # << >>
  /\ fps' = IF \E r \in FpsMin..FpsMax : Head(todo) = GateOpen(r) THEN Head(todo).fps ELSE fps
  /\ todo' = Tail(todo)
  /\ UNCHANGED <<memory, worker, ring, sem, dropped, boot, race, pc, frame>>

\* Fault: a copy the handler took is left to it.
ForgetFrame ==
  /\ pc = "serve" /\ todo = << >>
  /\ UNCHANGED memory
  /\ frame' = NoCell
  /\ pc' = "receive"
  /\ UNCHANGED <<worker, ring, sem, dropped, boot, race, todo, fps>>

FreeFrame ==
  /\ pc = "serve" /\ todo = << >>
  /\ heap' = heap \ {frame}
  /\ body' = [body EXCEPT ![frame] = NoBody]
  /\ frame' = NoCell
  /\ pc' = "receive"
  /\ UNCHANGED <<worker, ring, sem, dropped, boot, race, todo, fps>>

-----------------------------------------------------------------------------
Submit  == Push \/ Refuse \/ SkipLock \/ CheckRoom \/ PushUnlocked
Httpd   == (\E b \in Bodies : Ingest(b)) \/ Oversize \/ Submit
Control == Pop \/ PopUnderPush \/ Block \/ Wake \/ Timeout \/ Route \/ Serve \/ FreeFrame
Boot    == Start \/ Register

Next == Httpd \/ Control \/ Boot

\* Boot runs to its end, and the control task and a handler of the httpd worker
\* keep being scheduled; no client has to send anything.
Fairness == WF_vars(Boot) /\ WF_vars(Control) /\ WF_vars(Submit)

Spec     == Init /\ [][Next]_vars
FairSpec == Spec /\ Fairness

-----------------------------------------------------------------------------
(* Properties                                                              *)

InUse(i) == /\ count > 0
            /\ IF head < tail THEN head <= i /\ i < tail
                              ELSE head <= i \/ i < tail

Waiting == {slots[i] : i \in {j \in 0..(Depth - 1) : InUse(j)}}

TypeOK ==
  /\ heap \subseteq Cells
  /\ body \in [Cells -> Bodies \union {NoBody}]
  /\ copy \in Cells \union {NoCell}
  /\ sending \in {"no", "check", "count"} /\ seen \in 0..Depth
  /\ slots \in [0..(Depth - 1) -> Cells \union {NoCell}]
  /\ head \in 0..(Depth - 1) /\ tail \in 0..(Depth - 1) /\ count \in 0..Depth
  /\ sem \in 0..Depth /\ dropped \in 0..(CounterMod - 1)
  /\ started \in BOOLEAN /\ registered \in BOOLEAN
  /\ late \in BOOLEAN /\ torn \in BOOLEAN
  /\ pc \in {"receive", "wait", "route", "serve"}
  /\ frame \in Cells \union {NoCell}
  /\ fps \in FpsMin..FpsMax

\* Every heap copy is in exactly one hand: the worker's, the ring's (in one
\* slot) or the control task's.
OneHand ==
  /\ heap = (Waiting \union {copy, frame}) \ {NoCell}
  /\ \A i, j \in 0..(Depth - 1) : InUse(i) /\ InUse(j) /\ slots[i] = slots[j] => i = j
  /\ copy \notin Waiting /\ frame \notin Waiting
  /\ copy = frame => copy = NoCell

\* So each is freed once and none is lost (control.h, "the consumer frees exactly
\* once", "the CALLER frees immediately"), also those pushed while boot starts the
\* task, up to the one accident the code has no guard against: a pop between the
\* read and the write of an unlocked push's count++, or the other way round.
FreedOnce == ~torn => OneHand

\* The control task never sleeps beside a waiting frame without a token to wake
\* it, although tokens outlive their frames and gives can fail: a command is not
\* left for the 1 s time-out to find.  The one push that can leave a frame so is
\* one that began before the hooks were armed and ended after the task had found
\* the ring empty.
NoLostWakeup == pc = "wait" /\ count > 0 => sem > 0 \/ late

\* What makes these inductive: the ring's indices describe one arc, a copy in it
\* or in a hand says something, the control task owns one exactly from the pop to
\* the free, and an unlocked push has a copy and, once past its check, a slot,
\* for pops only make room.
RingShape ==
  count = IF head < tail THEN tail - head
          ELSE IF tail < head THEN Depth - head + tail
          ELSE IF count = 0 THEN 0 ELSE Depth

LiveBodies == /\ \A c \in heap : body[c] \in Bodies
              /\ \A i \in 0..(Depth - 1) : InUse(i) => slots[i] \in Cells

Owning == /\ pc \in {"receive", "wait"} <=> frame = NoCell
          /\ pc # "serve" => todo = << >>
          /\ sending # "no" => copy # NoCell

Room  == sending = "count" => count <= seen /\ seen < Depth
Sound == RingShape /\ OneHand /\ LiveBodies /\ Owning

IndInv == TypeOK /\ Room /\ NoLostWakeup /\ (~torn => Sound)

Line == INSTANCE CommandLine WITH
          offered <- IF copy = NoCell THEN NoBody ELSE body[copy],
          waiting <- [i \in 1..count |-> body[slots[(head + i - 1) % Depth]]],
          serving <- IF frame = NoCell THEN NoBody ELSE body[frame],
          judged  <- pc = "serve",
          ready   <- registered,
          rate    <- fps

\* The router implements the line its header promises: frames are served once,
\* in order, each by the one right sequence of replies and gate changes for its
\* body; the newest is refused when the ring is full, and every refusal counted.
\* It does so until the ring's count is torn, if it ever is.
ImplementsLine == Line!Init /\ [][torn' \/ Line!Next]_(Line!vars)

\* Every copy is served or refused, and freed: an accepted command never rots in
\* the ring, also one that came before the control task was started, or while it
\* was, as long as the ring's count is not torn.
EveryCopyFreed == \A c \in Cells : c \in heap ~> c \notin heap \/ torn
=============================================================================
