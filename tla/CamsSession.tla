----------------------------- MODULE CamsSession -----------------------------
(***************************************************************************)
(* One live-stream session of the firmware: the single-viewer slot of the  *)
(* /cams WebSocket endpoint (ws_server.c) behind the sink seam and its     *)
(* transmit lock (ws.c), the stream command (control.c, stream_cmd.c), the *)
(* capture gate and its auto-stop word (capture.c), the stream task        *)
(* (stream.c), the status timer (ws_status_timer.c) and the Wi-Fi events   *)
(* that tear the HTTP server down (softap_sta_listener.c, ws_server.c).    *)
(*                                                                         *)
(* The tasks share plain variables and C11 atomics; only the sink's        *)
(* dispatch is under a lock.  One action is one access to that shared      *)
(* state, or several that nothing can come between.                        *)
(***************************************************************************)
EXTENDS Naturals, Sequences, FiniteSets

CONSTANTS Fds,        \* sockets the HTTP server can have open
          NoFd,       \* s_viewer_fd = -1
          QueueDepth, \* frames the capture queue holds (2 in the code)
          RingDepth,  \* commands the control ring holds (8 in the code)
          Faults      \* what the environment does, a subset of FaultKinds

FaultKinds == {"peer_gone", "peer_close", "send_timeout", "wifi", "no_identity"}

ASSUME FdAssumption == NoFd \notin Fds
ASSUME DepthAssumption == QueueDepth \in Nat \ {0} /\ RingDepth \in Nat \ {0}
ASSUME FaultAssumption == Faults \subseteq FaultKinds

Senders == {"httpd", "control", "stream", "status"}
Tasks   == Senders \union {"capture", "events"}
Nobody  == "nobody"

VARIABLES
  sock,        \* sock[f]: "closed", "open", or "gone": the peer vanished and
               \* the HTTP server still lists a WebSocket session
  up,          \* the station HTTP server runs (s_sta_httpd # NULL)
  routed,      \* the running server routes /cams
  attached,    \* s_registered, and s_httpd # NULL
  viewer_fd,   \* s_viewer_fd
  sink,        \* s_sink is the server sink (FALSE: the disconnected stubs)
  timer,       \* the periodic status timer is armed
  tx,          \* holder of s_tx_mtx, or Nobody
  running,     \* s_running: the capture gate
  stop_req,    \* s_stop_req: the auto-stop word
  gate_seen,   \* capture task: its snapshot of the gate
  queue,       \* number of frames in the capture queue
  ring,        \* control ring: the commands waiting
  opening,     \* control task: it is acknowledging a start
  pc,          \* pc[t]: where task t is
  late,        \* history: frames captured since the gate last closed
  undisturbed  \* history: the slot is held, and when it was taken no
               \* viewer_clear was under way

server  == <<sock, up, routed, attached>>
slot    == <<viewer_fd, sink, timer>>
gate    == <<running, stop_req, gate_seen, queue>>
command == <<ring, opening>>
history == <<late, undisturbed>>
vars    == <<server, slot, tx, gate, command, pc, history>>

Init ==
  /\ sock = [f \in Fds |-> "closed"]
  /\ up = FALSE /\ routed = FALSE /\ attached = FALSE
  /\ viewer_fd = NoFd /\ sink = FALSE /\ timer = FALSE
  /\ tx = Nobody
  /\ running = FALSE /\ stop_req = FALSE /\ gate_seen = FALSE
  /\ queue = 0
  /\ ring = << >> /\ opening = FALSE
  /\ pc = [t \in Tasks |-> "idle"]
  /\ late = 0 /\ undisturbed = FALSE

Goto(t, l) == pc' = [pc EXCEPT ![t] = l]

\* What server_sink_is_connected can answer.  Between the listener's httpd_stop
\* and the ws_server handler that forgets the handle, the probe reads a server
\* that is gone: any answer is possible.
ProbeAnswers ==
  IF viewer_fd = NoFd \/ ~attached THEN {FALSE}
  ELSE IF ~up THEN BOOLEAN
  ELSE {sock[viewer_fd] # "closed"}

\* ... and ws_sink_connected, through the installed sink.
SinkAnswers == IF sink THEN ProbeAnswers ELSE {FALSE}

-----------------------------------------------------------------------------
(* ws_sink_send_bin and ws_sink_send_text, called by four tasks: take the   *)
(* transmit lock, ask the sink, dispatch to the slot's socket, and on a     *)
(* failed send run viewer_clear; give the lock back.                        *)

\* Where task t goes on once its send returned.
Returned(t) ==
  CASE t = "httpd" -> "arm_timer"
    [] t = "control" -> IF opening THEN "open_gate" ELSE "idle"
    [] OTHER -> "idle"

\* Fault: the lock is not taken.
ProbeUnlocked(t) ==
  /\ pc[t] = "probe"
  /\ \E connected \in SinkAnswers :
       IF connected THEN tx' = t /\ Goto(t, "dispatch")
                    ELSE UNCHANGED tx /\ Goto(t, Returned(t))
  /\ UNCHANGED <<server, slot, gate, command, history>>

Probe(t) ==
  /\ pc[t] = "probe"
  /\ tx = Nobody
  /\ \E connected \in SinkAnswers :
       IF connected THEN tx' = t /\ Goto(t, "dispatch")
                    ELSE UNCHANGED tx /\ Goto(t, Returned(t))
  /\ UNCHANGED <<server, slot, gate, command, history>>

SendResults ==
  IF ~up THEN BOOLEAN
  ELSE IF sock[viewer_fd] # "open" THEN {FALSE}
  ELSE IF "send_timeout" \in Faults THEN BOOLEAN ELSE {TRUE}

\* Fault: a failed send leaves the slot to the viewer it failed for.
DispatchForgiving(t) ==
  /\ pc[t] = "dispatch"
  /\ tx' = Nobody /\ Goto(t, Returned(t))
  /\ UNCHANGED <<server, slot, gate, command, history>>

\* The sink is read a second time, and the slot's socket for the first: without
\* either the send is refused, which changes nothing.
Dispatch(t) ==
  /\ pc[t] = "dispatch"
  /\ \/ /\ viewer_fd = NoFd \/ ~attached \/ ~sink
        /\ tx' = Nobody /\ Goto(t, Returned(t))
     \/ /\ viewer_fd # NoFd /\ attached
        /\ \E sent \in SendResults :
             IF sent THEN tx' = Nobody /\ Goto(t, Returned(t))
                     ELSE UNCHANGED tx /\ Goto(t, "clear_fd")
  /\ UNCHANGED <<server, slot, gate, command, history>>

\* Fault: the slot is not freed.
ClearAllButFd(t) ==
  /\ pc[t] = "clear_fd"
  /\ Goto(t, "clear_stop")
  /\ UNCHANGED <<server, slot, tx, gate, command, history>>

\* viewer_clear, one assignment at a time; the lock is still held.
ClearFd(t) ==
  /\ pc[t] = "clear_fd"
  /\ viewer_fd' = NoFd /\ undisturbed' = FALSE
  /\ Goto(t, "clear_stop")
  /\ UNCHANGED <<server, sink, timer, tx, gate, command, late>>

ClearStop(t) ==
  /\ pc[t] = "clear_stop"
  /\ stop_req' = TRUE
  /\ Goto(t, "clear_sink")
  /\ UNCHANGED <<server, slot, tx, running, gate_seen, queue, command, history>>

ClearSink(t) ==
  /\ pc[t] = "clear_sink"
  /\ sink' = FALSE
  /\ Goto(t, "clear_timer")
  /\ UNCHANGED <<server, viewer_fd, timer, tx, gate, command, history>>

ClearTimer(t) ==
  /\ pc[t] = "clear_timer"
  /\ timer' = FALSE
  /\ tx' = Nobody
  /\ Goto(t, Returned(t))
  /\ UNCHANGED <<server, viewer_fd, sink, gate, command, history>>

Send(t) == \/ Probe(t) \/ Dispatch(t)
           \/ ClearFd(t) \/ ClearStop(t) \/ ClearSink(t) \/ ClearTimer(t)

-----------------------------------------------------------------------------
(* The HTTP server's task: ws_server_handler.                              *)

NobodyClears ==
  \A t \in Senders : pc[t] \notin {"clear_fd", "clear_stop", "clear_sink", "clear_timer"}

\* Fault: a handshake always takes the slot.
AcceptAlways(f) ==
  /\ pc["httpd"] = "idle" /\ up /\ routed
  /\ sock[f] = "closed"
  /\ sock' = [sock EXCEPT ![f] = "open"]
  /\ viewer_fd' = f /\ undisturbed' = NobodyClears
  /\ Goto("httpd", "install_sink")
  /\ UNCHANGED <<up, routed, attached, sink, timer, tx, gate, command, late>>

\* A handshake on f while the slot is free, or held by a session the server no
\* longer lists: the slot is taken over (viewer_accept).
Accept(f) ==
  /\ pc["httpd"] = "idle" /\ up /\ routed
  /\ sock[f] = "closed"
  /\ FALSE \in ProbeAnswers
  /\ sock' = [sock EXCEPT ![f] = "open"]
  /\ viewer_fd' = f /\ undisturbed' = NobodyClears
  /\ Goto("httpd", "install_sink")
  /\ UNCHANGED <<up, routed, attached, sink, timer, tx, gate, command, late>>

\* A handshake while another session holds the slot: an error frame on the
\* newcomer's own socket, which the server closes again (viewer_reject).
Reject(f) ==
  /\ pc["httpd"] = "idle" /\ up /\ routed
  /\ sock[f] = "closed"
  /\ TRUE \in ProbeAnswers
  /\ UNCHANGED vars

\* The hello is sent next, unless the identity cannot be loaded.
InstallSink ==
  /\ pc["httpd"] = "install_sink"
  /\ sink' = TRUE
  /\ \/ Goto("httpd", "probe")
     \/ "no_identity" \in Faults /\ Goto("httpd", "arm_timer")
  /\ UNCHANGED <<server, viewer_fd, timer, tx, gate, command, history>>

\* ws_status_timer_start; starting an armed timer fails and leaves it armed.
ArmTimer ==
  /\ pc["httpd"] = "arm_timer"
  /\ timer' = TRUE
  /\ Goto("httpd", "idle")
  /\ UNCHANGED <<server, viewer_fd, sink, tx, gate, command, history>>

\* A text frame on any open session: onto the ring, or dropped when it is full.
Ingest(f, cmd) ==
  /\ pc["httpd"] = "idle" /\ up
  /\ sock[f] = "open"
  /\ Len(ring) < RingDepth
  /\ ring' = Append(ring, cmd)
  /\ UNCHANGED <<server, slot, tx, gate, opening, pc, history>>

\* The server notices that a session's socket is closed and forgets it.
SessionClosed(f) ==
  /\ "peer_close" \in Faults
  /\ pc["httpd"] = "idle" /\ up
  /\ sock[f] # "closed"
  /\ sock' = [sock EXCEPT ![f] = "closed"]
  /\ UNCHANGED <<up, routed, attached, slot, tx, gate, command, pc, history>>

\* The peer vanishes without a word; from here on sends to it fail.
PeerGone(f) ==
  /\ "peer_gone" \in Faults
  /\ sock[f] = "open"
  /\ sock' = [sock EXCEPT ![f] = "gone"]
  /\ UNCHANGED <<up, routed, attached, slot, tx, gate, command, pc, history>>

-----------------------------------------------------------------------------
(* The control task: one pass over a stream command (stream_cmd_handle).   *)

\* stream.on: no viewer, no start; else acknowledge first.
StartCommand ==
  /\ pc["control"] = "idle"
  /\ ring # << >> /\ Head(ring) = "start"
  /\ ring' = Tail(ring)
  /\ opening' \in ProbeAnswers
  /\ Goto("control", "probe")
  /\ UNCHANGED <<server, slot, tx, gate, history>>

\* capture_run_start, after the ack whether or not it went out.
OpenGate ==
  /\ pc["control"] = "open_gate"
  /\ running' = TRUE
  /\ opening' = FALSE
  /\ late' = 0
  /\ Goto("control", "idle")
  /\ UNCHANGED <<server, slot, tx, stop_req, gate_seen, queue, ring, undisturbed>>

\* stream.off: close the gate first, then acknowledge.
StopCommand ==
  /\ pc["control"] = "idle"
  /\ ring # << >> /\ Head(ring) = "stop"
  /\ ring' = Tail(ring)
  /\ running' = FALSE
  /\ Goto("control", "probe")
  /\ UNCHANGED <<server, slot, tx, stop_req, gate_seen, queue, opening, history>>

-----------------------------------------------------------------------------
(* The capture task: one pass of capture_task_entry.                       *)

GateSnapshot ==
  /\ pc["capture"] = "idle"
  /\ gate_seen' = running
  /\ Goto("capture", "take")
  /\ UNCHANGED <<server, slot, tx, running, stop_req, queue, command, history>>

\* Fault: no return on a closed gate.
IterationUngated ==
  /\ pc["capture"] = "take"
  /\ stop_req' = FALSE
  /\ gate_seen' = FALSE
  /\ queue' = IF queue < QueueDepth THEN queue + 1 ELSE queue
  /\ late' = IF running \/ late = 2 THEN late ELSE late + 1
  /\ Goto("capture", IF gate_seen /\ stop_req THEN "halt" ELSE "idle")
  /\ UNCHANGED <<server, slot, tx, running, command, undisturbed>>

\* capture_stop_request_take, then capture_gated_iteration: a closed gate
\* discards the stop word, an open one obeys it, and without it one frame goes
\* to the queue (or back to the driver when the queue is full).
GatedIteration ==
  /\ pc["capture"] = "take"
  /\ stop_req' = FALSE
  /\ gate_seen' = FALSE
  /\ IF gate_seen /\ ~stop_req
     THEN /\ queue' = IF queue < QueueDepth THEN queue + 1 ELSE queue
          /\ late' = IF running \/ late = 2 THEN late ELSE late + 1
     ELSE UNCHANGED <<queue, history>>
  /\ Goto("capture", IF gate_seen /\ stop_req THEN "halt" ELSE "idle")
  /\ UNCHANGED <<server, slot, tx, running, command, undisturbed>>

\* Fault: the latched stop leaves the gate open.
HaltNothing ==
  /\ pc["capture"] = "halt"
  /\ Goto("capture", "idle")
  /\ UNCHANGED <<server, slot, tx, gate, command, history>>

HaltGate ==
  /\ pc["capture"] = "halt"
  /\ running' = FALSE
  /\ Goto("capture", "idle")
  /\ UNCHANGED <<server, slot, tx, stop_req, gate_seen, queue, command, history>>

-----------------------------------------------------------------------------
(* The stream task and the status timer.                                   *)

\* stream_loop_iteration: a frame with no viewer connected is dropped.
StreamFrame ==
  /\ pc["stream"] = "idle"
  /\ queue > 0
  /\ queue' = queue - 1
  /\ \E connected \in SinkAnswers : Goto("stream", IF connected THEN "probe" ELSE "idle")
  /\ UNCHANGED <<server, slot, tx, running, stop_req, gate_seen, command, history>>

StatusTick ==
  /\ pc["status"] = "idle"
  /\ timer
  /\ TRUE \in SinkAnswers
  /\ Goto("status", "probe")
  /\ UNCHANGED <<server, slot, tx, gate, command, history>>

-----------------------------------------------------------------------------
(* Wi-Fi events, in the event loop's task.  For each event the listener's   *)
(* handler runs first, then ws_server's: its turn is "detach" or "attach".  *)

\* DISCONNECTED.  httpd_stop waits for the server's task, closes every session
\* and takes the routes along.  Without a server there is nothing to stop.
ListenerStop ==
  /\ "wifi" \in Faults
  /\ pc["events"] = "idle" /\ pc["httpd"] = "idle"
  /\ up' = FALSE /\ routed' = FALSE
  /\ sock' = [f \in Fds |-> "closed"]
  /\ Goto("events", "detach")
  /\ UNCHANGED <<attached, slot, tx, gate, command, history>>

\* Fault: the one-shot registration survives the server it was made on.
DetachSlotOnly ==
  /\ pc["events"] = "detach"
  /\ viewer_fd' = NoFd /\ undisturbed' = FALSE
  /\ sink' = FALSE
  /\ Goto("events", "idle")
  /\ UNCHANGED <<server, timer, tx, gate, command, late>>

\* ws_server's turn.  It leaves the auto-stop word and the status timer alone.
ServerDetach ==
  /\ pc["events"] = "detach"
  /\ attached' = FALSE
  /\ viewer_fd' = NoFd /\ undisturbed' = FALSE
  /\ sink' = FALSE
  /\ Goto("events", "idle")
  /\ UNCHANGED <<sock, up, routed, timer, tx, gate, command, late>>

\* GOT_IP.  The listener starts a server unless one runs; the start, or the
\* registration of /whoami, may fail and leave none.  An address renewed with
\* the server up and /cams attached changes nothing.
ListenerStart ==
  /\ pc["events"] = "idle"
  /\ ~up \/ ~attached
  /\ up' = TRUE \/ UNCHANGED up
  /\ Goto("events", "attach")
  /\ UNCHANGED <<sock, routed, attached, slot, tx, gate, command, history>>

\* ws_server's turn: registered already, or no server, it does nothing.  The
\* registration may fail, and before ws_init (boot.c has wifi_init first) nobody
\* is there to make it: either way /cams waits for the next GOT_IP.
ServerAttach ==
  /\ pc["events"] = "attach"
  /\ \/ UNCHANGED <<routed, attached>>
     \/ up /\ ~attached /\ routed' = TRUE /\ attached' = TRUE
  /\ Goto("events", "idle")
  /\ UNCHANGED <<sock, up, slot, tx, gate, command, history>>

-----------------------------------------------------------------------------
Httpd   == InstallSink \/ ArmTimer
Control == StartCommand \/ OpenGate \/ StopCommand
Capture == GateSnapshot \/ GatedIteration \/ HaltGate
Peers   == \E f \in Fds : \/ Accept(f) \/ Reject(f) \/ SessionClosed(f) \/ PeerGone(f)
                          \/ \E cmd \in {"start", "stop"} : Ingest(f, cmd)
Wifi    == ListenerStop \/ ServerDetach \/ ListenerStart \/ ServerAttach

Next == \/ Peers
        \/ Httpd \/ Control \/ Capture \/ StreamFrame \/ StatusTick
        \/ \E t \in Senders : Send(t)
        \/ Wifi

\* Every task of the firmware keeps being scheduled: they share one priority,
\* are time-sliced and wait with bounds.  A mutex with queued waiters makes the
\* lock strongly fair.  Nothing is assumed of peers or of the access point.
Fairness ==
  /\ WF_vars(Httpd \/ Send("httpd"))
  /\ WF_vars(Control \/ Send("control"))
  /\ WF_vars(StreamFrame \/ Send("stream"))
  /\ WF_vars(StatusTick \/ Send("status"))
  /\ WF_vars(Capture)
  /\ WF_vars(ServerDetach \/ ServerAttach)
  /\ \A t \in Senders : SF_vars(Probe(t))

Spec     == Init /\ [][Next]_vars
FairSpec == Spec /\ Fairness

-----------------------------------------------------------------------------
(* Properties                                                              *)

Sending  == {"dispatch", "clear_fd", "clear_stop", "clear_sink", "clear_timer"}

Flags ==
  /\ up \in BOOLEAN /\ routed \in BOOLEAN /\ attached \in BOOLEAN
  /\ sink \in BOOLEAN /\ timer \in BOOLEAN
  /\ running \in BOOLEAN /\ stop_req \in BOOLEAN /\ gate_seen \in BOOLEAN
  /\ opening \in BOOLEAN /\ undisturbed \in BOOLEAN

TypeOK ==
  /\ Flags
  /\ sock \in [Fds -> {"closed", "open", "gone"}]
  /\ viewer_fd \in Fds \union {NoFd}
  /\ tx \in Senders \union {Nobody}
  /\ queue \in 0..QueueDepth
  /\ ring \in Seq({"start", "stop"}) /\ Len(ring) <= RingDepth
  /\ pc \in [Tasks -> {"idle", "probe", "install_sink", "arm_timer", "open_gate",
                       "take", "halt", "attach", "detach"} \union Sending]
  /\ late \in 0..2

\* At most one task is inside the sink's dispatch: two tasks never write to the
\* viewer's socket, nor clear the slot, at once (ws.c, TX serialization).
TxExclusive ==
  \A t, u \in Senders : pc[t] \in Sending /\ pc[u] \in Sending => t = u

\* After the gate closes, by stream.off or by the stop word, at most the frame
\* already under way is still captured (FW-19.2, "no new frames arrive").
AtMostOneLateFrame == late <= 1

\* A viewer that took the slot while no viewer_clear was under way has what it
\* needs for as long as it holds it: the sink from viewer_accept on, the status
\* timer once viewer_accept is done.  No other task's clearing, send or Wi-Fi event
\* switches either off and leaves the viewer the slot (ws_server.c:91-105, 169-205).
ViewerComplete ==
  undisturbed => /\ pc["httpd"] # "install_sink" => sink
                 /\ pc["httpd"] = "idle" => timer

\* ws_server believes /cams registered only while the running server routes it,
\* except in the middle of a DISCONNECTED event: a registration that outlived its
\* server would make every later GOT_IP skip the new one (ws_server.c:375-394).
RegistrationLive == attached /\ pc["events"] # "detach" => up /\ routed

\* What makes them inductive: a task that is sending holds the lock; nothing is
\* late while the gate is open, nor while the capture task believes it is; the
\* undisturbed viewer holds the slot of the server that took it and at most one
\* task is about to clear that slot; only a running server routes
\* /cams, and ws_server knows; during "detach" there is none.
SenderHoldsLock == \A t \in Senders : pc[t] \in Sending => tx = t

NothingLateYet == running \/ gate_seen => late = 0

UndisturbedHolds ==
  undisturbed => /\ viewer_fd # NoFd
                 /\ \A t \in Senders : pc[t] \notin {"clear_stop", "clear_sink", "clear_timer"}

RouteLive == (routed => up /\ attached) /\ (pc["events"] = "detach" => ~up /\ pc["httpd"] = "idle")

IndInv == /\ TypeOK /\ SenderHoldsLock /\ AtMostOneLateFrame /\ NothingLateYet
          /\ ViewerComplete /\ UndisturbedHolds /\ RegistrationLive /\ RouteLive

\* While the server still lists the slot's session, a handshake on another
\* socket never takes the slot from it: only a failed send or Wi-Fi loss frees it.
SlotNotStolen ==
  [][\A f \in Fds : viewer_fd = f /\ sock[f] # "closed" => viewer_fd' \in {f, NoFd}]_vars

\* A stop word raised while the gate is open closes it, whatever else happens,
\* with one exception: a pass that saw the gate closed, and has not yet exchanged
\* the word, discards it although the gate has opened since (capture.c:551-574).
StopWordObeyed ==
  stop_req /\ running /\ ~(pc["capture"] = "take" /\ ~gate_seen) ~> ~running

\* The capture gate is open and the capture task is bound to see the stop word, or has.
WordDue ==
  running /\ \/ pc["capture"] = "halt"
             \/ stop_req /\ ~(pc["capture"] = "take" /\ ~gate_seen)

\* Its steps until the gate closes.
StepsToHalt == [idle |-> 3, take |-> 2, halt |-> 1][pc["capture"]]

\* Until then no frame is queued, and no step of any task loses the word or sends the
\* capture task round again: it is at most three of its steps away
\* (capture.c, capture_stop_request_take).
StopWordKept ==
  [][WordDue =>
       /\ queue' <= queue
       /\ \/ ~running'
          \/ /\ WordDue'
             /\ pc'["capture"] = pc["capture"] \/ StepsToHalt' < StepsToHalt]_vars

\* A viewer that vanishes without closing is found out by a failing send, of a
\* frame or of the periodic status, and loses the slot, unless another task's
\* viewer_clear or Wi-Fi loss has switched the sink or the status timer off
\* under it (ws_server.c:91-105, 395-409).
DeadViewerFreed ==
  \A f \in Fds :
    viewer_fd = f /\ sock[f] = "gone" /\ pc["httpd"] = "idle"
      ~> ~(viewer_fd = f /\ sock[f] = "gone") \/ ~sink \/ ~timer

\* The slot is held by a session that can receive.
Viewer == /\ sink /\ viewer_fd # NoFd /\ attached /\ up
          /\ sock[viewer_fd] = "open"

\* FW-19: when the viewer is lost, the gate closes (or another viewer comes).
GateFollowsViewer == running /\ ~Viewer ~> ~running \/ Viewer
=============================================================================
