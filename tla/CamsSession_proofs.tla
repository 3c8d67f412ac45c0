-------------------------- MODULE CamsSession_proofs --------------------------
(***************************************************************************)
(* Proofs about CamsSession, for any number of sockets, any queue and ring *)
(* and any faults: the types, the exclusion of the transmit lock, the      *)
(* bound on frames captured after the gate closed, that an undisturbed     *)
(* viewer keeps its sink and its timer, that the registration of /cams     *)
(* never outlives its server, that a listed session is never robbed of the *)
(* slot by a handshake, and that a stop word once due is never lost.       *)
(***************************************************************************)
EXTENDS CamsSession, TLAPS

\* What the probe of the viewer can answer is a Boolean.
LEMMA ProbeIsBoolean == ProbeAnswers \subseteq BOOLEAN
<1>1. {FALSE} \subseteq BOOLEAN
  BY Zenon
<1>2. {sock[viewer_fd] # "closed"} \subseteq BOOLEAN
  BY Zenon
<1> QED
  BY <1>1, <1>2, Zenon DEF ProbeAnswers

\* Whether a viewer_clear is under way is a Boolean.
LEMMA ClearsIsBoolean == NobodyClears \in BOOLEAN
BY Zenon DEF NobodyClears

\* The flags stay flags: the Boolean part of the types.
LEMMA FlagsNext == Flags /\ [Next]_vars => Flags'
<1> SUFFICES ASSUME Flags, [Next]_vars
             PROVE  Flags'
  OBVIOUS
<1> USE DEF Flags, server, slot, gate, command, history
<1>1. CASE \E t \in Senders : Send(t)
  BY <1>1, Zenon DEF Send, Probe, Dispatch, ClearFd, ClearStop, ClearSink, ClearTimer
<1>2. CASE Peers
  BY <1>2, ClearsIsBoolean, ZenonT(60) DEF Peers, Accept, Reject, SessionClosed, PeerGone, Ingest, vars
<1>3. CASE Httpd \/ Capture
  BY <1>3, ZenonT(60) DEF Httpd, InstallSink, ArmTimer, Capture, GateSnapshot,
                     GatedIteration, HaltGate
<1>4. CASE Control
  BY <1>4, ProbeIsBoolean, ZenonT(60) DEF Control, StartCommand, OpenGate, StopCommand
<1>5. CASE StreamFrame \/ StatusTick
  BY <1>5, ZenonT(60) DEF StreamFrame, StatusTick
<1>6. CASE Wifi
  BY <1>6, ZenonT(60) DEF Wifi, ListenerStop, ServerDetach, ListenerStart, ServerAttach
<1>7. CASE UNCHANGED vars
  BY <1>7, ZenonT(60) DEF vars
<1> QED
  BY <1>1, <1>2, <1>3, <1>4, <1>5, <1>6, <1>7, Zenon DEF Next

\* Every state a behaviour starts in satisfies the inductive invariant.
LEMMA IndInit == Init => IndInv
<1>1. Init => Flags
  BY Zenon DEF Init, Flags
<1>2. Init => IndInv
  BY <1>1, DepthAssumption
     DEF Init, IndInv, TypeOK, SenderHoldsLock, AtMostOneLateFrame, NothingLateYet,
         ViewerComplete, UndisturbedHolds, RegistrationLive, RouteLive, Tasks, Senders, Sending, Nobody
<1> QED
  BY <1>2

\* One send, in whichever task: the labels of a send are held only under the lock.
LEMMA SendInd ==
  ASSUME IndInv, Flags', NEW t \in Senders, Send(t)
  PROVE  IndInv'
<1> USE DEF IndInv, TypeOK, SenderHoldsLock, AtMostOneLateFrame, NothingLateYet,
            Goto, Returned, Sending, server, slot, gate, command, history,
            ViewerComplete, UndisturbedHolds, RegistrationLive, RouteLive
<1>0. t \in Tasks
  BY DEF Tasks
<1>1. CASE Probe(t)
  BY <1>0, <1>1 DEF Probe, Nobody, Senders, Tasks
<1>2. CASE Dispatch(t)
  BY <1>0, <1>2 DEF Dispatch, Nobody, Senders, Tasks
<1>3. CASE ClearFd(t)
  BY <1>0, <1>3 DEF ClearFd, Senders, Tasks
<1>4. CASE ClearStop(t)
  BY <1>0, <1>4 DEF ClearStop, Senders, Tasks
<1>5. CASE ClearSink(t)
  BY <1>0, <1>5 DEF ClearSink, Senders, Tasks
<1>6. CASE ClearTimer(t)
  BY <1>0, <1>6 DEF ClearTimer, Nobody, Senders, Tasks
<1> QED
  BY <1>1, <1>2, <1>3, <1>4, <1>5, <1>6 DEF Send

\* The HTTP server's task, its sockets and their peers.
LEMMA HttpdInd ==
  ASSUME IndInv, Flags', Httpd \/ Peers
  PROVE  IndInv'
<1> USE DEF IndInv, TypeOK, SenderHoldsLock, AtMostOneLateFrame, NothingLateYet,
            Goto, Sending, Senders, Tasks, server, slot, gate, command, history,
            ViewerComplete, UndisturbedHolds, RegistrationLive, RouteLive
<1>1. CASE InstallSink
  BY <1>1 DEF InstallSink
<1>2. CASE ArmTimer
  BY <1>2 DEF ArmTimer
<1>3. ASSUME NEW f \in Fds, Accept(f)
      PROVE  IndInv'
  <2>1. undisturbed' => NobodyClears
    BY <1>3, Zenon DEF Accept
  <2>2. /\ up /\ routed /\ pc["httpd"] = "idle"
        /\ viewer_fd' = f
        /\ sock' = [sock EXCEPT ![f] = "open"]
        /\ pc' = [pc EXCEPT !["httpd"] = "install_sink"]
        /\ UNCHANGED <<up, routed, attached, sink, timer, tx, gate, command, late>>
    BY <1>3, Zenon DEF Accept
  <2> QED
    BY <1>3, <2>1, <2>2, FdAssumption DEF NobodyClears
<1>4. ASSUME NEW f \in Fds, Reject(f)
      PROVE  IndInv'
  BY <1>4 DEF Reject, vars
<1>5. ASSUME NEW f \in Fds, SessionClosed(f)
      PROVE  IndInv'
  BY <1>5 DEF SessionClosed
<1>6. ASSUME NEW f \in Fds, PeerGone(f)
      PROVE  IndInv'
  BY <1>6 DEF PeerGone
<1>7. ASSUME NEW f \in Fds, NEW cmd \in {"start", "stop"}, Ingest(f, cmd)
      PROVE  IndInv'
  <2>1. ring' \in Seq({"start", "stop"}) /\ Len(ring') <= RingDepth
    BY <1>7, DepthAssumption DEF Ingest
  <2> QED
    BY <1>7, <2>1 DEF Ingest
<1> QED
  BY <1>1, <1>2, <1>3, <1>4, <1>5, <1>6, <1>7 DEF Httpd, Peers

\* The control task.  Opening the gate starts the count of late frames anew.
LEMMA ControlInd ==
  ASSUME IndInv, Flags', Control
  PROVE  IndInv'
<1> USE DEF IndInv, TypeOK, SenderHoldsLock, AtMostOneLateFrame, NothingLateYet,
            Goto, Sending, Senders, Tasks, server, slot, gate, command, history,
            ViewerComplete, UndisturbedHolds, RegistrationLive, RouteLive
<1>1. ring # << >> => Tail(ring) \in Seq({"start", "stop"}) /\ Len(Tail(ring)) <= RingDepth
  BY DepthAssumption
<1>2. CASE StartCommand
  BY <1>1, <1>2 DEF StartCommand
<1>3. CASE OpenGate
  BY <1>3 DEF OpenGate
<1>4. CASE StopCommand
  BY <1>1, <1>4 DEF StopCommand
<1> QED
  BY <1>2, <1>3, <1>4 DEF Control

\* The capture task.  A pass that still sees the gate open adds at most one late
\* frame, because none was late when it looked.
LEMMA CaptureInd ==
  ASSUME IndInv, Flags', Capture
  PROVE  IndInv'
<1> USE DEF IndInv, TypeOK, SenderHoldsLock, AtMostOneLateFrame, NothingLateYet,
            Goto, Sending, Senders, Tasks, server, slot, gate, command, history,
            ViewerComplete, UndisturbedHolds, RegistrationLive, RouteLive
<1>1. CASE GateSnapshot
  BY <1>1 DEF GateSnapshot
<1>2. CASE GatedIteration
  <2>1. queue' \in 0..QueueDepth
    BY <1>2, DepthAssumption DEF GatedIteration
  <2>2. late' \in 0..1 /\ NothingLateYet'
    BY <1>2 DEF GatedIteration
  <2> QED
    BY <1>2, <2>1, <2>2 DEF GatedIteration
<1>3. CASE HaltGate
  BY <1>3 DEF HaltGate
<1> QED
  BY <1>1, <1>2, <1>3 DEF Capture

\* The stream task, the status timer and the Wi-Fi events.
LEMMA OthersInd ==
  ASSUME IndInv, Flags', StreamFrame \/ StatusTick \/ Wifi
  PROVE  IndInv'
<1> USE DEF IndInv, TypeOK, SenderHoldsLock, AtMostOneLateFrame, NothingLateYet,
            Goto, Sending, Senders, Tasks, server, slot, gate, command, history,
            ViewerComplete, UndisturbedHolds, RegistrationLive, RouteLive
<1>1. CASE StreamFrame
  BY <1>1, DepthAssumption DEF StreamFrame
<1>2. CASE StatusTick
  BY <1>2 DEF StatusTick
<1>3. CASE ListenerStop
  BY <1>3 DEF ListenerStop
<1>4. CASE ServerDetach
  BY <1>4 DEF ServerDetach
<1>5. CASE ListenerStart
  BY <1>5 DEF ListenerStart
<1>6. CASE ServerAttach
  BY <1>6 DEF ServerAttach
<1> QED
  BY <1>1, <1>2, <1>3, <1>4, <1>5, <1>6 DEF Wifi

\* Every step of the firmware and of its peers preserves the invariant.
LEMMA IndNext == IndInv /\ [Next]_vars => IndInv'
<1> SUFFICES ASSUME IndInv, [Next]_vars
             PROVE  IndInv'
  OBVIOUS
<1>1. Flags'
  BY FlagsNext DEF IndInv, TypeOK
<1>2. CASE UNCHANGED vars
  BY <1>1, <1>2 DEF vars, server, slot, gate, command, history, IndInv, TypeOK,
                    SenderHoldsLock, AtMostOneLateFrame, NothingLateYet,
                    ViewerComplete, UndisturbedHolds, RegistrationLive, RouteLive
<1> QED
  BY <1>1, <1>2, SendInd, HttpdInd, ControlInd, CaptureInd, OthersInd DEF Next

LEMMA IndCorrect == Spec => []IndInv
BY IndInit, IndNext, PTL DEF Spec

\* The types hold in every reachable state.
THEOREM TypeCorrect == Spec => []TypeOK
<1>1. IndInv => TypeOK
  BY DEF IndInv
<1> QED
  BY <1>1, IndCorrect, PTL

\* Two tasks are never inside the sink's dispatch together, whatever faults the
\* peers and the access point produce.
THEOREM TxExclusion == Spec => []TxExclusive
<1>1. IndInv => TxExclusive
  BY DEF IndInv, SenderHoldsLock, TxExclusive
<1> QED
  BY <1>1, IndCorrect, PTL

\* After the gate closed at most one more frame is captured, for every queue
\* depth and however commands, stop words and passes interleave.
THEOREM GateCorrect == Spec => []AtMostOneLateFrame
<1>1. IndInv => AtMostOneLateFrame
  BY DEF IndInv
<1> QED
  BY <1>1, IndCorrect, PTL

\* A viewer that took the slot while nobody was clearing it keeps the sink and the
\* timer for as long as it keeps the slot, whatever faults there are.
THEOREM ViewerCorrect == Spec => []ViewerComplete
<1>1. IndInv => ViewerComplete
  BY DEF IndInv
<1> QED
  BY <1>1, IndCorrect, PTL

\* The registration of /cams never outlives the server it was made on.
THEOREM RegistrationCorrect == Spec => []RegistrationLive
<1>1. IndInv => RegistrationLive
  BY DEF IndInv
<1> QED
  BY <1>1, IndCorrect, PTL

\* A session the server still lists never loses the slot to a handshake.
THEOREM SlotCorrect == Spec => SlotNotStolen
<1> DEFINE Kept == \A f \in Fds : viewer_fd = f /\ sock[f] # "closed"
                                    => viewer_fd' \in {f, NoFd}
<1>1. RouteLive /\ Next => Kept
  <2> SUFFICES ASSUME RouteLive, Next PROVE Kept
    OBVIOUS
  <2>1. CASE \E t \in Senders : Send(t)
    BY <2>1 DEF Send, Probe, Dispatch, ClearFd, ClearStop, ClearSink, ClearTimer, slot
  <2>2. ASSUME NEW f \in Fds, Accept(f)
        PROVE  Kept
    <3>1. FALSE \in ProbeAnswers /\ attached /\ up
      BY <2>2, Zenon DEF Accept, RouteLive
    <3>2. viewer_fd' = f /\ sock[f] = "closed"
      BY <2>2, Zenon DEF Accept
    <3> QED
      BY <3>1, <3>2, FdAssumption DEF ProbeAnswers
  <2>3. CASE Peers
    BY <2>2, <2>3 DEF Peers, Reject, SessionClosed, PeerGone, Ingest, slot, vars
  <2>4. CASE Httpd \/ Control \/ Capture \/ StreamFrame \/ StatusTick
    BY <2>4 DEF Httpd, InstallSink, ArmTimer, Control, StartCommand, OpenGate,
                StopCommand, Capture, GateSnapshot, GatedIteration, HaltGate,
                StreamFrame, StatusTick, slot
  <2>5. CASE Wifi
    BY <2>5 DEF Wifi, ListenerStop, ServerDetach, ListenerStart, ServerAttach, slot
  <2> QED
    BY <2>1, <2>3, <2>4, <2>5 DEF Next
<1>2. IndInv /\ [Next]_vars => [Kept]_vars
  BY <1>1 DEF IndInv
<1> QED
  BY <1>2, IndCorrect, PTL DEF Spec, SlotNotStolen

\* The other tasks leave the capture task where it is, take frames from the queue but
\* put none there, and never lower the stop word.
LEMMA OthersLeaveWord ==
  ASSUME IndInv, [Next]_vars, ~Capture
  PROVE  /\ pc'["capture"] = pc["capture"]
         /\ queue' <= queue
         /\ gate_seen' = gate_seen
         /\ stop_req => stop_req'
<1> USE DEF server, slot, gate, command, history, Goto
<1>1. /\ pc \in [Tasks -> {"idle", "probe", "install_sink", "arm_timer", "open_gate",
                           "take", "halt", "attach", "detach"} \union Sending]
      /\ queue \in Nat
  BY DEF IndInv, TypeOK
<1> DEFINE Elsewhere == \E t \in Tasks \ {"capture"} : \E l : pc' = [pc EXCEPT ![t] = l]
<1>2. ASSUME UNCHANGED pc \/ Elsewhere
      PROVE  pc'["capture"] = pc["capture"]
  BY <1>1, <1>2 DEF Tasks
<1>3. ASSUME UNCHANGED queue
      PROVE  queue' <= queue
  BY <1>1, <1>3
<1>4. ASSUME NEW t \in Senders, Send(t)
      PROVE  /\ Elsewhere
             /\ UNCHANGED <<queue, gate_seen>>
             /\ stop_req => stop_req'
  <2>1. t \in Tasks \ {"capture"}
    BY DEF Tasks, Senders
  <2>2. Elsewhere
    BY <1>4, <2>1, Zenon DEF Send, Probe, Dispatch, ClearFd, ClearStop, ClearSink, ClearTimer
  <2>3. CASE ClearStop(t)
    BY <2>2, <2>3, Zenon DEF ClearStop
  <2>4. CASE ~ClearStop(t)
    <3>1. UNCHANGED <<queue, gate_seen, stop_req>>
      BY <1>4, <2>4, Zenon DEF Send, Probe, Dispatch, ClearFd, ClearSink, ClearTimer
    <3> QED
      BY <2>2, <3>1, Zenon
  <2> QED
    BY <2>3, <2>4
<1>5. CASE Peers
  <2>1. UNCHANGED pc \/ Elsewhere
    BY <1>5, Zenon DEF Peers, Accept, Reject, SessionClosed, PeerGone, Ingest, vars, Tasks, Senders
  <2>2. UNCHANGED <<queue, gate_seen, stop_req>>
    BY <1>5, Zenon DEF Peers, Accept, Reject, SessionClosed, PeerGone, Ingest, vars
  <2> QED
    BY <1>2, <1>3, <2>1, <2>2
<1>6. CASE Httpd \/ Control \/ StatusTick \/ Wifi
  <2>1. Elsewhere
    BY <1>6, Zenon DEF Httpd, InstallSink, ArmTimer, Control, StartCommand, OpenGate,
            StopCommand, StatusTick, Wifi, ListenerStop, ServerDetach, ListenerStart,
            ServerAttach, Tasks, Senders
  <2>2. UNCHANGED <<queue, gate_seen, stop_req>>
    BY <1>6, Zenon DEF Httpd, InstallSink, ArmTimer, Control, StartCommand, OpenGate,
            StopCommand, StatusTick, Wifi, ListenerStop, ServerDetach, ListenerStart,
            ServerAttach
  <2> QED
    BY <1>2, <1>3, <2>1, <2>2
<1>7. CASE StreamFrame
  <2>1. Elsewhere
    BY <1>7, Zenon DEF StreamFrame, Tasks, Senders
  <2>2. queue' <= queue
    BY <1>1, <1>7 DEF StreamFrame
  <2>3. UNCHANGED <<gate_seen, stop_req>>
    BY <1>7, Zenon DEF StreamFrame
  <2> QED
    BY <1>2, <2>1, <2>2, <2>3
<1>8. CASE UNCHANGED vars
  BY <1>2, <1>3, <1>8, Zenon DEF vars
<1> QED
  BY <1>2, <1>3, <1>4, <1>5, <1>6, <1>7, <1>8, Zenon DEF Next

\* The capture task itself obeys a word that is due, and captures nothing meanwhile.
LEMMA CaptureObeys ==
  ASSUME IndInv, WordDue, Capture
  PROVE  /\ queue' = queue
         /\ ~running' \/ (WordDue' /\ StepsToHalt' < StepsToHalt)
<1> USE DEF server, slot, gate, command, history, Goto, StepsToHalt
<1>1. "capture" \in DOMAIN pc
  BY DEF IndInv, TypeOK, Tasks
<1>2. CASE GateSnapshot
  <2>1. running /\ stop_req
    BY <1>2 DEF WordDue, GateSnapshot
  <2>2. gate_seen' /\ running' /\ stop_req'
    BY <1>2, <2>1, Zenon DEF GateSnapshot
  <2>3. WordDue'
    BY <2>2, Zenon DEF WordDue
  <2>4. UNCHANGED queue /\ pc["capture"] = "idle" /\ pc'["capture"] = "take"
    BY <1>1, <1>2 DEF GateSnapshot
  <2> QED
    BY <2>3, <2>4
<1>3. CASE GatedIteration
  <2>1. running /\ stop_req /\ gate_seen
    BY <1>3 DEF WordDue, GatedIteration
  <2>2. running' /\ UNCHANGED queue
    BY <1>3, <2>1, Zenon DEF GatedIteration
  <2>3. pc["capture"] = "take" /\ pc'["capture"] = "halt"
    BY <1>1, <1>3, <2>1 DEF GatedIteration
  <2>4. WordDue'
    BY <2>2, <2>3, Zenon DEF WordDue
  <2> QED
    BY <2>2, <2>3, <2>4
<1>4. CASE HaltGate
  BY <1>4, Zenon DEF HaltGate
<1> QED
  BY <1>2, <1>3, <1>4 DEF Capture

\* For any number of sockets, any queue, ring and faults: once the capture task is bound
\* to see a stop word, nothing any task does takes it away, and it closes the gate
\* within three steps, without another frame.
THEOREM WordCorrect == Spec => StopWordKept
<1> DEFINE Step ==
      WordDue =>
        /\ queue' <= queue
        /\ \/ ~running'
           \/ /\ WordDue'
              /\ pc'["capture"] = pc["capture"] \/ StepsToHalt' < StepsToHalt
<1>1. ASSUME IndInv, [Next]_vars
      PROVE  Step
  <2> SUFFICES ASSUME WordDue
               PROVE  /\ queue' <= queue
                      /\ \/ ~running'
                         \/ /\ WordDue'
                            /\ \/ pc'["capture"] = pc["capture"]
                               \/ StepsToHalt' < StepsToHalt
    OBVIOUS
  <2>1. CASE Capture
    <3>1. queue \in Nat
      BY <1>1 DEF IndInv, TypeOK
    <3> QED
      BY <1>1, <2>1, <3>1, CaptureObeys
  <2>2. CASE ~Capture
    <3>1. running' => WordDue'
      BY <1>1, <2>2, OthersLeaveWord, Zenon DEF WordDue
    <3> QED
      BY <1>1, <2>2, <3>1, OthersLeaveWord
  <2> QED
    BY <2>1, <2>2
<1> QED
  BY <1>1, IndCorrect, PTL DEF Spec, StopWordKept
=============================================================================
