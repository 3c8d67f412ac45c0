------------------------------- MODULE Relay -------------------------------
(***************************************************************************)
(* The backend's ingest of one camera: relay.go's sessions under the       *)
(* claims of hub.go's viewers.                                             *)
(*                                                                         *)
(* The first claim starts a session, a goroutine that dials the camera and *)
(* publishes what it reads; the last release removes the session, closes   *)
(* its connection if there is one registered, and cancels the goroutine,   *)
(* which may be anywhere in its loop.  The next claim then starts another  *)
(* session beside it.  Sessions of different MACs share nothing but the    *)
(* lock.  The camera is external: it serves one connection and closes a    *)
(* second one right after the handshake (ws_server.c).                     *)
(***************************************************************************)
EXTENDS Integers, FiniteSets

CONSTANTS
  Viewers,        \* the HTTP requests for this camera's stream
  Sessions,       \* cameraSession objects; one is reused when its goroutine ended
  None,           \* no session
  Stale,          \* the camera still serves a connection that has ended
  MinDelay,       \* minReconnectDelay
  MaxDelay        \* maxReconnectDelay

ASSUME ViewersAssumption == IsFiniteSet(Viewers)
ASSUME SessionsAssumption == None \notin Sessions /\ Stale \notin Sessions /\ None # Stale
ASSUME DelayAssumption ==
  /\ MinDelay \in Nat \ {0}
  /\ MaxDelay \in Nat
  /\ MinDelay <= MaxDelay

VARIABLES
  claim,          \* where each request is in ServeHTTP
  threads,        \* its goroutines that may still call viewer.shutdown
  closed,         \* Relay.closed
  current,        \* Relay.sessions[mac]
  count,          \* cameraSession.viewers
  conn,           \* cameraSession.conn is set
  cancelled,      \* the session's context is cancelled
  pc,             \* where the session's goroutine is in run and consume
  delay,          \* its reconnect delay
  link,           \* its WebSocket: none (or closed), open, or dead at the other end
  slot            \* external: whose connection the camera serves

hub == <<claim, threads>>
table == <<closed, current, count, conn, cancelled>>
loop == <<pc, delay>>
net == <<link, slot>>
vars == <<hub, table, loop, net>>

Consuming == {"hello", "start", "loop", "read", "publish"}
Places == {"free", "dial", "register", "close", "unregister", "check", "wait"} \cup Consuming
Goroutines == {"reader", "writer"}

TypeOK ==
  /\ claim \in [Viewers -> {"idle", "acquired", "serving", "stopped"}]
  /\ threads \in [Viewers -> SUBSET Goroutines]
  /\ closed \in BOOLEAN
  /\ current \in Sessions \cup {None}
  /\ count \in [Sessions -> Nat]
  /\ conn \in [Sessions -> BOOLEAN]
  /\ cancelled \in [Sessions -> BOOLEAN]
  /\ pc \in [Sessions -> Places]
  /\ delay \in [Sessions -> MinDelay..MaxDelay]
  /\ link \in [Sessions -> {"none", "open", "dead"}]
  /\ slot \in Sessions \cup {None, Stale}

\* The requests that have acquired the camera and not released it yet.
Holders == {v \in Viewers : claim[v] \in {"acquired", "serving"}}

Init ==
  /\ claim = [v \in Viewers |-> "idle"]
  /\ threads = [v \in Viewers |-> {}]
  /\ closed = FALSE
  /\ current = None
  /\ count = [s \in Sessions |-> 0]
  /\ conn = [s \in Sessions |-> FALSE]
  /\ cancelled = [s \in Sessions |-> FALSE]
  /\ pc = [s \in Sessions |-> "free"]
  /\ delay = [s \in Sessions |-> MinDelay]
  /\ link = [s \in Sessions |-> "none"]
  /\ slot = None
-----------------------------------------------------------------------------
(* Connections *)

\* conn.Close(); a second Close does nothing.
CloseLink(s) ==
  /\ link' = [link EXCEPT ![s] = "none"]
  /\ slot' = IF slot = s THEN Stale ELSE slot

\* The camera closes the connection (a second one at once), or TCP finds it gone.
LinkDies(s) ==
  /\ link[s] = "open"
  /\ link' = [link EXCEPT ![s] = "dead"]
  /\ slot' = IF slot = s THEN Stale ELSE slot
  /\ UNCHANGED <<hub, table, loop>>

\* The camera restarts or drops its viewer; the backend has not noticed.
CameraForgets ==
  /\ slot # None
  /\ slot' = None
  /\ UNCHANGED <<hub, table, loop, link>>
-----------------------------------------------------------------------------
(* relay.go: Acquire, Release, Close *)

\* Acquire, when the relay has a session: one viewer more.
JoinSession ==
  /\ current # None
  /\ count' = [count EXCEPT ![current] = @ + 1]
  /\ UNCHANGED <<closed, current, conn, cancelled, loop, net>>

\* Acquire, when it has none: a new session and its goroutine.
StartSession ==
  /\ current = None
  /\ \E s \in Sessions :
       /\ pc[s] = "free"
       /\ current' = s
       /\ count' = [count EXCEPT ![s] = 1]
       /\ conn' = [conn EXCEPT ![s] = FALSE]
       /\ cancelled' = [cancelled EXCEPT ![s] = FALSE]
       /\ pc' = [pc EXCEPT ![s] = "dial"]
       /\ delay' = [delay EXCEPT ![s] = MinDelay]
  /\ UNCHANGED <<closed, net>>

\* Fault: removal without closing the registered connection.
DropOnly ==
  /\ current' = None
  /\ cancelled' = [cancelled EXCEPT ![current] = TRUE]
  /\ UNCHANGED net

\* Fault: removal without cancelling the goroutine.
DropUncancelled ==
  /\ current' = None
  /\ IF conn[current] THEN CloseLink(current) ELSE UNCHANGED net
  /\ UNCHANGED cancelled

\* Out of the map, its registered connection closed, its goroutine cancelled.
Drop ==
  /\ current' = None
  /\ cancelled' = [cancelled EXCEPT ![current] = TRUE]
  /\ IF conn[current] THEN CloseLink(current) ELSE UNCHANGED net

\* Release: with the relay closed there is no session left to release.
Release ==
  IF current = None THEN UNCHANGED <<table, loop, net>>
  ELSE /\ count' = [count EXCEPT ![current] = @ - 1]
       /\ IF count[current] > 1 THEN UNCHANGED <<current, cancelled, net>> ELSE Drop
       /\ UNCHANGED <<closed, conn, loop>>

Close ==
  /\ ~closed
  /\ closed' = TRUE
  /\ IF current = None THEN UNCHANGED <<current, cancelled, net>> ELSE Drop
  /\ UNCHANGED <<hub, count, conn, loop>>
-----------------------------------------------------------------------------
(* hub.go: ServeHTTP *)

\* The request is accepted when Acquire succeeds.
Acquire(v) ==
  /\ claim[v] = "idle"
  /\ ~closed
  /\ claim' = [claim EXCEPT ![v] = "acquired"]
  /\ JoinSession \/ StartSession
  /\ UNCHANGED threads

UpgradeFails(v) ==
  /\ claim[v] = "acquired"
  /\ claim' = [claim EXCEPT ![v] = "idle"]
  /\ Release
  /\ UNCHANGED threads

\* Upgrade, addViewer; without the stream_meta message no writer is started.
Upgrade(v) ==
  /\ claim[v] = "acquired"
  /\ claim' = [claim EXCEPT ![v] = "serving"]
  /\ \E g \in {{"reader"}, Goroutines} : threads' = [threads EXCEPT ![v] = g]
  /\ UNCHANGED <<table, loop, net>>

\* Fault: viewer.shutdown without the sync.Once.
ShutdownEachTime(v, g) ==
  /\ g \in threads[v]
  /\ threads' = [threads EXCEPT ![v] = @ \ {g}]
  /\ claim' = [claim EXCEPT ![v] = IF threads[v] = {g} THEN "idle" ELSE "stopped"]
  /\ Release

\* viewer.shutdown: the first of the viewer's goroutines to end releases.
Shutdown(v, g) ==
  /\ g \in threads[v]
  /\ threads' = [threads EXCEPT ![v] = @ \ {g}]
  /\ claim' = [claim EXCEPT ![v] = IF threads[v] = {g} THEN "idle" ELSE "stopped"]
  /\ IF claim[v] = "serving" THEN Release ELSE UNCHANGED <<table, loop, net>>
-----------------------------------------------------------------------------
(* relay.go: run and consume *)

\* The delay is a local of run and ends with it.
Goto(s, p) ==
  /\ pc' = [pc EXCEPT ![s] = p]
  /\ delay' = [delay EXCEPT ![s] = IF p = "free" THEN MinDelay ELSE @]

\* The handshake succeeds, cancelled or not; a busy camera will hang up after it.
\* The delay starts over after any dial that succeeded; nothing reads it before.
DialSucceeds(s) ==
  /\ pc[s] = "dial"
  /\ link' = [link EXCEPT ![s] = "open"]
  /\ slot' = IF slot = None THEN s ELSE slot
  /\ pc' = [pc EXCEPT ![s] = "register"]
  /\ delay' = [delay EXCEPT ![s] = MinDelay]
  /\ UNCHANGED <<hub, table>>

\* Fault: the goroutine ends after a dial that failed, cancelled or not.
DialFailsForGood(s) ==
  /\ pc[s] = "dial"
  /\ Goto(s, "free")
  /\ UNCHANGED <<hub, table, net>>

DialFails(s) ==
  /\ pc[s] = "dial"
  /\ Goto(s, "check")
  /\ UNCHANGED <<hub, table, net>>

\* Fault: no look at the map before the connection is registered.
RegisterAlways(s) ==
  /\ pc[s] = "register"
  /\ conn' = [conn EXCEPT ![s] = TRUE]
  /\ Goto(s, "hello")
  /\ UNCHANGED <<hub, closed, current, count, cancelled, net>>

\* Under the lock: a session that was removed meanwhile closes what it dialled.
Register(s) ==
  /\ pc[s] = "register"
  /\ IF current = s
     THEN conn' = [conn EXCEPT ![s] = TRUE] /\ Goto(s, "hello") /\ UNCHANGED net
     ELSE CloseLink(s) /\ Goto(s, "free") /\ UNCHANGED conn
  /\ UNCHANGED <<hub, closed, current, count, cancelled>>

\* Reading the hello: another message or another camera's hello is an error.
ReadHello(s) ==
  /\ pc[s] = "hello"
  /\ \E p \in {"start", "close"} :
       /\ p = "start" => link[s] = "open" /\ slot = s
       /\ Goto(s, p)
  /\ UNCHANGED <<hub, table, net>>

\* The stream command is written.
StartStream(s) ==
  /\ pc[s] = "start"
  /\ \E p \in {"loop", "close"} :
       /\ p = "loop" => link[s] = "open"
       /\ Goto(s, p)
  /\ UNCHANGED <<hub, table, net>>

\* select on ctx.Done before each read.
LoopCheck(s) ==
  /\ pc[s] = "loop"
  /\ Goto(s, IF cancelled[s] THEN "close" ELSE "read")
  /\ UNCHANGED <<hub, table, net>>

\* ReadMessage has no deadline: it returns a message, or when the link is gone.
\* One that lies complete in the reader's buffer when another goroutine closes the
\* connection may still be returned; it counts as read before the closing.
ReadMessage(s) ==
  /\ pc[s] = "read"
  /\ link[s] = "open"
  /\ slot = s
  /\ Goto(s, "publish")
  /\ UNCHANGED <<hub, table, net>>

ReadFails(s) ==
  /\ pc[s] = "read"
  /\ link[s] # "open"
  /\ Goto(s, "close")
  /\ UNCHANGED <<hub, table, net>>

Publish(s) ==
  /\ pc[s] = "publish"
  /\ Goto(s, "loop")
  /\ UNCHANGED <<hub, table, net>>

CloseConn(s) ==
  /\ pc[s] = "close"
  /\ CloseLink(s)
  /\ Goto(s, "unregister")
  /\ UNCHANGED <<hub, table>>

\* Under the lock again.
Unregister(s) ==
  /\ pc[s] = "unregister"
  /\ conn' = [conn EXCEPT ![s] = @ /\ current # s]
  /\ Goto(s, "check")
  /\ UNCHANGED <<hub, closed, current, count, cancelled, net>>

\* Fault: a session that failed is over, cancelled or not.
GiveUp(s) ==
  /\ pc[s] = "check"
  /\ Goto(s, "free")
  /\ UNCHANGED <<hub, table, net>>

CheckCancelled(s) ==
  /\ pc[s] = "check"
  /\ Goto(s, IF cancelled[s] THEN "free" ELSE "wait")
  /\ UNCHANGED <<hub, table, net>>

Doubled(d) == IF 2 * d > MaxDelay THEN MaxDelay ELSE 2 * d

WaitElapses(s) ==
  /\ pc[s] = "wait"
  /\ pc' = [pc EXCEPT ![s] = "dial"]
  /\ delay' = [delay EXCEPT ![s] = Doubled(@)]
  /\ UNCHANGED <<hub, table, net>>

WaitCancelled(s) ==
  /\ pc[s] = "wait"
  /\ cancelled[s]
  /\ Goto(s, "free")
  /\ UNCHANGED <<hub, table, net>>
-----------------------------------------------------------------------------
\* What the goroutine of session s does without the camera's help.
Progress(s) ==
  \/ DialSucceeds(s)
  \/ DialFails(s)
  \/ Register(s)
  \/ StartStream(s)
  \/ LoopCheck(s)
  \/ ReadFails(s)
  \/ Publish(s)
  \/ CloseConn(s)
  \/ Unregister(s)
  \/ CheckCancelled(s)
  \/ WaitElapses(s)
  \/ WaitCancelled(s)

Request(v) ==
  \/ Acquire(v)
  \/ UpgradeFails(v)
  \/ Upgrade(v)
  \/ \E g \in Goroutines : Shutdown(v, g)

Next ==
  \/ \E v \in Viewers : Request(v)
  \/ Close
  \/ \E s \in Sessions : Progress(s) \/ ReadHello(s) \/ ReadMessage(s) \/ LinkDies(s)
  \/ CameraForgets

Spec == Init /\ [][Next]_vars

\* Goroutines are scheduled, a dial ends (HandshakeTimeout), timers expire, and
\* a read returns once its connection is closed.  The camera owes nothing: not
\* even a hello on an open connection.
FairSpec ==
  /\ Spec
  /\ \A s \in Sessions :
       /\ WF_vars(Progress(s))
       /\ WF_vars(link[s] # "open" /\ ReadHello(s))
-----------------------------------------------------------------------------
(* Properties *)

\* The session's viewer count is the number of requests that hold a claim, and
\* the relay has a session exactly while someone does: no claim is released
\* twice or kept by a request that is gone (hub.go's Once, Acquire, Release).
ClaimsCounted ==
  ~closed =>
    IF current = None THEN Holders = {}
    ELSE Holders # {} /\ count[current] = Cardinality(Holders)

\* The session that viewers hold always has a goroutine that is not cancelled.
SessionAlive == current # None => pc[current] # "free" /\ ~cancelled[current]

\* A session that was removed from the map never sits in a read, which has no
\* deadline, on a connection nobody will close: whichever of Release and the
\* dial comes first, one of them closes it (relay.go:127-140, 171-180).
NobodyStranded ==
  \A s \in Sessions :
    /\ pc[s] \in Consuming /\ current # s => link[s] # "open"
    /\ pc[s] = "free" => link[s] = "none"

\* Only the session in the map takes messages from the camera; a cancelled one
\* at most publishes a message that had already arrived.
OnlyCurrentIngests ==
  [][\A s \in Sessions : ReadMessage(s) => current = s]_vars

\* Strengthenings, for the proofs: a session is in the map with a positive count
\* and only while the relay is open; its connection is registered while it
\* consumes; and between two dials it has none.
SessionCounted == current # None => ~closed /\ count[current] > 0

Registered == \A s \in Sessions : pc[s] \in Consuming /\ current = s => conn[s]

NoneBetweenDials ==
  \A s \in Sessions :
    pc[s] \in {"free", "dial", "unregister", "check", "wait"} => link[s] = "none"

ThreadsServe == \A v \in Viewers : threads[v] # {} => claim[v] \in {"serving", "stopped"}

\* Inductive; with it, ThreadsServe and then ClaimsCounted are.
IndInv ==
  /\ TypeOK
  /\ SessionCounted
  /\ SessionAlive
  /\ Registered
  /\ NoneBetweenDials
  /\ NobodyStranded

\* Every goroutine whose session is not in the map has been told to end.
RemovedCancelled ==
  \A s \in Sessions : current # s => pc[s] = "free" \/ cancelled[s]

\* ... and a connection that is open without being the current session's is about
\* to be closed by the goroutine that has it (relay.go:173-180, 181-188).
StrayCloses ==
  \A s \in Sessions :
    current # s /\ link[s] = "open" => cancelled[s] /\ pc[s] \in {"register", "close"}

\* The steps a goroutine has left at most once its session is removed.
StepsLeft(p) ==
  CASE p = "free" -> 0
    [] p \in {"check", "register"} -> 1
    [] p \in {"unregister", "dial"} -> 2
    [] p \in {"close", "wait"} -> 3
    [] p \in {"hello", "start", "loop", "read"} -> 4
    [] p = "publish" -> 5

\* A removed session never comes back, and wherever its goroutine was it has at most
\* five steps left: at most one more dial, and no more read, reconnection or wait
\* (relay.go: run, wait).
WindsDown ==
  [][\A s \in Sessions :
       current # s /\ pc[s] # "free" =>
         /\ current' # s
         /\ pc'[s] = pc[s] \/ StepsLeft(pc'[s]) < StepsLeft(pc[s])]_vars

\* A session whose last viewer left ends: its goroutine returns, with its
\* connection closed, so that the next session can have the camera.
RemovedEnds ==
  \A s \in Sessions : (current # s) ~> (pc[s] = "free" /\ link[s] = "none")

\* As long as a viewer holds it, a session that is not connected dials again and
\* again, whether it lost the camera or never had it: no failed dial, bad hello or
\* lost connection is the last (relay.go: run; backend-prd.md's infinite retries).
RetriesForever ==
  \A s \in Sessions : []<>(current # s \/ link[s] = "open" \/ pc[s] = "dial")

=============================================================================
