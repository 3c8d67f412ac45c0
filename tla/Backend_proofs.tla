--------------------------- MODULE Backend_proofs ---------------------------
(***************************************************************************)
(* Proofs about the backend.  First Relay: its types, that no session is   *)
(* stranded or silently dead, that only the session in the map ingests,    *)
(* and that claims are counted.  Then Discovery: the order of the feeder's *)
(* loops, and that a sweep nobody cancels misses nothing and leaves no     *)
(* goroutine behind.  The two share no name, and no step.                  *)
(***************************************************************************)
EXTENDS Relay, Discovery, FiniteSetTheorems, SequenceTheorems, TLAPS

LEMMA IndInit == Init => IndInv
<1> SUFFICES ASSUME Init PROVE IndInv
  OBVIOUS
<1>1. closed \in BOOLEAN /\ conn \in [Sessions -> BOOLEAN] /\ cancelled \in [Sessions -> BOOLEAN]
  BY Zenon DEF Init
<1>2. MinDelay \in MinDelay..MaxDelay
  BY DelayAssumption
<1>3. TypeOK
  BY <1>1, <1>2 DEF Init, TypeOK, Places, Consuming, Goroutines
<1>4. SessionCounted /\ SessionAlive
  BY Zenon DEF Init, SessionCounted, SessionAlive
<1>5. Registered /\ NoneBetweenDials /\ NobodyStranded
  BY DEF Init, Registered, NoneBetweenDials, NobodyStranded, Consuming
<1> QED
  BY <1>3, <1>4, <1>5 DEF IndInv

\* Doubling keeps a delay within its bounds.
LEMMA DoubledBounds == \A d \in MinDelay..MaxDelay : Doubled(d) \in MinDelay..MaxDelay
BY DelayAssumption DEF Doubled

\* Taking the current session out of the map, by Release or by Close.
LEMMA DropInd ==
  ASSUME IndInv, current # None, Drop,
         closed' \in BOOLEAN, claim' \in [Viewers -> {"idle", "acquired", "serving", "stopped"}],
         threads' \in [Viewers -> SUBSET Goroutines],
         count' \in [Sessions -> Nat], UNCHANGED <<conn, loop>>
  PROVE  IndInv'
<1> USE SessionsAssumption DEF IndInv, SessionCounted, SessionAlive, Registered,
        NoneBetweenDials, NobodyStranded, Consuming, loop, net
<1>0. current \in Sessions /\ current' = None /\ UNCHANGED <<pc, conn, delay>>
  BY DEF TypeOK, Drop
<1>1. CASE conn[current]
  <2>1. TypeOK'
    BY <1>0, <1>1 DEF TypeOK, Drop, CloseLink
  <2>2. link'[current] = "none" /\ \A s \in Sessions : link'[s] \in {link[s], "none"}
    BY <1>0, <1>1 DEF TypeOK, Drop, CloseLink
  <2> QED
    BY <1>0, <2>1, <2>2
<1>2. CASE ~conn[current]
  <2>1. TypeOK'
    BY <1>0, <1>2 DEF TypeOK, Drop
  <2>2. link' = link
    BY <1>2 DEF Drop
  <2> QED
    BY <1>0, <1>2, <2>1, <2>2
<1> QED
  BY <1>1, <1>2

\* One viewer's claim is given up.
LEMMA ReleaseInd ==
  ASSUME IndInv, Release,
         claim' \in [Viewers -> {"idle", "acquired", "serving", "stopped"}],
         threads' \in [Viewers -> SUBSET Goroutines]
  PROVE  IndInv'
<1>1. CASE current = None
  BY <1>1 DEF Release, IndInv, TypeOK, SessionCounted, SessionAlive, Registered,
              NoneBetweenDials, NobodyStranded, table, loop, net
<1>2. CASE current # None
  <2>1. current \in Sessions /\ count[current] \in Nat /\ count[current] > 0
    BY <1>2 DEF IndInv, TypeOK, SessionCounted
  <2>2. count' \in [Sessions -> Nat] /\ UNCHANGED <<closed, conn, loop>>
    BY <1>2, <2>1 DEF Release, IndInv, TypeOK
  <2>3. CASE count[current] > 1
    <3>1. UNCHANGED <<current, cancelled, net>> /\ count'[current] > 0
      BY <1>2, <2>1, <2>3 DEF Release, IndInv, TypeOK
    <3> QED
      BY <2>2, <3>1 DEF IndInv, TypeOK, SessionCounted, SessionAlive, Registered,
                        NoneBetweenDials, NobodyStranded, loop, net
  <2>4. CASE ~(count[current] > 1)
    BY <1>2, <2>2, <2>4, DropInd DEF Release, IndInv, TypeOK
  <2> QED
    BY <2>3, <2>4
<1> QED
  BY <1>1, <1>2

\* The requests: everything ServeHTTP does to the relay.
LEMMA RequestInd ==
  ASSUME IndInv, NEW v \in Viewers, Request(v)
  PROVE  IndInv'
<1>1. CASE Acquire(v)
  <2>1. claim' \in [Viewers -> {"idle", "acquired", "serving", "stopped"}] /\ threads' = threads
    BY <1>1 DEF Acquire, IndInv, TypeOK
  <2>2. CASE JoinSession
    BY <2>1, <2>2 DEF JoinSession, IndInv, TypeOK, SessionCounted, SessionAlive,
                      Registered, NoneBetweenDials, NobodyStranded, loop, net
  <2>3. CASE StartSession
    <3>1. PICK s \in Sessions :
            /\ pc[s] = "free"
            /\ current' = s
            /\ count' = [count EXCEPT ![s] = 1]
            /\ conn' = [conn EXCEPT ![s] = FALSE]
            /\ cancelled' = [cancelled EXCEPT ![s] = FALSE]
            /\ pc' = [pc EXCEPT ![s] = "dial"]
            /\ delay' = [delay EXCEPT ![s] = MinDelay]
      BY <2>3 DEF StartSession
    <3>2. current = None /\ ~closed /\ UNCHANGED <<closed, link, slot>>
      BY <1>1, <2>3 DEF Acquire, StartSession, net
    <3>3. TypeOK'
      BY <2>1, <3>1, <3>2, DelayAssumption DEF IndInv, TypeOK, Places, Consuming
    <3> QED
      BY <3>1, <3>2, <3>3, SessionsAssumption
         DEF IndInv, TypeOK, SessionCounted, SessionAlive, Registered,
             NoneBetweenDials, NobodyStranded, Consuming
  <2> QED
    BY <1>1, <2>2, <2>3 DEF Acquire
<1>2. CASE UpgradeFails(v)
  BY <1>2, ReleaseInd DEF UpgradeFails, IndInv, TypeOK
<1>3. CASE Upgrade(v)
  BY <1>3 DEF Upgrade, Goroutines, IndInv, TypeOK, SessionCounted, SessionAlive,
              Registered, NoneBetweenDials, NobodyStranded, table, loop, net
<1>4. ASSUME NEW g \in Goroutines, Shutdown(v, g)
      PROVE  IndInv'
  <2>1. /\ claim' \in [Viewers -> {"idle", "acquired", "serving", "stopped"}]
        /\ threads' \in [Viewers -> SUBSET Goroutines]
    BY <1>4 DEF Shutdown, IndInv, TypeOK
  <2>2. CASE Release
    BY <2>1, <2>2, ReleaseInd
  <2>3. CASE UNCHANGED <<table, loop, net>>
    BY <2>1, <2>3 DEF IndInv, TypeOK, SessionCounted, SessionAlive, Registered,
                      NoneBetweenDials, NobodyStranded, table, loop, net
  <2> QED
    BY <1>4, <2>2, <2>3 DEF Shutdown
<1> QED
  BY <1>1, <1>2, <1>3, <1>4 DEF Request

\* The session's goroutine, wherever the requests have left its session.
LEMMA GoroutineInd ==
  ASSUME IndInv, NEW s \in Sessions, Progress(s) \/ ReadHello(s) \/ ReadMessage(s)
  PROVE  IndInv'
<1> USE SessionsAssumption
        DEF IndInv, TypeOK, SessionCounted, SessionAlive, Registered, NoneBetweenDials,
            NobodyStranded, Consuming, Places, Goto, hub, table, net
<1>0. MinDelay \in MinDelay..MaxDelay
  BY DelayAssumption
<1>1. CASE DialSucceeds(s)
  BY <1>1, <1>0 DEF DialSucceeds
<1>2. CASE DialFails(s) \/ Publish(s) \/ ReadFails(s) \/ ReadMessage(s)
  BY <1>2 DEF DialFails, Publish, ReadFails, ReadMessage
<1>3. CASE Register(s)
  <2>1. CASE current = s
    <3>1. conn' \in [Sessions -> BOOLEAN] /\ conn'[s]
      <4> HIDE DEF IndInv, SessionCounted, SessionAlive, Registered, NoneBetweenDials,
                   NobodyStranded
      <4>1. conn \in [Sessions -> BOOLEAN]
        BY DEF IndInv
      <4>2. conn' = [conn EXCEPT ![s] = TRUE]
        BY <1>3, <2>1 DEF Register
      <4> QED
        BY <4>1, <4>2
    <3>2. /\ pc' = [pc EXCEPT ![s] = "hello"]
          /\ delay' = [delay EXCEPT ![s] = @]
          /\ UNCHANGED <<hub, closed, current, count, cancelled, net>>
      BY <1>3, <2>1 DEF Register
    <3>3. TypeOK'
      BY <3>1, <3>2
    <3>4. SessionCounted' /\ SessionAlive' /\ NobodyStranded'
      BY <2>1, <3>1, <3>2
    <3>5. Registered' /\ NoneBetweenDials'
      BY <2>1, <3>1, <3>2
    <3> QED
      BY <3>3, <3>4, <3>5
  <2>2. CASE current # s
    BY <1>3, <2>2, <1>0 DEF Register, CloseLink
  <2> QED
    BY <2>1, <2>2
<1>4. CASE ReadHello(s) \/ StartStream(s) \/ LoopCheck(s)
  BY <1>4 DEF ReadHello, StartStream, LoopCheck
<1>5. CASE CloseConn(s)
  BY <1>5 DEF CloseConn, CloseLink
<1>6. CASE Unregister(s)
  BY <1>6 DEF Unregister
<1>7. CASE CheckCancelled(s) \/ WaitCancelled(s)
  BY <1>7, <1>0 DEF CheckCancelled, WaitCancelled
<1>8. CASE WaitElapses(s)
  BY <1>8, DoubledBounds DEF WaitElapses
<1> QED
  BY <1>1, <1>2, <1>3, <1>4, <1>5, <1>6, <1>7, <1>8 DEF Progress

\* Every step keeps the inductive invariant.
LEMMA IndNext == IndInv /\ [Next]_vars => IndInv'
<1> SUFFICES ASSUME IndInv, [Next]_vars
             PROVE  IndInv'
  OBVIOUS
<1>1. CASE \E v \in Viewers : Request(v)
  BY <1>1, RequestInd
<1>2. CASE Close
  <2>1. CASE current = None
    BY <1>2, <2>1 DEF Close, IndInv, TypeOK, SessionCounted, SessionAlive, Registered,
                      NoneBetweenDials, NobodyStranded, hub, loop, net
  <2>2. CASE current # None
    BY <1>2, <2>2, DropInd DEF Close, IndInv, TypeOK, hub
  <2> QED
    BY <2>1, <2>2
<1>3. ASSUME NEW s \in Sessions, Progress(s) \/ ReadHello(s) \/ ReadMessage(s)
      PROVE  IndInv'
  BY <1>3, GoroutineInd
<1>4. ASSUME NEW s \in Sessions, LinkDies(s)
      PROVE  IndInv'
  BY <1>4 DEF LinkDies, IndInv, TypeOK, SessionCounted, SessionAlive, Registered,
              NoneBetweenDials, NobodyStranded, hub, table, loop
<1>5. CASE CameraForgets
  BY <1>5 DEF CameraForgets, IndInv, TypeOK, SessionCounted, SessionAlive, Registered,
              NoneBetweenDials, NobodyStranded, hub, table, loop
<1>6. CASE UNCHANGED vars
  BY <1>6 DEF vars, IndInv, TypeOK, SessionCounted, SessionAlive, Registered,
              NoneBetweenDials, NobodyStranded, hub, table, loop, net
<1> QED
  BY <1>1, <1>2, <1>3, <1>4, <1>5, <1>6 DEF Next

\* The invariant holds in every reachable state.
THEOREM Inductive == Spec => []IndInv
BY IndInit, IndNext, PTL DEF Spec

\* One request more among the holders, or one less.
LEMMA HolderCounts ==
  ASSUME IsFiniteSet(Holders), NEW v \in Viewers
  PROVE  /\ Holders' = Holders => Cardinality(Holders') = Cardinality(Holders)
         /\ v \notin Holders /\ Holders' = Holders \cup {v}
              => Cardinality(Holders') = Cardinality(Holders) + 1
         /\ v \in Holders /\ Holders' = Holders \ {v}
              => Cardinality(Holders') = Cardinality(Holders) - 1
BY FS_AddElement, FS_RemoveElement

\* Only a request that was upgraded has goroutines.
LEMMA ThreadsNext == IndInv /\ ThreadsServe /\ [Next]_vars => ThreadsServe'
<1> SUFFICES ASSUME IndInv, ThreadsServe, [Next]_vars
             PROVE  ThreadsServe'
  OBVIOUS
<1>1. ASSUME NEW v \in Viewers, Request(v)
      PROVE  ThreadsServe'
  BY <1>1 DEF Request, Acquire, UpgradeFails, Upgrade, Shutdown, ThreadsServe,
              Goroutines, IndInv, TypeOK
<1>2. ASSUME UNCHANGED hub
      PROVE  ThreadsServe'
  BY <1>2 DEF ThreadsServe, hub
<1>3. ASSUME NEW s \in Sessions, Progress(s) \/ ReadHello(s) \/ ReadMessage(s) \/ LinkDies(s)
      PROVE  UNCHANGED hub
  BY <1>3 DEF Progress, DialSucceeds, DialFails, Register, ReadHello, StartStream,
       LoopCheck, ReadMessage, ReadFails, Publish, CloseConn, Unregister,
       CheckCancelled, WaitElapses, WaitCancelled, LinkDies
<1> QED
  BY <1>1, <1>2, <1>3 DEF Next, Close, CameraForgets, vars

\* What the count is before and after, in whatever way the relay's lock is held.
LEMMA CountNext ==
  IndInv /\ ThreadsServe /\ ClaimsCounted /\ [Next]_vars => ClaimsCounted'
<1> SUFFICES ASSUME IndInv, ThreadsServe, ClaimsCounted, [Next]_vars
             PROVE  ClaimsCounted'
  OBVIOUS
<1>1. IsFiniteSet(Holders) /\ Cardinality(Holders) \in Nat
  BY ViewersAssumption, FS_Subset, FS_CardinalityType DEF Holders
<1>2. current # None => current \in Sessions /\ count[current] \in Nat /\ ~closed
  BY DEF IndInv, TypeOK, SessionCounted
<1>3. ASSUME NEW v \in Viewers, Acquire(v)
      PROVE  ClaimsCounted'
  <2>1. v \notin Holders /\ Holders' = Holders \cup {v}
    BY <1>3 DEF Acquire, Holders, IndInv, TypeOK
  <2>2. Cardinality(Holders') = Cardinality(Holders) + 1 /\ Holders' # {}
    BY <1>1, <2>1, HolderCounts
  <2>3. CASE JoinSession
    BY <1>1, <1>2, <2>2, <2>3 DEF JoinSession, ClaimsCounted, IndInv, TypeOK
  <2>4. CASE StartSession
    <3>1. Cardinality(Holders') = 1
      BY <1>1, <1>3, <2>2, <2>4, FS_EmptySet DEF StartSession, Acquire, ClaimsCounted
    <3> QED
      BY <2>2, <2>4, <3>1, SessionsAssumption
         DEF StartSession, ClaimsCounted, IndInv, TypeOK
  <2> QED
    BY <1>3, <2>3, <2>4 DEF Acquire
<1>4. ASSUME NEW v \in Viewers, Release, v \in Holders, Holders' = Holders \ {v}
      PROVE  ClaimsCounted'
  <2>1. Cardinality(Holders') = Cardinality(Holders) - 1
    BY <1>1, <1>4, HolderCounts
  <2>2. CASE current = None
    BY <1>4, <2>2 DEF Release, table, ClaimsCounted
  <2>3. CASE current # None /\ count[current] > 1
    <3>1. Holders' # {}
      BY <1>1, <1>2, <2>1, <2>3, FS_EmptySet DEF ClaimsCounted
    <3>2. count'[current'] = count[current] - 1 /\ current' = current /\ closed' = closed
      BY <1>2, <1>4, <2>3 DEF Release, IndInv, TypeOK
    <3> QED
      BY <1>1, <1>2, <2>1, <2>3, <3>1, <3>2 DEF ClaimsCounted
  <2>4. CASE current # None /\ ~(count[current] > 1)
    <3>1. Cardinality(Holders) = 1
      BY <1>1, <1>2, <2>4 DEF ClaimsCounted, IndInv, SessionCounted
    <3>2. IsFiniteSet(Holders') /\ Cardinality(Holders') = 0
      BY <1>1, <1>4, <2>1, <3>1, FS_RemoveElement
    <3>3. Holders' = {}
      BY <3>2, FS_EmptySet
    <3>4. current' = None
      BY <1>4, <2>4 DEF Release, Drop
    <3> QED
      BY <3>3, <3>4 DEF ClaimsCounted
  <2> QED
    BY <2>2, <2>3, <2>4
<1>5. ASSUME NEW v \in Viewers, UpgradeFails(v)
      PROVE  ClaimsCounted'
  <2>1. v \in Holders /\ Holders' = Holders \ {v}
    BY <1>5 DEF UpgradeFails, Holders, IndInv, TypeOK
  <2> QED
    BY <1>4, <1>5, <2>1 DEF UpgradeFails
<1>6. ASSUME NEW v \in Viewers, Upgrade(v)
      PROVE  ClaimsCounted'
  <2>1. Holders' = Holders
    BY <1>6 DEF Upgrade, Holders, IndInv, TypeOK
  <2> QED
    BY <1>6, <2>1 DEF Upgrade, table, ClaimsCounted
<1>7. ASSUME NEW v \in Viewers, NEW g \in Goroutines, Shutdown(v, g)
      PROVE  ClaimsCounted'
  <2>1. CASE claim[v] = "serving"
    <3>1. v \in Holders /\ Holders' = Holders \ {v}
      BY <1>7, <2>1 DEF Shutdown, Holders, IndInv, TypeOK
    <3> QED
      BY <1>4, <1>7, <2>1, <3>1 DEF Shutdown
  <2>2. CASE claim[v] # "serving"
    <3>1. claim[v] # "acquired"
      BY <1>7, <2>2 DEF Shutdown, ThreadsServe
    <3>2. Holders' = Holders
      BY <1>7, <2>2, <3>1 DEF Shutdown, Holders, IndInv, TypeOK
    <3> QED
      BY <1>7, <2>2, <3>2 DEF Shutdown, table, ClaimsCounted
  <2> QED
    BY <2>1, <2>2
<1>8. CASE Close
  BY <1>8 DEF Close, ClaimsCounted
<1>9. ASSUME UNCHANGED <<hub, closed, current, count>>
      PROVE  ClaimsCounted'
  BY <1>9 DEF ClaimsCounted, Holders, hub
<1>10. ASSUME NEW s \in Sessions, Progress(s) \/ ReadHello(s) \/ ReadMessage(s) \/ LinkDies(s)
       PROVE  UNCHANGED <<hub, closed, current, count>>
  BY <1>10 DEF Progress, DialSucceeds, DialFails, Register, ReadHello, StartStream,
       LoopCheck, ReadMessage, ReadFails, Publish, CloseConn, Unregister,
       CheckCancelled, WaitElapses, WaitCancelled, LinkDies, table
<1>11. CASE CameraForgets \/ UNCHANGED vars
  BY <1>9, <1>11 DEF CameraForgets, vars, table
<1> QED
  BY <1>3, <1>5, <1>6, <1>7, <1>8, <1>9, <1>10, <1>11 DEF Next, Request

\* The types hold: a count never underflows, a delay never passes its cap.
THEOREM TypeCorrect == Spec => []TypeOK
<1>1. IndInv => TypeOK
  BY DEF IndInv
<1> QED
  BY <1>1, Inductive, PTL

\* A removed session's goroutine is never left in a read nobody will end.
THEOREM StrandingCorrect == Spec => []NobodyStranded
<1>1. IndInv => NobodyStranded
  BY DEF IndInv
<1> QED
  BY <1>1, Inductive, PTL

\* While anyone holds the camera its session has a running goroutine.
THEOREM AliveCorrect == Spec => []SessionAlive
<1>1. IndInv => SessionAlive
  BY DEF IndInv
<1> QED
  BY <1>1, Inductive, PTL

\* Messages are taken from the camera by the session in the map and no other.
THEOREM IngestCorrect == Spec => OnlyCurrentIngests
<1> DEFINE Ingest == \A s \in Sessions : ReadMessage(s) => current = s
<1>1. IndInv => Ingest
  BY DEF IndInv, NobodyStranded, Consuming, ReadMessage
<1>2. IndInv /\ [Next]_vars => [Ingest]_vars
  BY <1>1
<1> QED
  BY <1>2, Inductive, PTL DEF Spec, OnlyCurrentIngests

\* The session's viewer count is the number of requests holding a claim, for
\* any number of viewers coming and going.
THEOREM ClaimsCorrect == Spec => []ClaimsCounted
<1>1. Init => ThreadsServe /\ ClaimsCounted
  BY DEF Init, ThreadsServe, ClaimsCounted, Holders
<1> QED
  BY <1>1, Inductive, ThreadsNext, CountNext, PTL DEF Spec
\* Removal tells the session's goroutine to end, and nothing takes that back before it
\* has ended.
LEMMA RemovedNext == IndInv /\ RemovedCancelled /\ [Next]_vars => RemovedCancelled'
<1> SUFFICES ASSUME IndInv, RemovedCancelled, [Next]_vars
             PROVE  RemovedCancelled'
  OBVIOUS
<1> USE DEF RemovedCancelled
<1>1. ASSUME current # None, Drop, UNCHANGED pc
      PROVE  RemovedCancelled'
  BY <1>1 DEF Drop, IndInv, TypeOK
<1>2. ASSUME Release
      PROVE  RemovedCancelled'
  <2>1. UNCHANGED pc
    BY <1>2 DEF Release, loop
  <2>2. CASE UNCHANGED <<current, cancelled>>
    BY <2>1, <2>2
  <2>3. CASE current # None /\ Drop
    BY <1>1, <2>1, <2>3
  <2> QED
    BY <1>2, <2>2, <2>3 DEF Release, table
<1>3. ASSUME NEW v \in Viewers, Acquire(v)
      PROVE  RemovedCancelled'
  <2>1. CASE JoinSession
    BY <2>1 DEF JoinSession, loop
  <2>2. CASE StartSession
    BY <2>2, SessionsAssumption DEF StartSession, IndInv, TypeOK
  <2> QED
    BY <1>3, <2>1, <2>2 DEF Acquire
<1>4. ASSUME NEW v \in Viewers, Request(v)
      PROVE  RemovedCancelled'
  <2>1. CASE UNCHANGED <<table, loop, net>>
    BY <2>1 DEF table, loop
  <2> QED
    BY <1>2, <1>3, <1>4, <2>1 DEF Request, UpgradeFails, Upgrade, Shutdown
<1>5. CASE Close
  <2>1. CASE current = None
    BY <1>5, <2>1 DEF Close, loop
  <2>2. CASE current # None
    BY <1>1, <1>5, <2>2 DEF Close, loop
  <2> QED
    BY <2>1, <2>2
<1>6. ASSUME NEW s \in Sessions, Progress(s) \/ ReadHello(s) \/ ReadMessage(s)
      PROVE  RemovedCancelled'
  <2>1. /\ UNCHANGED <<current, cancelled>>
        /\ \E p \in Places : pc' = [pc EXCEPT ![s] = p]
        /\ pc[s] # "free"
    BY <1>6 DEF Progress, DialSucceeds, DialFails, Register, ReadHello, StartStream,
         LoopCheck, ReadMessage, ReadFails, Publish, CloseConn, Unregister,
         CheckCancelled, WaitElapses, WaitCancelled, Goto, table, Places, Consuming
  <2> QED
    BY <2>1 DEF IndInv, TypeOK
<1>7. CASE (\E s \in Sessions : LinkDies(s)) \/ CameraForgets \/ UNCHANGED vars
  BY <1>7 DEF LinkDies, CameraForgets, vars, table, loop
<1> QED
  BY <1>4, <1>5, <1>6, <1>7 DEF Next

\* For any number of sessions: a removed one's goroutine has been cancelled.
THEOREM RemovalCorrect == Spec => []RemovedCancelled
<1>1. Init => RemovedCancelled
  BY DEF Init, RemovedCancelled
<1> QED
  BY <1>1, Inductive, RemovedNext, PTL DEF Spec

\* A second connection to a camera, which a session removed during its dial opens, is
\* closed by the next steps of the goroutine that opened it: no other one is open.
THEOREM StrayCorrect == Spec => []StrayCloses
<1>1. IndInv /\ RemovedCancelled => StrayCloses
  BY DEF IndInv, TypeOK, Places, NoneBetweenDials, NobodyStranded, RemovedCancelled, StrayCloses
<1> QED
  BY <1>1, Inductive, RemovalCorrect, PTL

\* One step of a removed session's goroutine takes it closer to its end.
LEMMA WindDownStep ==
  ASSUME IndInv, RemovedCancelled, NEW s \in Sessions, current # s,
         Progress(s) \/ ReadHello(s) \/ ReadMessage(s)
  PROVE  StepsLeft(pc'[s]) < StepsLeft(pc[s])
<1> USE DEF StepsLeft, Goto
<1>1. pc \in [Sessions -> Places]
  BY DEF IndInv, TypeOK
<1>2. pc[s] \in Consuming => link[s] # "open"
  BY DEF IndInv, NobodyStranded
<1>3. pc[s] = "free" \/ cancelled[s]
  BY DEF RemovedCancelled
<1>4. CASE DialSucceeds(s) \/ DialFails(s) \/ Register(s)
  BY <1>1, <1>4 DEF DialSucceeds, DialFails, Register
<1>5. CASE ReadHello(s) \/ StartStream(s)
  BY <1>1, <1>2, <1>5 DEF ReadHello, StartStream, Consuming
<1>6. CASE LoopCheck(s) \/ CheckCancelled(s)
  BY <1>1, <1>3, <1>6 DEF LoopCheck, CheckCancelled
<1>7. CASE ReadMessage(s)
  BY <1>2, <1>7 DEF ReadMessage, Consuming
<1>8. CASE ReadFails(s) \/ Publish(s)
  BY <1>1, <1>8 DEF ReadFails, Publish
<1>9. CASE CloseConn(s) \/ Unregister(s)
  BY <1>1, <1>9 DEF CloseConn, Unregister
<1>10. CASE WaitElapses(s) \/ WaitCancelled(s)
  BY <1>1, <1>10 DEF WaitElapses, WaitCancelled
<1> QED
  BY <1>4, <1>5, <1>6, <1>7, <1>8, <1>9, <1>10 DEF Progress

\* Wherever a session's goroutine is when its session is removed, it is at most five
\* steps from its end, and no step of anybody else adds to them.
THEOREM WindDownCorrect == Spec => WindsDown
<1> DEFINE Step ==
      \A s \in Sessions :
        current # s /\ pc[s] # "free" =>
          /\ current' # s
          /\ pc'[s] = pc[s] \/ StepsLeft(pc'[s]) < StepsLeft(pc[s])
<1>1. ASSUME IndInv, RemovedCancelled, [Next]_vars
      PROVE  Step
  <2> SUFFICES ASSUME NEW s \in Sessions, current # s, pc[s] # "free"
               PROVE  /\ current' # s
                      /\ pc'[s] = pc[s] \/ StepsLeft(pc'[s]) < StepsLeft(pc[s])
    OBVIOUS
  <2>1. ASSUME NEW v \in Viewers, Acquire(v)
        PROVE  current' # s /\ pc'[s] = pc[s]
    BY <1>1, <2>1 DEF Acquire, JoinSession, StartSession, loop, IndInv, TypeOK
  <2>2. ASSUME Drop \/ UNCHANGED current
        PROVE  current' # s
    BY <2>2, SessionsAssumption DEF Drop
  <2>3. ASSUME Release
        PROVE  current' # s /\ pc'[s] = pc[s]
    BY <2>2, <2>3 DEF Release, table, loop
  <2>4. ASSUME NEW v \in Viewers, Request(v)
        PROVE  current' # s /\ pc'[s] = pc[s]
    BY <2>1, <2>3, <2>4 DEF Request, UpgradeFails, Upgrade, Shutdown, table, loop
  <2>5. CASE Close
    BY <2>2, <2>5 DEF Close, loop
  <2>6. ASSUME NEW t \in Sessions, Progress(t) \/ ReadHello(t) \/ ReadMessage(t)
        PROVE  /\ current' # s
               /\ pc'[s] = pc[s] \/ StepsLeft(pc'[s]) < StepsLeft(pc[s])
    <3>1. UNCHANGED current /\ \E p \in Places : pc' = [pc EXCEPT ![t] = p]
      BY <2>6 DEF Progress, DialSucceeds, DialFails, Register, ReadHello, StartStream,
           LoopCheck, ReadMessage, ReadFails, Publish, CloseConn, Unregister,
           CheckCancelled, WaitElapses, WaitCancelled, Goto, table, Places, Consuming
    <3>2. CASE t = s
      BY <1>1, <2>6, <3>1, <3>2, WindDownStep
    <3>3. CASE t # s
      BY <1>1, <3>1, <3>3 DEF IndInv, TypeOK
    <3> QED
      BY <3>2, <3>3
  <2>7. CASE (\E t \in Sessions : LinkDies(t)) \/ CameraForgets \/ UNCHANGED vars
    BY <2>7 DEF LinkDies, CameraForgets, vars, table, loop
  <2> QED
    BY <1>1, <2>4, <2>5, <2>6, <2>7 DEF Next
<1> QED
  BY <1>1, Inductive, RemovalCorrect, PTL DEF Spec, WindsDown
-----------------------------------------------------------------------------
(* Discovery: the hosts of a sweep, and their order *)

\* What a network is, and its hosts: at least one, from FirstOf's offset on.
LEMMA NetworkTypes ==
  /\ DOMAIN Networks = 1..Len(Networks) /\ Len(Networks) \in Nat
  /\ \A k \in DOMAIN Networks : Networks[k].base \in Nat /\ Networks[k].total \in Nat \ {0}
<1> DEFINE S == [base: Nat, total: Nat \ {0}]
<1>1. Networks \in Seq(S)
  BY NetworksAssumption
<1>2. ASSUME NEW k \in DOMAIN Networks
      PROVE  Networks[k].base \in Nat /\ Networks[k].total \in Nat \ {0}
  <2>1. Networks[k] \in S
    <3> HIDE DEF S
    <3> QED
      BY <1>1, ElementOfSeq
  <2> QED
    BY <2>1
<1>3. DOMAIN Networks = 1..Len(Networks) /\ Len(Networks) \in Nat
  <2> HIDE DEF S
  <2> QED
    BY <1>1
<1> QED
  BY <1>2, <1>3

LEMMA InSweep ==
  ASSUME NEW k, NEW i
  PROVE  <<k, i>> \in Sweep <=> k \in DOMAIN Networks /\ i \in Offsets(Networks[k])
BY DEF Sweep

LEMMA SweepPairs ==
  ASSUME NEW h \in Sweep
  PROVE  /\ h = <<h[1], h[2]>>
         /\ h[1] \in 1..Len(Networks) /\ h[2] \in Offsets(Networks[h[1]])
         /\ h[1] \in Nat /\ h[2] \in Nat
         /\ Address(h) \in Addresses /\ Address(h) \in Nat
<1>1. PICK k \in DOMAIN Networks : h \in {k} \X Offsets(Networks[k])
  BY DEF Sweep
<1>2. h = <<h[1], h[2]>> /\ h[1] = k /\ h[2] \in Offsets(Networks[k])
  BY <1>1
<1>3. Networks[k].base \in Nat /\ Networks[k].total \in Nat \ {0} /\ k \in 1..Len(Networks)
      /\ Len(Networks) \in Nat
  BY NetworkTypes
<1>4. h[2] \in Nat
  BY <1>2, <1>3 DEF Offsets
<1>5. Address(h) \in Nat
  BY <1>2, <1>3, <1>4 DEF Address
<1> QED
  BY <1>2, <1>3, <1>4, <1>5 DEF Addresses

LEMMA FirstIsFirst ==
  ASSUME NEW k \in 1..Len(Networks)
  PROVE  /\ FirstOf(k) \in Sweep
         /\ FirstOf(k)[1] = k /\ FirstOf(k)[2] \in {0, 1}
         /\ \A i : <<k, i>> \in Sweep => FirstOf(k)[2] <= i
<1>1. Networks[k].total \in Nat \ {0} /\ k \in DOMAIN Networks
  BY NetworkTypes
<1>2. CASE Networks[k].total > 2
  <2>1. Offsets(Networks[k]) = 1..(Networks[k].total - 2)
    BY <1>2 DEF Offsets
  <2>2. <<k, 0>> \notin Sweep /\ <<k, 1>> \in Sweep
    BY <1>1, <1>2, <2>1, InSweep
  <2>3. \A i : <<k, i>> \in Sweep => 1 <= i
    BY <1>1, <2>1, InSweep
  <2> QED
    BY <2>2, <2>3 DEF FirstOf
<1>3. CASE ~(Networks[k].total > 2)
  <2>1. Offsets(Networks[k]) = 0..(Networks[k].total - 1)
    BY <1>3 DEF Offsets
  <2>2. <<k, 0>> \in Sweep
    BY <1>1, <2>1, InSweep
  <2>3. \A i : <<k, i>> \in Sweep => 0 <= i
    BY <1>1, <2>1, InSweep
  <2> QED
    BY <2>2, <2>3 DEF FirstOf
<1> QED
  BY <1>2, <1>3

\* The feeder's order: After skips no host and repeats none.
LEMMA FirstHost ==
  /\ FirstOf(1) \in Nat \X Nat /\ FirstOf(1) # Closed
  /\ FirstOf(1) \in Sweep \/ FirstOf(1)[1] > Len(Networks)
  /\ {h \in Sweep : Before(h, FirstOf(1))} = {}
<1>1. FirstOf(1)[1] = 1 /\ FirstOf(1)[2] \in {0, 1} /\ FirstOf(1) \in Nat \X Nat
  BY DEF FirstOf
<1>2. FirstOf(1) # Closed
  BY <1>1 DEF Closed
<1>3. FirstOf(1) \in Sweep \/ FirstOf(1)[1] > Len(Networks)
  <2>1. Len(Networks) \in Nat
    BY NetworkTypes
  <2> QED
    BY <1>1, <2>1, FirstIsFirst
<1>4. ASSUME NEW h \in Sweep, Before(h, FirstOf(1))
      PROVE  FALSE
  <2>1. h = <<h[1], h[2]>> /\ h[1] \in 1..Len(Networks) /\ h[1] \in Nat /\ h[2] \in Nat
    BY SweepPairs
  <2>2. h[1] = 1 /\ h[2] < FirstOf(1)[2]
    BY <1>1, <1>4, <2>1 DEF Before
  <2>3. FirstOf(1)[2] <= h[2]
    BY <2>1, <2>2, FirstIsFirst
  <2> QED
    BY <1>1, <2>1, <2>2, <2>3
<1> QED
  BY <1>1, <1>2, <1>3, <1>4

LEMMA NextHost ==
  ASSUME NEW h \in Sweep
  PROVE  /\ After(h) \in Nat \X Nat /\ After(h) # Closed
         /\ After(h) \in Sweep \/ After(h)[1] > Len(Networks)
         /\ {g \in Sweep : Before(g, After(h))} = {g \in Sweep : Before(g, h)} \cup {h}
<1> DEFINE k == h[1]
           i == h[2]
<1>1. h = <<k, i>> /\ k \in 1..Len(Networks) /\ i \in Offsets(Networks[k])
      /\ k \in Nat /\ i \in Nat /\ Len(Networks) \in Nat
  BY SweepPairs, NetworkTypes
<1>2. \A g \in Sweep : g = <<g[1], g[2]>> /\ g[1] \in 1..Len(Networks)
                       /\ g[1] \in Nat /\ g[2] \in Nat
  BY SweepPairs
<1> HIDE DEF k, i
<1>3. CASE <<k, i + 1>> \in Sweep
  <2>1. After(h) = <<k, i + 1>>
    BY <1>3 DEF After, k, i
  <2>2. \A g \in Sweep : Before(g, After(h)) <=> Before(g, h) \/ g = h
    BY <1>1, <1>2, <2>1 DEF Before
  <2>3. {g \in Sweep : Before(g, After(h))} = {g \in Sweep : Before(g, h)} \cup {h}
    BY <2>2
  <2>4. After(h) \in Nat \X Nat /\ After(h) # Closed
    BY <1>1, <2>1 DEF Closed
  <2> QED
    BY <1>3, <2>1, <2>3, <2>4
<1>4. CASE <<k, i + 1>> \notin Sweep
  <2>1. After(h) = FirstOf(k + 1)
    BY <1>4 DEF After, k, i
  <2>2. After(h)[1] = k + 1 /\ After(h)[2] \in {0, 1} /\ After(h) = <<k + 1, After(h)[2]>>
    BY <2>1 DEF FirstOf
  <2>3. After(h) \in Sweep \/ After(h)[1] > Len(Networks)
    BY <1>1, <2>1, <2>2, FirstIsFirst
  <2>4. \A g \in Sweep : g[1] = k => g[2] <= i
    <3>1. Offsets(Networks[k]) = 1..(Networks[k].total - 2)
          \/ Offsets(Networks[k]) = 0..(Networks[k].total - 1)
      BY DEF Offsets
    <3>2. k \in DOMAIN Networks /\ Networks[k].total \in Nat /\ i + 1 \notin Offsets(Networks[k])
      BY <1>1, <1>4, InSweep, NetworkTypes
    <3>3. ASSUME NEW g \in Sweep, g[1] = k
          PROVE  g[2] <= i
      <4>1. g[2] \in Offsets(Networks[k])
        BY <3>3, SweepPairs
      <4> QED
        BY <1>1, <1>2, <3>1, <3>2, <4>1
    <3> QED
      BY <3>3
  <2>5. \A g \in Sweep : g[1] = k + 1 => After(h)[2] <= g[2]
    <3>1. ASSUME NEW g \in Sweep, g[1] = k + 1
          PROVE  After(h)[2] <= g[2]
      BY <1>2, <2>1, <3>1, FirstIsFirst
    <3> QED
      BY <3>1
  <2>6. ASSUME NEW g \in Sweep
        PROVE  Before(g, After(h)) <=> Before(g, h) \/ g = h
    <3>1. Before(g, After(h)) <=> g[1] < k + 1
      <4>1. Before(g, After(h)) <=> g[1] < k + 1 \/ (g[1] = k + 1 /\ g[2] < After(h)[2])
        BY <2>2 DEF Before
      <4>2. g[1] = k + 1 => ~(g[2] < After(h)[2])
        BY <1>2, <2>2, <2>5
      <4> QED
        BY <4>1, <4>2
    <3>2. Before(g, h) <=> g[1] < k \/ (g[1] = k /\ g[2] < i)
      BY DEF Before, k, i
    <3>3. g = h <=> g[1] = k /\ g[2] = i
      BY <1>1, <1>2
    <3> QED
      BY <1>1, <1>2, <2>4, <3>1, <3>2, <3>3
  <2> QED
    BY <1>1, <2>2, <2>3, <2>6 DEF Closed
<1> QED
  BY <1>3, <1>4

LEMMA LastHost ==
  ASSUME NEW h, h \notin Sweep, h \in Sweep \/ h[1] > Len(Networks), h[1] \in Nat
  PROVE  {g \in Sweep : Before(g, h)} = Sweep
<1>1. \A g \in Sweep : g[1] \in 1..Len(Networks) /\ Len(Networks) \in Nat
  BY SweepPairs, NetworkTypes
<1> QED
  BY <1>1 DEF Before
-----------------------------------------------------------------------------
(* Discovery: a sweep *)

LEMMA SweepInit == DiscoveryInit => SweepInv
<1> SUFFICES ASSUME DiscoveryInit
             PROVE  SweepInv
  OBVIOUS
<1>1. DiscoveryTypeOK
  <2>1. at \in [Cameras -> Addresses \cup {Nowhere}]
    BY DEF DiscoveryInit, Leases
  <2>2. host \in [Workers -> Addresses \cup {Nowhere}]
        /\ registry \in [Cameras -> Addresses \cup {Nowhere}]
    BY DEF DiscoveryInit
  <2>3. next \in Nat \X Nat /\ moves \in 0..MoveBound
    BY BoundAssumption DEF DiscoveryInit, Closed
  <2> QED
    BY <2>1, <2>2, <2>3 DEF DiscoveryInit, DiscoveryTypeOK
<1>2. AnswersHeld /\ SweptSoFar /\ WorkersServe /\ FoundServed /\ OwedHeld /\ BetweenScans
      /\ ScanLeavesNothing /\ ~orphan
  BY DEF DiscoveryInit, AnswersHeld, SweptSoFar, WorkersServe, FoundServed, OwedHeld,
         BetweenScans, ScanLeavesNothing
<1> QED
  BY <1>1, <1>2 DEF SweepInv

\* The network and the watched camera's session leave the sweep alone.
LEMMA OutsideSweep ==
  ASSUME SweepInv, Renumber \/ Session
  PROVE  SweepInv'
<1> USE DEF SweepInv
<1>1. UNCHANGED <<done, run, scan, collected, history>>
  BY DEF Renumber, Session, Lookup, SessionDials, SessionDialFails, HelloRight, HelloWrong,
         StreamFails, Hangup, relay
<1>2. /\ at' \in [Cameras -> Addresses \cup {Nowhere}]
      /\ moves' \in 0..MoveBound
      /\ registry' \in [Cameras -> Addresses \cup {Nowhere}]
      /\ session' \in {"lookup", "dial", "hello", "stream"}
      /\ dialled' \in Addresses \cup {Nowhere}
      /\ peer' \in Cameras \cup {Nobody}
      /\ session' # "lookup" => dialled' \in Addresses
  <2> USE DEF DiscoveryTypeOK, AnswersHeld, lan, relay
  <2>1. CASE Renumber
    BY <2>1, BoundAssumption DEF Renumber, Leases
  <2>2. CASE Lookup
    BY <2>2, CamerasAssumption DEF Lookup
  <2>3. CASE SessionDials \/ SessionDialFails \/ HelloWrong \/ StreamFails
    BY <2>3 DEF SessionDials, SessionDialFails, HelloWrong, StreamFails, Hangup
  <2>4. CASE HelloRight
    BY <2>4 DEF HelloRight, Upsert
  <2> QED
    BY <2>1, <2>2, <2>3, <2>4 DEF Session
<1> USE DEF scan, history
<1>3. DiscoveryTypeOK' /\ AnswersHeld'
  BY <1>1, <1>2 DEF DiscoveryTypeOK, AnswersHeld
<1>4. SweptSoFar' /\ WorkersServe' /\ FoundServed' /\ OwedHeld' /\ BetweenScans'
      /\ ScanLeavesNothing' /\ (orphan => done)'
  BY <1>1 DEF SweptSoFar, WorkersServe, FoundServed, OwedHeld, BetweenScans, ScanLeavesNothing
<1> QED
  BY <1>3, <1>4

\* Run between two sweeps, and the signal.
LEMMA RunSteps ==
  ASSUME SweepInv, Cancel \/ SkipScan \/ IntervalElapses \/ RunEnds
  PROVE  SweepInv'
<1> USE DEF SweepInv, lan, scan, relay, history, Cancel, SkipScan, IntervalElapses, RunEnds
<1>1. DiscoveryTypeOK' /\ AnswersHeld'
  BY DEF DiscoveryTypeOK, AnswersHeld
<1>2. SweptSoFar' /\ WorkersServe' /\ FoundServed' /\ OwedHeld'
  BY DEF SweptSoFar, WorkersServe, FoundServed, OwedHeld
<1>3. BetweenScans' /\ ScanLeavesNothing' /\ (orphan => done)'
  BY DEF BetweenScans, ScanLeavesNothing
<1> QED
  BY <1>1, <1>2, <1>3

LEMMA SweepBegins ==
  ASSUME SweepInv, BeginScan
  PROVE  SweepInv'
<1> USE DEF SweepInv, lan, relay, history, BeginScan
<1>1. next' = FirstOf(1) /\ probed = {} /\ owed = {} /\ collected = NoObservation
  BY DEF BetweenScans
<1>2. DiscoveryTypeOK'
  <2>1. next' \in Nat \X Nat
    BY <1>1, FirstHost
  <2> QED
    BY <2>1 DEF DiscoveryTypeOK
<1>3. SweptSoFar'
  <2>1. next' # Closed /\ (next' \in Sweep \/ next'[1] > Len(Networks))
    BY <1>1, FirstHost
  <2>2. probed' = {h \in Sweep : Before(h, next')}
    BY <1>1, FirstHost
  <2> QED
    BY <2>1, <2>2 DEF SweptSoFar
<1>4. AnswersHeld' /\ WorkersServe' /\ FoundServed' /\ OwedHeld'
  BY <1>1 DEF AnswersHeld, WorkersServe, FoundServed, OwedHeld
<1>5. BetweenScans' /\ ScanLeavesNothing' /\ (orphan => done)'
  BY DEF BetweenScans, ScanLeavesNothing
<1> QED
  BY <1>2, <1>3, <1>4, <1>5

LEMMA FeedStep ==
  ASSUME SweepInv, NEW w \in Workers, Feed(w)
  PROVE  SweepInv'
<1> USE DEF SweepInv, lan, relay, Feed
<1>1. /\ next \in Sweep /\ next # Closed
      /\ Address(next) \in Addresses
      /\ next' \in Nat \X Nat /\ next' # Closed
      /\ next' \in Sweep \/ next'[1] > Len(Networks)
      /\ {h \in Sweep : Before(h, next')} = {h \in Sweep : Before(h, next)} \cup {next}
  BY SweepPairs, NextHost DEF Closed
<1>2. run = "range" /\ found_open
  BY DEF ScanLeavesNothing, FoundServed
<1>3. DiscoveryTypeOK'
  BY <1>1 DEF DiscoveryTypeOK
<1>4. AnswersHeld'
  BY <1>1 DEF AnswersHeld, DiscoveryTypeOK
<1>5. SweptSoFar'
  BY <1>1 DEF SweptSoFar
<1>6. WorkersServe' /\ FoundServed' /\ OwedHeld'
  BY <1>1, <1>2 DEF WorkersServe, FoundServed, OwedHeld, DiscoveryTypeOK
<1>7. BetweenScans' /\ ScanLeavesNothing' /\ (orphan => done)'
  BY <1>2 DEF BetweenScans, ScanLeavesNothing
<1> QED
  BY <1>3, <1>4, <1>5, <1>6, <1>7

\* The feeder ends, or one that a cancelled sweep has left behind does.
LEMMA FeederStops ==
  ASSUME SweepInv, FeederEnds \/ OrphanEnds
  PROVE  SweepInv'
<1> USE DEF SweepInv, lan, relay, history, FeederEnds, OrphanEnds, FeederNotices
<1>1. DiscoveryTypeOK' /\ AnswersHeld'
  <2>1. next' \in Nat \X Nat
    BY DEF DiscoveryTypeOK, Closed
  <2> QED
    BY <2>1 DEF DiscoveryTypeOK, AnswersHeld
<1>2. SweptSoFar'
  <2>1. CASE done
    BY <2>1 DEF SweptSoFar
  <2>2. CASE ~done /\ run = "range"
    <3>1. /\ next # Closed /\ next \notin Sweep /\ next[1] > Len(Networks) /\ next' = Closed
          /\ probed = {h \in Sweep : Before(h, next)} /\ probed' = probed
      BY <2>2 DEF SweptSoFar
    <3>2. next[1] \in Nat
      BY DEF DiscoveryTypeOK
    <3>3. probed = Sweep
      BY <3>1, <3>2, LastHost
    <3> QED
      BY <3>1, <3>3 DEF SweptSoFar
  <2>3. CASE run # "range"
    BY <2>3 DEF SweptSoFar
  <2> QED
    BY <2>1, <2>2, <2>3
<1>3. WorkersServe' /\ FoundServed' /\ OwedHeld'
  BY DEF WorkersServe, FoundServed, OwedHeld
<1>4. BetweenScans' /\ ScanLeavesNothing' /\ (orphan => done)'
  BY DEF BetweenScans, ScanLeavesNothing
<1> QED
  BY <1>1, <1>2, <1>3, <1>4

\* A worker's probe, and its end.
LEMMA WorkerStep ==
  ASSUME SweepInv, NEW w \in Workers, Worker(w)
  PROVE  SweepInv'
<1> USE DEF SweepInv, lan, relay, history
<1>1. run = "range" /\ found_open
  BY DEF Worker, Answers, Fails, WorkerEnds, ScanLeavesNothing, FoundServed
<1>2. UNCHANGED <<run, done, next, orphan, found_open, collected, probed>>
      /\ (run = "range" /\ ~done /\ next # Closed => worker'[w] # "off")
      /\ \A u \in Workers \ {w} : worker'[u] = worker[u]
  BY DEF Worker, Answers, Fails, WorkerEnds, DiscoveryTypeOK
<1>3. SweptSoFar' /\ WorkersServe' /\ FoundServed' /\ BetweenScans' /\ ScanLeavesNothing'
      /\ (orphan => done)'
  BY <1>1, <1>2 DEF SweptSoFar, WorkersServe, FoundServed, BetweenScans, ScanLeavesNothing
<1>4. CASE Answers(w)
  <2>1. DiscoveryTypeOK' /\ AnswersHeld'
    BY <1>4 DEF Answers, DiscoveryTypeOK, AnswersHeld
  <2>2. OwedHeld'
    BY <1>4 DEF Answers, DiscoveryTypeOK, OwedHeld
  <2> QED
    BY <1>3, <2>1, <2>2
<1>5. CASE Fails(w)
  <2>1. DiscoveryTypeOK' /\ AnswersHeld' /\ OwedHeld'
    BY <1>5 DEF Fails, DiscoveryTypeOK, AnswersHeld, OwedHeld
  <2> QED
    BY <1>3, <2>1
<1>6. CASE WorkerEnds(w)
  <2>1. DiscoveryTypeOK' /\ AnswersHeld' /\ OwedHeld'
    BY <1>6 DEF WorkerEnds, Forget, DiscoveryTypeOK, AnswersHeld, OwedHeld
  <2> QED
    BY <1>3, <2>1
<1> QED
  BY <1>4, <1>5, <1>6 DEF Worker

LEMMA CollectStep ==
  ASSUME SweepInv, NEW w \in Workers, Collect(w)
  PROVE  SweepInv'
<1> USE DEF SweepInv, lan, relay, history, Collect, Forget
<1>1. run = "range" /\ found_open
  BY DEF FoundServed
<1>2. DiscoveryTypeOK' /\ AnswersHeld'
  BY DEF DiscoveryTypeOK, AnswersHeld
<1>3. SweptSoFar' /\ WorkersServe' /\ FoundServed'
  BY <1>1 DEF DiscoveryTypeOK, SweptSoFar, WorkersServe, FoundServed
<1>4. OwedHeld'
  <2> SUFFICES ASSUME ~done, NEW o \in owed, o # <<camera[w], host[w]>>
               PROVE  \E u \in Workers : /\ worker'[u] = "send"
                                         /\ o = <<camera'[u], host'[u]>>
    BY DEF OwedHeld
  <2>1. o # collected
    BY CamerasAssumption DEF DiscoveryTypeOK, NoObservation
  <2>2. PICK u \in Workers : worker[u] = "send" /\ o = <<camera[u], host[u]>>
    BY <2>1 DEF OwedHeld
  <2>3. u # w
    BY <2>2
  <2> QED
    BY <2>2, <2>3 DEF DiscoveryTypeOK
<1>5. BetweenScans' /\ ScanLeavesNothing' /\ (orphan => done)'
  BY <1>1 DEF BetweenScans, ScanLeavesNothing
<1> QED
  BY <1>2, <1>3, <1>4, <1>5

\* The end of a sweep: found is closed, the last answer registered, Scan returns.
LEMMA SweepEnds ==
  ASSUME SweepInv, CloseFound \/ RegisterFound \/ ScanReturns
  PROVE  SweepInv'
<1> USE DEF SweepInv, lan, relay, history
<1>1. CASE CloseFound
  <2>1. DiscoveryTypeOK' /\ AnswersHeld' /\ OwedHeld'
    BY <1>1 DEF CloseFound, DiscoveryTypeOK, AnswersHeld, OwedHeld
  <2>2. SweptSoFar' /\ WorkersServe' /\ FoundServed'
    BY <1>1 DEF CloseFound, SweptSoFar, WorkersServe, FoundServed
  <2>3. BetweenScans' /\ ScanLeavesNothing' /\ (orphan => done)'
    BY <1>1 DEF CloseFound, BetweenScans, ScanLeavesNothing
  <2> QED
    BY <2>1, <2>2, <2>3
<1>2. CASE RegisterFound
  <2> USE DEF RegisterFound, scan
  <2>1. DiscoveryTypeOK' /\ AnswersHeld'
    BY <1>2 DEF Upsert, DiscoveryTypeOK, AnswersHeld
  <2>2. SweptSoFar' /\ WorkersServe' /\ FoundServed' /\ OwedHeld'
    BY <1>2 DEF SweptSoFar, WorkersServe, FoundServed, OwedHeld
  <2>3. BetweenScans' /\ ScanLeavesNothing' /\ (orphan => done)'
    BY <1>2 DEF BetweenScans, ScanLeavesNothing
  <2> QED
    BY <2>1, <2>2, <2>3
<1>3. CASE ScanReturns
  <2> USE DEF ScanReturns, scan
  <2>1. DiscoveryTypeOK' /\ AnswersHeld'
    BY <1>3 DEF DiscoveryTypeOK, AnswersHeld
  <2>2. SweptSoFar' /\ WorkersServe' /\ FoundServed' /\ OwedHeld' /\ BetweenScans'
    BY <1>3 DEF SweptSoFar, WorkersServe, FoundServed, OwedHeld, BetweenScans
  <2>3. \A w \in Workers : worker[w] = "off"
    BY <1>3 DEF FoundServed
  <2>4. ~done => next = Closed /\ ~orphan
    BY <1>3, <2>3, WorkersAssumption DEF WorkersServe
  <2>5. ScanLeavesNothing' /\ (orphan => done)'
    BY <1>3, <2>3, <2>4 DEF ScanLeavesNothing
  <2> QED
    BY <2>1, <2>2, <2>5
<1> QED
  BY <1>1, <1>2, <1>3

LEMMA SweepNext == SweepInv /\ [DiscoveryNext]_discovery_vars => SweepInv'
<1> SUFFICES ASSUME SweepInv, [DiscoveryNext]_discovery_vars
             PROVE  SweepInv'
  OBVIOUS
<1>1. CASE Renumber \/ Session
  BY <1>1, OutsideSweep
<1>2. CASE Cancel \/ SkipScan \/ IntervalElapses \/ RunEnds
  BY <1>2, RunSteps
<1>3. CASE BeginScan
  BY <1>3, SweepBegins
<1>4. CASE \E w \in Workers : Feed(w)
  BY <1>4, FeedStep
<1>5. CASE FeederEnds \/ OrphanEnds
  BY <1>5, FeederStops
<1>6. CASE \E w \in Workers : Worker(w)
  BY <1>6, WorkerStep
<1>7. CASE \E w \in Workers : Collect(w)
  BY <1>7, CollectStep
<1>8. CASE CloseFound \/ RegisterFound \/ ScanReturns
  BY <1>8, SweepEnds
<1>9. CASE UNCHANGED discovery_vars
  BY <1>9 DEF discovery_vars, lan, scan, relay, history, SweepInv, DiscoveryTypeOK,
              AnswersHeld, SweptSoFar, WorkersServe, FoundServed, OwedHeld, BetweenScans,
              ScanLeavesNothing
<1> QED
  BY <1>1, <1>2, <1>3, <1>4, <1>5, <1>6, <1>7, <1>8, <1>9 DEF DiscoveryNext, Feeder, Collector

THEOREM SweepInductive == DiscoverySpec => []SweepInv
BY SweepInit, SweepNext, PTL DEF DiscoverySpec

\* Whatever the networks, cameras, workers and the order of the channels, the
\* discovery keeps its state typed.
THEOREM DiscoveryTypeCorrect == DiscoverySpec => []DiscoveryTypeOK
<1>1. SweepInv => DiscoveryTypeOK
  BY DEF SweepInv
<1> QED
  BY <1>1, SweepInductive, PTL

\* A sweep that nobody cancels misses no host and no answer, for any networks and
\* any number of workers (discovery.go, Scan).
THEOREM SweepCorrect == DiscoverySpec => []NothingMissed
<1>1. SweepInv => NothingMissed
  <2> SUFFICES ASSUME SweepInv, run = "range", collected = NoObservation, ~found_open, ~done
               PROVE  probed = Sweep /\ owed = {}
    BY DEF NothingMissed
  <2>1. \A w \in Workers : worker[w] = "off"
    BY DEF SweepInv, FoundServed
  <2>2. next = Closed
    BY <2>1, WorkersAssumption DEF SweepInv, WorkersServe
  <2>3. probed = Sweep
    BY <2>2 DEF SweepInv, SweptSoFar
  <2>4. owed = {}
    <3>1. NoObservation \notin Cameras \X Addresses
      BY CamerasAssumption DEF NoObservation
    <3> QED
      BY <2>1, <3>1 DEF SweepInv, OwedHeld, DiscoveryTypeOK
  <2> QED
    BY <2>3, <2>4
<1> QED
  BY <1>1, SweepInductive, PTL

\* Scan returns with its goroutines gone, but for a feeder that a done context is
\* about to end.
THEOREM LeaveCorrect == DiscoverySpec => []ScanLeavesNothing
<1>1. SweepInv => ScanLeavesNothing
  BY DEF SweepInv
<1> QED
  BY <1>1, SweepInductive, PTL

\* The sweep on a quiet network: what it observes is so, and what it writes is what
\* it observed.
LEMMA SweepKeepsSettled ==
  ASSUME SweepInv, Quiet, Settled, NothingStale, UNCHANGED <<lan, relay>>,
         \/ BeginScan \/ FeederEnds \/ CloseFound \/ RegisterFound \/ ScanReturns
         \/ \E w \in Workers : Feed(w) \/ Worker(w) \/ Collect(w)
  PROVE  Quiet' /\ Settled' /\ NothingStale'
<1> USE DEF lan, relay, scan, history
<1>0. /\ UNCHANGED <<at, moves, session, dialled, peer>>
      /\ registry \in [Cameras -> Addresses \cup {Nowhere}]
      /\ worker \in [Workers -> {"off", "idle", "probe", "send"}]
      /\ host \in [Workers -> Addresses \cup {Nowhere}]
      /\ camera \in [Workers -> Cameras \cup {Nobody}]
      /\ collected \in (Cameras \X Addresses) \cup {NoObservation}
  BY DEF SweepInv, DiscoveryTypeOK
<1>1. Quiet'
  BY <1>0 DEF Quiet
<1>2. ASSUME UNCHANGED registry
      PROVE  Settled'
  BY <1>0, <1>2 DEF Settled
<1>3. CASE BeginScan
  <2>1. UNCHANGED <<registry, collected>> /\ \A w \in Workers : worker'[w] # "send"
    BY <1>3 DEF BeginScan
  <2> QED
    BY <1>0, <1>1, <1>2, <2>1 DEF NothingStale
<1>4. CASE FeederEnds \/ CloseFound \/ ScanReturns
  <2>1. UNCHANGED <<registry, collected, worker, camera, host>>
    BY <1>4 DEF FeederEnds, CloseFound, ScanReturns
  <2> QED
    BY <1>0, <1>1, <1>2, <2>1 DEF NothingStale
<1>5. ASSUME NEW w \in Workers, Feed(w) \/ Worker(w) \/ Collect(w)
      PROVE  Settled' /\ NothingStale'
  <2>1. UNCHANGED registry
    BY <1>5 DEF Feed, Worker, Answers, Fails, WorkerEnds, Collect
  <2>2. \A u \in Workers \ {w} : UNCHANGED <<worker[u], host[u], camera[u]>>
    BY <1>0, <1>5 DEF Feed, Worker, Answers, Fails, WorkerEnds, Collect, Forget
  <2>3. worker'[w] = "send" => at[camera'[w]] = host'[w]
    BY <1>0, <1>5 DEF Feed, Worker, Answers, Fails, WorkerEnds, Collect
  <2>4. collected' # NoObservation => at[collected'[1]] = collected'[2]
    <3>1. CASE Collect(w)
      BY <3>1 DEF Collect, NothingStale
    <3>2. CASE ~Collect(w)
      BY <1>5, <3>2 DEF Feed, Worker, Answers, Fails, WorkerEnds, NothingStale
    <3> QED
      BY <3>1, <3>2
  <2>5. NothingStale'
    <3>1. ASSUME NEW u \in Workers, worker'[u] = "send"
          PROVE  at'[camera'[u]] = host'[u]
      BY <1>0, <2>2, <2>3, <3>1 DEF NothingStale
    <3> QED
      BY <1>0, <2>4, <3>1 DEF NothingStale, NoObservation
  <2> QED
    BY <1>2, <2>1, <2>5
<1>6. CASE RegisterFound
  <2>1. /\ collected # NoObservation
        /\ registry' = [registry EXCEPT ![collected[1]] = collected[2]]
        /\ collected' = NoObservation
        /\ UNCHANGED <<worker, host, camera>>
    BY <1>6 DEF RegisterFound, Upsert
  <2>2. at[collected[1]] = collected[2]
    BY <2>1 DEF NothingStale
  <2>3. \A c \in Cameras : at[c] # Nowhere => registry'[c] = at[c]
    BY <1>0, <2>1, <2>2 DEF Settled
  <2> QED
    BY <1>0, <1>1, <2>1, <2>3 DEF Settled, NothingStale
<1> QED
  BY <1>1, <1>3, <1>4, <1>5, <1>6

\* The session: of a camera that is there it streams, and nothing is for it to do; of
\* one that is not, it may refresh the entry, which then says nothing of another.
LEMMA SessionKeepsSettled ==
  ASSUME SweepInv, Quiet, Settled, NothingStale, Session
  PROVE  Quiet' /\ Settled' /\ NothingStale'
<1> USE DEF lan, scan, history
<1>1. /\ UNCHANGED <<at, moves, worker, host, camera, collected>>
      /\ \/ UNCHANGED registry
         \/ session = "hello" /\ registry' = [registry EXCEPT ![Watched] = dialled]
  BY DEF Session, Lookup, SessionDials, SessionDialFails, Hangup, HelloRight, HelloWrong,
         StreamFails, Upsert
<1>2. Quiet' /\ NothingStale'
  BY <1>1 DEF Quiet, NothingStale
<1>3. CASE at[Watched] # Nowhere
  <2>1. session = "stream" /\ at[peer] = dialled
    BY <1>3 DEF Settled
  <2> QED
    BY <2>1 DEF Session, Lookup, SessionDials, SessionDialFails, HelloRight, HelloWrong,
                StreamFails
<1>4. CASE at[Watched] = Nowhere
  <2>1. registry \in [Cameras -> Addresses \cup {Nowhere}]
    BY DEF SweepInv, DiscoveryTypeOK
  <2>2. \A c \in Cameras : at[c] # Nowhere => registry'[c] = registry[c]
    BY <1>1, <1>4, <2>1
  <2>3. Settled'
    BY <1>1, <1>4, <2>2 DEF Settled
  <2> QED
    BY <1>2, <2>3
<1> QED
  BY <1>3, <1>4

\* Settled is where the registry and the session stay while the network is quiet, for any
\* networks, cameras and workers: the part of Settles that needs no fairness.
THEOREM SettledCorrect == DiscoverySpec => SettledStays
<1> DEFINE Good == Quiet /\ Settled /\ NothingStale
<1>1. ASSUME SweepInv, [DiscoveryNext]_discovery_vars, Good
      PROVE  Good'
  <2> USE <1>1 DEF lan, relay, scan, history
  <2>1. CASE Renumber
    BY <2>1, BoundAssumption DEF Renumber, Quiet
  <2>2. CASE Session
    BY <2>2, SessionKeepsSettled
  <2>3. CASE \/ BeginScan \/ FeederEnds \/ CloseFound \/ RegisterFound \/ ScanReturns
             \/ \E w \in Workers : Feed(w) \/ Worker(w) \/ Collect(w)
    <3>1. UNCHANGED <<lan, relay>>
      BY <2>3 DEF BeginScan, FeederEnds, CloseFound, RegisterFound, ScanReturns, Feed, Worker,
                  Answers, Fails, WorkerEnds, Collect
    <3> QED
      BY <2>3, <3>1, SweepKeepsSettled
  <2>4. CASE Cancel \/ SkipScan \/ IntervalElapses \/ RunEnds \/ OrphanEnds
             \/ UNCHANGED discovery_vars
    <3>1. UNCHANGED <<lan, relay, registry, collected, worker, camera, host>>
      BY <2>4 DEF Cancel, SkipScan, IntervalElapses, RunEnds, OrphanEnds, discovery_vars
    <3> QED
      BY <3>1 DEF Quiet, Settled, NothingStale
  <2> QED
    BY <2>1, <2>2, <2>3, <2>4 DEF DiscoveryNext, Feeder, Collector
<1> QED
  BY <1>1, SweepInductive, PTL DEF DiscoverySpec, SettledStays
=============================================================================
