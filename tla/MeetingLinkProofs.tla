------------------------- MODULE MeetingLinkProofs --------------------------
(***************************************************************************)
(* Proofs about MeetingLink, for every set of threads, every queue capacity *)
(* and every bound.  Type correctness needs nothing else.  The properties   *)
(* of the link assume Prompt, as the comments of the code do ("wait thread  *)
(* to be created"): the pauses of the controller outlast the start of a     *)
(* connect thread.  Without it two threads may connect at once.             *)
(***************************************************************************)
EXTENDS MeetingLink, FiniteSetTheorems, TLAPS

\* The connect threads inside connectWithCallback, and the receive threads that live.
Openers == {t \in ConnectThread : ct[t] = "opening"}
Live == {k \in Attempt : pkt[k] \in {"new", "run"}}

\* Every attempt is good for one SOCKET_DISCONNECT message at most: while its thread
\* connects or its receive thread lives, the message is still to come.
ReportsBounded ==
    /\ IsFiniteSet(Openers)
    /\ \A k \in Attempt : lq[k] + Cardinality(Live) + Cardinality(Openers) <= attempts

\* A connect thread that has registered.
Busy == {"try", "open", "opening", "bind", "finish"}

TearingDown == {"stopEly", "check", "close", "join", "spawn"}

\* Before the first attempt there is no client and nothing to report.
NothingYet ==
    attempts = 0 =>
        /\ cq = 0 /\ ctl = "idle"
        /\ \A k \in Attempt : pkt[k] = "none" /\ msg[k] = "none"
        /\ \A e \in ElyThread : ely[e] = "none"

\* One connect thread, registered once it is past the check of the id; the
\* controller waits while it starts, and tears down only when there is none.
ConnectorAlone ==
    /\ \A t \in ConnectThread : ct[t] \in {"start", "register"} /\ attempts # 0 => ctl = "wait"
    /\ \A t \in ConnectThread : ct[t] \in Busy => connectingThreadId = t
    /\ \A t, u \in ConnectThread : ct[t] # "none" /\ ct[u] # "none" => t = u
    /\ ctl \in TearingDown => \A t \in ConnectThread : ct[t] = "none"

\* The client's descriptor is the socket of the last attempt, or closed.
SocketCurrent ==
    /\ ctl \in {"join", "spawn"} => fd = 0
    /\ \A t \in ConnectThread : ct[t] = "open" => fd = 0
    /\ \A t \in ConnectThread : ct[t] = "opening" =>
           fd = attempts /\ fd # 0 /\ pkt[fd] = "none"
    /\ fd # 0 => fd = attempts /\ conn[fd].ours
    /\ \A k \in Attempt : conn[k].ours => k = fd
    /\ \A k \in Attempt : k > attempts => conn[k].peer = "none" /\ pkt[k] = "none"

\* The end of the receive thread of the current socket has been reported.
Told == missed \/ lq[fd] > 0 \/ cq > 0 \/ ctl \in {"stopEly", "check", "close"}

\* A connected socket is read by its receive thread, or the end was reported.
SocketWatched ==
    fd # 0 /\ conn[fd].peer # "none" =>
        /\ msg[fd] \in {"new", "run"}
        /\ \/ pkt[fd] = "new"
           \/ pkt[fd] = "run" /\ reads[fd] = fd
           \/ pkt[fd] = "ended" /\ Told

LinkInv ==
    /\ TypeOK
    /\ ReportsBounded
    /\ NothingYet
    /\ ConnectorAlone
    /\ SocketCurrent
    /\ SocketWatched

-----------------------------------------------------------------------------
(* The messages of the receive threads *)

\* A set of attempts has at most MaxConn members.
LEMMA AttemptsCount ==
    ASSUME NEW S \in SUBSET Attempt
    PROVE  IsFiniteSet(S) /\ Cardinality(S) \in 0..MaxConn
<1>1. IsFiniteSet(Attempt) /\ Cardinality(Attempt) = MaxConn
  BY FS_Interval, LinkConstantsOK DEF Attempt
<1>2. IsFiniteSet(S) /\ Cardinality(S) <= Cardinality(Attempt)
  BY <1>1, FS_Subset
<1> QED
  BY <1>1, <1>2, FS_CardinalityType

\* The bound survives a step that sends no message and starts no thread.
LEMMA ReportsStay ==
    ASSUME TypeOK, ReportsBounded, lq' \in [Attempt -> Nat],
           \A k \in Attempt : lq'[k] <= lq[k],
           Live' \subseteq Live, Openers' \subseteq Openers, UNCHANGED attempts
    PROVE  ReportsBounded'
<1>1. Live \in SUBSET Attempt /\ Live' \in SUBSET Attempt
  BY DEF Live
<1>2. /\ Cardinality(Live) \in Nat /\ Cardinality(Live') \in Nat
      /\ Cardinality(Live') <= Cardinality(Live)
  BY <1>1, AttemptsCount, FS_Subset
<1>3. /\ IsFiniteSet(Openers') /\ Cardinality(Openers') <= Cardinality(Openers)
      /\ Cardinality(Openers) \in Nat /\ Cardinality(Openers') \in Nat
  BY FS_Subset, FS_CardinalityType DEF ReportsBounded
<1>4. \A k \in Attempt : lq[k] \in Nat /\ lq'[k] \in Nat
  BY DEF TypeOK
<1>5. attempts \in Nat
  BY LinkConstantsOK DEF TypeOK
<1> QED
  BY <1>2, <1>3, <1>4, <1>5 DEF ReportsBounded

\* A receive thread that ends sends one message, and there is room for it.
LEMMA ReportSent ==
    ASSUME TypeOK, ReportsBounded, NEW k \in Attempt, pkt[k] = "run", SendsDisconnect(k),
           UNCHANGED <<ct, attempts>>
    PROVE  /\ ReportsBounded'
           /\ lq' \in [Attempt -> 0..MaxConn]
           /\ pkt' \in [Attempt -> {"none", "new", "run", "ended"}]
<1>1. /\ pkt \in [Attempt -> {"none", "new", "run", "ended"}]
      /\ lq \in [Attempt -> 0..MaxConn]
      /\ attempts \in Nat /\ attempts <= MaxConn
      /\ pkt' = [pkt EXCEPT ![k] = "ended"]
      /\ lq' = [lq EXCEPT ![attempts] = @ + 1]
  BY LinkConstantsOK DEF TypeOK, SendsDisconnect
<1>2. Live \in SUBSET Attempt /\ k \in Live /\ Live' = Live \ {k}
  BY <1>1 DEF Live
<1>3. Openers' = Openers
  BY DEF Openers
<1>4. /\ Cardinality(Live) \in Nat /\ Cardinality(Live') \in Nat
      /\ Cardinality(Live') = Cardinality(Live) - 1
  BY <1>2, AttemptsCount, FS_RemoveElement
<1>5. IsFiniteSet(Openers) /\ Cardinality(Openers) \in Nat
  BY FS_CardinalityType DEF ReportsBounded
<1>6. \A j \in Attempt : lq'[j] \in {lq[j], lq[j] + 1} /\ lq[j] \in Nat
  BY <1>1
<1>7. \A j \in Attempt :
          /\ lq'[j] \in Nat
          /\ lq'[j] + Cardinality(Live') + Cardinality(Openers) <= attempts
  <2> SUFFICES ASSUME NEW j \in Attempt
               PROVE  /\ lq'[j] \in Nat
                      /\ lq'[j] + Cardinality(Live') + Cardinality(Openers) <= attempts
    OBVIOUS
  <2>1. lq[j] + Cardinality(Live) + Cardinality(Openers) <= attempts
    BY DEF ReportsBounded
  <2> QED
    BY <1>1, <1>4, <1>5, <1>6, <2>1
<1>8. \A j \in Attempt : lq'[j] \in 0..MaxConn
  BY <1>1, <1>4, <1>5, <1>7, LinkConstantsOK
<1>9. ReportsBounded'
  BY <1>3, <1>5, <1>7 DEF ReportsBounded
<1> QED
  BY <1>1, <1>8, <1>9

\* A connect thread takes its attempt into connectWithCallback and hands it over to
\* the receive thread it creates.
LEMMA ConnectorReports ==
    ASSUME TypeOK, ReportsBounded, NEW t \in ConnectThread, Connector(t)
    PROVE  ReportsBounded'
<1> USE DEF Moves
<1>1. /\ \A k \in Attempt : lq[k] \in Nat
      /\ attempts \in Nat
      /\ ct \in [ConnectThread -> {"none", "start", "register", "try", "open", "opening",
                                   "bind", "finish"}]
      /\ pkt \in [Attempt -> {"none", "new", "run", "ended"}]
  BY LinkConstantsOK DEF TypeOK
<1>2. /\ Live \in SUBSET Attempt /\ Live' \in SUBSET Attempt
      /\ IsFiniteSet(Live) /\ IsFiniteSet(Live')
      /\ Cardinality(Live) \in Nat /\ Cardinality(Live') \in Nat
  BY AttemptsCount DEF Live
<1>3. IsFiniteSet(Openers) /\ Cardinality(Openers) \in Nat
  BY FS_CardinalityType DEF ReportsBounded
<1>4. CASE CreatesSocket(t)
  <2>1. ct[t] = "open" /\ ct' = [ct EXCEPT ![t] = "opening"] /\ UNCHANGED <<lq, pkt>>
        /\ attempts' = attempts + 1
    BY <1>4 DEF CreatesSocket
  <2>2. Openers' = Openers \cup {t} /\ t \notin Openers /\ Live' = Live
    BY <1>1, <2>1 DEF Openers, Live
  <2>3. IsFiniteSet(Openers') /\ Cardinality(Openers') = Cardinality(Openers) + 1
    BY <1>3, <2>2, FS_AddElement
  <2>4. ASSUME NEW k \in Attempt
        PROVE  lq'[k] + Cardinality(Live') + Cardinality(Openers') <= attempts'
    <3>1. lq[k] + Cardinality(Live) + Cardinality(Openers) <= attempts
      BY DEF ReportsBounded
    <3> QED
      BY <1>1, <1>2, <1>3, <2>1, <2>2, <2>3, <3>1
  <2> QED
    BY <2>3, <2>4 DEF ReportsBounded
<1>5. CASE Connects(t)
  <2>1. ct[t] = "opening" /\ ct' = [ct EXCEPT ![t] = "bind"] /\ UNCHANGED <<lq, attempts>>
        /\ pkt' = [pkt EXCEPT ![attempts] = "new"]
    BY <1>5 DEF Connects
  <2>2. Openers' = Openers \ {t} /\ t \in Openers /\ Live' \subseteq Live \cup {attempts}
    BY <1>1, <2>1 DEF Openers, Live
  <2>3. IsFiniteSet(Openers') /\ Cardinality(Openers') = Cardinality(Openers) - 1
        /\ Cardinality(Openers') \in Nat
    BY <1>3, <2>2, FS_RemoveElement, FS_CardinalityType
  <2>4. /\ IsFiniteSet(Live \cup {attempts})
        /\ Cardinality(Live \cup {attempts}) \in {Cardinality(Live), Cardinality(Live) + 1}
    BY <1>2, FS_AddElement
  <2>5. Cardinality(Live') <= Cardinality(Live) + 1
    BY <1>2, <2>2, <2>4, FS_Subset
  <2> QED
    BY <1>1, <1>2, <1>3, <2>1, <2>3, <2>5 DEF ReportsBounded
<1>6. CASE ~CreatesSocket(t) /\ ~Connects(t)
  <2>1. UNCHANGED <<lq, pkt, attempts>>
    BY <1>6 DEF Connector, ChecksId, Registers, Tries, ConnectFails, SendsBind, BindFails,
                Finishes, clientVars
  <2>2. \E to \in {"none", "register", "try", "open", "bind", "finish"} :
            ct' = [ct EXCEPT ![t] = to]
    BY <1>6 DEF Connector, ChecksId, Registers, Tries, ConnectFails, SendsBind, BindFails,
                Finishes
  <2>3. Openers' \subseteq Openers /\ Live' = Live
    BY <1>1, <2>1, <2>2 DEF Openers, Live
  <2> QED
    BY <1>1, <2>1, <2>3, ReportsStay DEF TypeOK
<1> QED
  BY <1>4, <1>5, <1>6

-----------------------------------------------------------------------------
(* Type correctness *)

\* The state before the first attempt is well typed.
LEMMA TypeInit == Init => TypeOK
<1> SUFFICES ASSUME Init
             PROVE  TypeOK
  OBVIOUS
<1>1. /\ cq \in 0..QCap /\ fd \in 0..MaxConn /\ attempts \in 0..MaxConn
      /\ munRunThreadId \in 0..MaxConn
      /\ spent \in [fail : 0..MaxFail, break : 0..MaxBreak]
  BY LinkConstantsOK DEF Init
<1>2. ct \in [ConnectThread -> {"none", "start", "register", "try", "open", "opening",
                                "bind", "finish"}]
  BY DEF Init
<1>3. /\ conn \in [Attempt -> [ours : BOOLEAN, peer : {"none", "up", "silent", "gone"}]]
      /\ msg \in [Attempt -> {"none", "new", "run", "ended"}]
      /\ pkt \in [Attempt -> {"none", "new", "run", "ended"}]
      /\ lq \in [Attempt -> 0..MaxConn]
      /\ reads \in [Attempt -> 0..MaxConn]
      /\ asked \subseteq Attempt
  BY LinkConstantsOK DEF Init
<1>4. /\ ctl = "idle" /\ missed \in BOOLEAN /\ isRunning \in BOOLEAN
      /\ connectingThreadId = NoThread /\ loopThreadId = NoThread
      /\ ely \in [ElyThread -> {"none", "new", "check", "mark", "valid", "loop", "told"}]
  BY DEF Init
<1> QED
  BY <1>1, <1>2, <1>3, <1>4 DEF TypeOK

\* The enquire-link threads keep the state well typed.
LEMMA ElyType ==
    ASSUME TypeOK, NEW e \in ElyThread, Ely(e)
    PROVE  TypeOK'
<1> USE DEF Ely, ElyMoves, clientVars
<1>1. UNCHANGED <<ctl, connectingThreadId, ct, missed, clientVars, spent>>
  OBVIOUS
<1>2. /\ cq' \in 0..QCap
      /\ isRunning' \in BOOLEAN
      /\ loopThreadId' \in ElyThread \cup {NoThread}
      /\ ely' \in [ElyThread -> {"none", "new", "check", "mark", "valid", "loop", "told"}]
  <2>1. /\ cq \in 0..QCap /\ isRunning \in BOOLEAN
        /\ loopThreadId \in ElyThread \cup {NoThread}
        /\ ely \in [ElyThread -> {"none", "new", "check", "mark", "valid", "loop", "told"}]
    BY DEF TypeOK
  <2>2. cq < QCap => cq + 1 \in 0..QCap
    BY <2>1, LinkConstantsOK
  <2>3. CASE cq' = cq /\ \E to \in {"none", "check", "mark", "valid", "loop"} :
               ely' = [ely EXCEPT ![e] = to]
    BY <2>1, <2>3 DEF ElyRun, Inform
  <2>4. CASE Inform(e)
    BY <2>1, <2>2, <2>4 DEF Inform
  <2> QED
    BY <2>3, <2>4 DEF ElyRun
<1> QED
  BY <1>1, <1>2 DEF TypeOK

\* So do stop and start of the enquire link.
LEMMA ElyStartStopType ==
    ASSUME TypeOK, ElyStop \/ ElyStart
    PROVE  /\ isRunning' \in BOOLEAN
           /\ loopThreadId' \in ElyThread \cup {NoThread}
           /\ ely' \in [ElyThread -> {"none", "new", "check", "mark", "valid", "loop", "told"}]
<1>1. /\ isRunning \in BOOLEAN
      /\ loopThreadId \in ElyThread \cup {NoThread}
      /\ ely \in [ElyThread -> {"none", "new", "check", "mark", "valid", "loop", "told"}]
  BY DEF TypeOK
<1>2. CASE ElyStop
  BY <1>1, <1>2 DEF ElyStop
<1>3. CASE ElyStart
  BY <1>1, <1>3 DEF ElyStart, elyVars
<1> QED
  BY <1>2, <1>3

\* A socket that is closed keeps its peer.
LEMMA ClosesType ==
    ASSUME TypeOK,
           conn' = [k \in Attempt |-> IF k = fd THEN [conn[k] EXCEPT !.ours = FALSE] ELSE conn[k]]
    PROVE  /\ conn' \in [Attempt -> [ours : BOOLEAN, peer : {"none", "up", "silent", "gone"}]]
           /\ \A k \in Attempt : /\ conn'[k].peer = conn[k].peer
                                 /\ conn'[k].ours <=> conn[k].ours /\ k # fd
<1> SUFFICES ASSUME NEW k \in Attempt
             PROVE  /\ conn'[k] \in [ours : BOOLEAN, peer : {"none", "up", "silent", "gone"}]
                    /\ conn'[k].peer = conn[k].peer
                    /\ conn'[k].ours <=> conn[k].ours /\ k # fd
  OBVIOUS
<1>1. conn[k] \in [ours : BOOLEAN, peer : {"none", "up", "silent", "gone"}]
  BY DEF TypeOK
<1>2. CASE k = fd
  <2>1. conn'[k] = [conn[k] EXCEPT !.ours = FALSE]
    BY <1>2
  <2> QED
    BY <1>1, <1>2, <2>1
<1>3. CASE k # fd
  <2>1. conn'[k] = conn[k]
    BY <1>3
  <2> QED
    BY <1>1, <1>3, <2>1
<1> QED
  BY <1>2, <1>3

\* So does the controller thread.
LEMMA ControllerType ==
    ASSUME TypeOK, Controller
    PROVE  TypeOK'
<1> USE DEF clientVars, elyVars
<1>1. CASE OnServerDisconnect
  <2>1. cq' \in 0..QCap
    BY <1>1, LinkConstantsOK DEF OnServerDisconnect, TypeOK
  <2>2. ctl' \in {"idle", "stopEly"} /\ missed' \in BOOLEAN
    BY <1>1 DEF OnServerDisconnect, TypeOK
  <2> QED
    BY <1>1, <2>1, <2>2 DEF OnServerDisconnect, TypeOK
<1>2. CASE StopClientEly
  BY <1>2, ElyStartStopType DEF StopClientEly, TypeOK
<1>3. CASE StopClientCheck
  BY <1>3 DEF StopClientCheck, TypeOK
<1>4. CASE StopClientClose
  <2>1. conn' \in [Attempt -> [ours : BOOLEAN, peer : {"none", "up", "silent", "gone"}]]
    BY <1>4, ClosesType DEF StopClientClose
  <2> QED
    BY <1>4, <2>1, LinkConstantsOK DEF StopClientClose, TypeOK
<1>5. CASE StopClientJoin
  BY <1>5, LinkConstantsOK DEF StopClientJoin, TypeOK
<1>6. CASE StartConnectThread
  BY <1>6 DEF StartConnectThread, TypeOK
<1>7. CASE PauseEnds
  BY <1>7 DEF PauseEnds, TypeOK
<1> QED
  BY <1>1, <1>2, <1>3, <1>4, <1>5, <1>6, <1>7 DEF Controller

\* So does a connect thread.
LEMMA ConnectorType ==
    ASSUME TypeOK, NEW t \in ConnectThread, Connector(t)
    PROVE  TypeOK'
<1> USE DEF clientVars, elyVars, Moves
<1>1. CASE ChecksId(t)
  BY <1>1 DEF ChecksId, TypeOK
<1>2. CASE Registers(t)
  BY <1>2 DEF Registers, TypeOK
<1>3. CASE Tries(t)
  BY <1>3 DEF Tries, TypeOK
<1>4. CASE CreatesSocket(t)
  <2>1. attempts + 1 \in 0..MaxConn
    BY <1>4, LinkConstantsOK DEF CreatesSocket, TypeOK
  <2>2. conn' \in [Attempt -> [ours : BOOLEAN, peer : {"none", "up", "silent", "gone"}]]
    <3>1. conn \in [Attempt -> [ours : BOOLEAN, peer : {"none", "up", "silent", "gone"}]]
      BY DEF TypeOK
    <3>2. conn' = [conn EXCEPT ![attempts + 1].ours = TRUE]
      BY <1>4 DEF CreatesSocket
    <3> QED
      BY <3>1, <3>2
  <2>3. ct' \in [ConnectThread -> {"none", "start", "register", "try", "open", "opening",
                                   "bind", "finish"}]
    BY <1>4 DEF CreatesSocket, TypeOK
  <2> QED
    BY <1>4, <2>1, <2>2, <2>3, LinkConstantsOK DEF CreatesSocket, TypeOK
<1>5. CASE ConnectFails(t)
  <2>1. conn' \in [Attempt -> [ours : BOOLEAN, peer : {"none", "up", "silent", "gone"}]]
    BY <1>5, ClosesType DEF ConnectFails
  <2>2. spent' \in [fail : 0..MaxFail, break : 0..MaxBreak]
    BY <1>5, LinkConstantsOK DEF ConnectFails, Fails, TypeOK
  <2>3. ct' \in [ConnectThread -> {"none", "start", "register", "try", "open", "opening",
                                   "bind", "finish"}]
    BY <1>5 DEF ConnectFails, TypeOK
  <2> QED
    BY <1>5, <2>1, <2>2, <2>3, LinkConstantsOK DEF ConnectFails, TypeOK
<1>6. CASE Connects(t)
  BY <1>6 DEF Connects, TypeOK
<1>7. CASE SendsBind(t)
  <2>1. asked' \subseteq Attempt
    BY <1>7, LinkConstantsOK DEF SendsBind, TypeOK, Attempt
  <2>2. ct' \in [ConnectThread -> {"none", "start", "register", "try", "open", "opening",
                                   "bind", "finish"}]
    BY <1>7 DEF SendsBind, TypeOK
  <2> QED
    BY <1>7, <2>1, <2>2 DEF SendsBind, TypeOK
<1>8. CASE BindFails(t)
  BY <1>8, LinkConstantsOK DEF BindFails, Fails, TypeOK
<1>9. CASE Finishes(t)
  BY <1>9 DEF Finishes, TypeOK
<1> QED
  BY <1>1, <1>2, <1>3, <1>4, <1>5, <1>6, <1>7, <1>8, <1>9 DEF Connector

\* What a receive thread does after a message keeps its own state well typed.
LEMMA ReceivesOnType ==
    ASSUME TypeOK, ReportsBounded, NEW k \in Attempt, pkt[k] = "run", ReceivesOn(k),
           UNCHANGED <<ct, attempts>>
    PROVE  /\ lq' \in [Attempt -> 0..MaxConn]
           /\ pkt' \in [Attempt -> {"none", "new", "run", "ended"}]
           /\ reads' \in [Attempt -> 0..MaxConn]
           /\ ReportsBounded'
<1>1. CASE UNCHANGED <<pkt, lq>>
  <2>1. ReportsBounded'
    BY <1>1, ReportsStay DEF TypeOK, Live, Openers
  <2> QED
    BY <1>1, <2>1 DEF ReceivesOn, TypeOK
<1>2. CASE SendsDisconnect(k) /\ UNCHANGED reads
  BY <1>2, ReportSent DEF TypeOK
<1> QED
  BY <1>1, <1>2 DEF ReceivesOn

\* The client's threads and its peer keep the state well typed, and the messages of
\* the receive threads within their bound.
LEMMA ClientType ==
    ASSUME TypeOK, ReportsBounded, NEW k \in Attempt,
           \/ ClientThread(k) \/ BindResponse(k) \/ LateMessage(k)
           \/ PeerChanges(k, "silent") \/ PeerChanges(k, "gone")
    PROVE  TypeOK' /\ ReportsBounded'
<1> USE DEF controllerVars, elyVars
<1>1. CASE MessageThreadStarts(k)
  <2>1. TypeOK'
    BY <1>1, LinkConstantsOK DEF MessageThreadStarts, TypeOK, Attempt
  <2> QED
    BY <1>1, <2>1, ReportsStay DEF MessageThreadStarts, TypeOK, Live, Openers
<1>2. CASE Reports(k)
  <2>1. TypeOK'
    BY <1>2, LinkConstantsOK DEF Reports, TypeOK
  <2> QED
    BY <1>2, <2>1, ReportsStay DEF Reports, TypeOK, Live, Openers
<1>3. CASE ReceiveThreadStarts(k)
  <2>1. TypeOK'
    BY <1>3 DEF ReceiveThreadStarts, TypeOK
  <2> QED
    BY <1>3, <2>1, ReportsStay DEF ReceiveThreadStarts, TypeOK, Live, Openers
<1>4. CASE RecvReturnsEnd(k)
  BY <1>4, ReportSent DEF RecvReturnsEnd, TypeOK
<1>5. CASE BindResponse(k)
  BY <1>5, ElyStartStopType, ReceivesOnType DEF BindResponse, TypeOK
<1>6. CASE LateMessage(k)
  BY <1>6, ReceivesOnType DEF LateMessage, TypeOK
<1>7. ASSUME NEW how \in {"silent", "gone"}, PeerChanges(k, how)
      PROVE  TypeOK' /\ ReportsBounded'
  <2>1. TypeOK'
    BY <1>7, LinkConstantsOK, SMTT(30) DEF PeerChanges, TypeOK
  <2> QED
    BY <1>7, <2>1, ReportsStay DEF PeerChanges, TypeOK, Live, Openers
<1> QED
  BY <1>1, <1>2, <1>3, <1>4, <1>5, <1>6, <1>7 DEF ClientThread

\* Every step keeps the state well typed and the messages within their bound.
LEMMA TypeStep ==
    ASSUME TypeOK, ReportsBounded, [Next]_vars
    PROVE  TypeOK' /\ ReportsBounded'
<1>1. CASE UNCHANGED vars
  <2>1. TypeOK'
    BY <1>1 DEF vars, TypeOK
  <2> QED
    BY <1>1, <2>1, ReportsStay DEF vars, TypeOK, Live, Openers
<1>2. ASSUME NEW t \in ConnectThread, Connector(t)
      PROVE  TypeOK' /\ ReportsBounded'
  BY <1>2, ConnectorType, ConnectorReports
<1>3. CASE Controller
  <2>1. UNCHANGED <<pkt, lq, attempts>>
    BY <1>3 DEF Controller, OnServerDisconnect, StopClientEly, StopClientCheck,
                StopClientClose, StopClientJoin, StartConnectThread, PauseEnds, clientVars
  <2>2. \A t \in ConnectThread : ct'[t] \in {ct[t], "start"}
    BY <1>3 DEF Controller, OnServerDisconnect, StopClientEly, StopClientCheck,
                StopClientClose, StopClientJoin, StartConnectThread, PauseEnds, TypeOK
  <2>3. Openers' \subseteq Openers /\ Live' = Live
    BY <2>1, <2>2 DEF Openers, Live
  <2> QED
    BY <1>3, <2>1, <2>3, ControllerType, ReportsStay DEF TypeOK
<1>4. ASSUME NEW e \in ElyThread, Ely(e)
      PROVE  TypeOK' /\ ReportsBounded'
  <2>1. UNCHANGED <<pkt, lq, attempts, ct>>
    BY <1>4 DEF Ely, clientVars
  <2> QED
    BY <1>4, <2>1, ElyType, ReportsStay DEF TypeOK, Live, Openers
<1> QED
  BY <1>1, <1>2, <1>3, <1>4, ClientType DEF Next, Environment

-----------------------------------------------------------------------------
(* The link *)

LinkParts == NothingYet /\ ConnectorAlone /\ SocketCurrent /\ SocketWatched

\* The enquire link only adds reports, and runs only when there was a client.
LEMMA ElyKeeps ==
    ASSUME LinkInv, NEW e \in ElyThread, Ely(e)
    PROVE  LinkParts'
<1> USE DEF LinkInv
<1>1. ely[e] # "none" /\ cq' \in {cq, cq + 1}
  BY DEF Ely, ElyRun, ElyMoves, Inform
<1>2. /\ UNCHANGED <<ctl, connectingThreadId, ct, missed, fd, conn, attempts, msg, lq, pkt, reads>>
      /\ cq > 0 => cq' > 0
  BY <1>1 DEF Ely, clientVars, TypeOK
<1>3. NothingYet' /\ ConnectorAlone' /\ SocketCurrent'
  BY <1>1, <1>2 DEF NothingYet, ConnectorAlone, SocketCurrent
<1>4. SocketWatched'
  BY <1>2 DEF SocketWatched, Told
<1> QED
  BY <1>3, <1>4 DEF LinkParts

\* The controller tears a link down only when no thread connects, and starts one
\* connect thread afterwards.
LEMMA ControllerKeeps ==
    ASSUME LinkInv, Prompt, Controller
    PROVE  LinkParts'
<1> USE DEF LinkInv, clientVars, elyVars
<1>1. CASE OnServerDisconnect
  <2>1. /\ ctl = "idle" /\ cq > 0
        /\ \/ missed' = TRUE /\ UNCHANGED ctl
           \/ connectingThreadId = NoThread /\ ctl' = "stopEly" /\ UNCHANGED missed
        /\ UNCHANGED <<connectingThreadId, ct, fd, conn, attempts, msg, lq, pkt, reads>>
    BY <1>1 DEF OnServerDisconnect
  <2>2. attempts # 0
    BY <2>1 DEF NothingYet, TypeOK
  <2>3. connectingThreadId = NoThread => \A t \in ConnectThread : ct[t] = "none"
    <3> SUFFICES ASSUME connectingThreadId = NoThread, NEW t \in ConnectThread
                 PROVE  ct[t] = "none"
      OBVIOUS
    <3>1. ct[t] \notin {"start", "register"}
      BY <2>1, <2>2 DEF ConnectorAlone
    <3>2. ct[t] \notin Busy
      BY LinkConstantsOK DEF ConnectorAlone
    <3> QED
      BY <3>1, <3>2 DEF TypeOK, Busy
  <2>4. ConnectorAlone'
    BY <2>1, <2>2, <2>3 DEF ConnectorAlone, Busy
  <2>5. NothingYet' /\ SocketCurrent'
    BY <2>1, <2>2 DEF NothingYet, SocketCurrent
  <2>6. SocketWatched'
    BY <2>1 DEF SocketWatched, Told
  <2> QED
    BY <2>4, <2>5, <2>6 DEF LinkParts
<1>2. ASSUME ctl \in TearingDown, ctl' \in TearingDown, UNCHANGED <<ct, attempts, pkt>>,
             SocketCurrent', SocketWatched'
      PROVE  LinkParts'
  <2>1. attempts # 0 /\ \A t \in ConnectThread : ct[t] = "none"
    BY <1>2 DEF NothingYet, ConnectorAlone, TearingDown
  <2>2. NothingYet' /\ ConnectorAlone'
    BY <1>2, <2>1 DEF NothingYet, ConnectorAlone, Busy
  <2> QED
    BY <1>2, <2>2 DEF LinkParts
<1>3. ctl \in TearingDown => \A t \in ConnectThread : ct[t] = "none"
  BY DEF ConnectorAlone
<1>4. CASE StopClientEly
  <2>1. SocketCurrent' /\ SocketWatched'
    BY <1>4 DEF StopClientEly, SocketCurrent, SocketWatched, Told
  <2> QED
    BY <1>2, <1>4, <2>1 DEF StopClientEly, TearingDown
<1>5. CASE StopClientCheck
  <2>1. SocketCurrent' /\ SocketWatched'
    BY <1>5 DEF StopClientCheck, SocketCurrent, SocketWatched, Told
  <2> QED
    BY <1>2, <1>5, <2>1 DEF StopClientCheck, TearingDown
<1>6. CASE StopClientClose
  <2>1. \A k \in Attempt : conn'[k].peer = conn[k].peer /\ (conn'[k].ours <=> conn[k].ours /\ k # fd)
    BY <1>6, ClosesType DEF StopClientClose
  <2>2. SocketCurrent' /\ SocketWatched'
    BY <1>3, <1>6, <2>1 DEF StopClientClose, SocketCurrent, SocketWatched, TearingDown
  <2> QED
    BY <1>2, <1>6, <2>2 DEF StopClientClose, TearingDown
<1>7. CASE StopClientJoin
  <2>1. SocketCurrent' /\ SocketWatched'
    BY <1>3, <1>7 DEF StopClientJoin, SocketCurrent, SocketWatched, TearingDown
  <2> QED
    BY <1>2, <1>7, <2>1 DEF StopClientJoin, TearingDown
<1>8. CASE StartConnectThread
  <2>1. /\ ctl = "spawn" /\ ctl' = "wait"
        /\ UNCHANGED <<cq, connectingThreadId, missed, fd, conn, attempts, msg, lq, pkt, reads>>
    BY <1>8 DEF StartConnectThread
  <2>2. PICK t \in ConnectThread : ct' = [ct EXCEPT ![t] = "start"]
    BY <1>8 DEF StartConnectThread
  <2>3. \A u \in ConnectThread : ct'[u] = IF u = t THEN "start" ELSE "none"
    BY <1>3, <2>1, <2>2 DEF TypeOK, TearingDown
  <2>4. attempts # 0
    BY <2>1 DEF NothingYet
  <2>5. NothingYet' /\ ConnectorAlone'
    BY <2>1, <2>3, <2>4 DEF NothingYet, ConnectorAlone, Busy, TearingDown
  <2>6. SocketCurrent' /\ SocketWatched'
    BY <2>1, <2>3 DEF SocketCurrent, SocketWatched
  <2> QED
    BY <2>5, <2>6 DEF LinkParts
<1>9. CASE PauseEnds
  <2>1. NothingYet' /\ ConnectorAlone'
    BY <1>9 DEF PauseEnds, NothingYet, ConnectorAlone, TearingDown
  <2>2. SocketCurrent' /\ SocketWatched'
    BY <1>9 DEF PauseEnds, SocketCurrent, SocketWatched, Told
  <2> QED
    BY <2>1, <2>2 DEF LinkParts
<1> QED
  BY <1>1, <1>4, <1>5, <1>6, <1>7, <1>8, <1>9 DEF Controller

\* A connect thread is the only one; it opens a socket only when the client has none.
LEMMA ConnectorKeeps ==
    ASSUME LinkInv, NEW t \in ConnectThread, Connector(t)
    PROVE  LinkParts'
<1> USE DEF LinkInv, clientVars, elyVars
<1>1. /\ ct[t] # "none"
      /\ UNCHANGED <<cq, ctl, missed, lq, reads, ely>>
      /\ \E to \in {"none", "register", "try", "open", "opening", "bind", "finish"} :
             ct' = [ct EXCEPT ![t] = to]
  BY DEF Connector, Moves, ChecksId, Registers, Tries, CreatesSocket, ConnectFails, Connects,
         SendsBind, BindFails, Finishes
<1>2. /\ ctl \notin TearingDown
      /\ \A u \in ConnectThread \ {t} : ct[u] = "none" /\ ct'[u] = "none"
  BY <1>1 DEF ConnectorAlone, TypeOK
<1>3. ctl \notin {"join", "spawn"}
  BY <1>2 DEF TearingDown
<1>4. ASSUME \/ ct'[t] \in Busy /\ connectingThreadId' = t
             \/ ct'[t] = "register" /\ ct[t] \in {"start", "register"} /\ UNCHANGED attempts
             \/ ct'[t] = "none"
      PROVE  ConnectorAlone'
  BY <1>1, <1>2, <1>4 DEF ConnectorAlone, Busy
<1>5. ASSUME UNCHANGED <<fd, conn, attempts, msg, pkt>>,
             ct'[t] = "open" => fd = 0, ct'[t] # "opening"
      PROVE  NothingYet' /\ SocketCurrent' /\ SocketWatched'
  <2>1. NothingYet' /\ SocketWatched'
    BY <1>1, <1>5 DEF NothingYet, SocketWatched, Told
  <2> QED
    BY <1>1, <1>2, <1>3, <1>5, <2>1 DEF SocketCurrent
<1>6. CASE ChecksId(t)
  BY <1>4, <1>5, <1>6 DEF ChecksId, Moves, TypeOK, LinkParts
<1>7. CASE Registers(t)
  BY <1>4, <1>5, <1>7 DEF Registers, Moves, TypeOK, LinkParts, Busy
<1>8. ct[t] \in Busy => connectingThreadId = t
  BY DEF ConnectorAlone
<1>9. CASE Tries(t)
  BY <1>4, <1>5, <1>8, <1>9 DEF Tries, Moves, TypeOK, LinkParts, Busy
<1>10. CASE SendsBind(t)
  BY <1>4, <1>5, <1>8, <1>10 DEF SendsBind, Moves, TypeOK, LinkParts, Busy
<1>11. CASE BindFails(t)
  BY <1>4, <1>5, <1>8, <1>11 DEF BindFails, Moves, TypeOK, LinkParts, Busy
<1>12. CASE Finishes(t)
  BY <1>4, <1>5, <1>12 DEF Finishes, Moves, TypeOK, LinkParts
<1>13. CASE CreatesSocket(t)
  <2>1. /\ ct[t] = "open" /\ ct'[t] = "opening" /\ UNCHANGED connectingThreadId
        /\ attempts < MaxConn /\ attempts' = attempts + 1 /\ fd' = attempts + 1
        /\ conn' = [conn EXCEPT ![attempts + 1].ours = TRUE]
        /\ UNCHANGED <<msg, pkt>>
    BY <1>13 DEF CreatesSocket, Moves, TypeOK
  <2>2. ConnectorAlone'
    BY <1>4, <1>8, <2>1 DEF Busy
  <2>3. /\ attempts \in 0..MaxConn /\ attempts + 1 \in Attempt /\ attempts' > attempts
        /\ attempts' # 0
    BY <2>1, LinkConstantsOK DEF TypeOK, Attempt
  <2>4. fd = 0 /\ \A k \in Attempt : ~conn[k].ours
    BY <2>1, <2>3, LinkConstantsOK DEF SocketCurrent, Attempt
  <2>5. \A k \in Attempt : /\ conn'[k].peer = conn[k].peer
                           /\ conn'[k].ours <=> k = attempts + 1
    BY <2>1, <2>3, <2>4 DEF TypeOK
  <2>6. conn[attempts + 1].peer = "none" /\ pkt[attempts + 1] = "none"
    BY <2>1, <2>3 DEF SocketCurrent
  <2>7. SocketCurrent'
    <3>1. \A k \in Attempt : k > attempts' => conn'[k].peer = "none" /\ pkt'[k] = "none"
      <4> SUFFICES ASSUME NEW k \in Attempt, k > attempts'
                   PROVE  conn'[k].peer = "none" /\ pkt'[k] = "none"
        OBVIOUS
      <4>1. k > attempts
        BY <2>1, <2>3 DEF Attempt
      <4> QED
        BY <2>1, <2>5, <4>1 DEF SocketCurrent
    <3> QED
      BY <1>1, <1>2, <1>3, <2>1, <2>3, <2>5, <2>6, <3>1 DEF SocketCurrent
  <2>8. NothingYet' /\ SocketWatched'
    BY <2>1, <2>3, <2>5, <2>6 DEF NothingYet, SocketWatched
  <2> QED
    BY <2>2, <2>7, <2>8 DEF LinkParts
<1>14. CASE ConnectFails(t)
  <2>1. /\ ct[t] = "opening" /\ ct'[t] = "try" /\ fd' = 0
        /\ UNCHANGED <<connectingThreadId, attempts, msg, pkt>>
    BY <1>14 DEF ConnectFails, Moves, TypeOK
  <2>2. \A k \in Attempt : conn'[k].peer = conn[k].peer /\ (conn'[k].ours <=> conn[k].ours /\ k # fd)
    BY <1>14, ClosesType DEF ConnectFails
  <2>3. ConnectorAlone'
    BY <1>4, <1>8, <2>1 DEF Busy
  <2>4. \A k \in Attempt : ~conn'[k].ours
    BY <2>2 DEF SocketCurrent
  <2>5. SocketCurrent'
    BY <1>1, <1>2, <2>1, <2>2, <2>4 DEF SocketCurrent
  <2>6. NothingYet' /\ SocketWatched'
    BY <1>1, <2>1 DEF NothingYet, SocketWatched
  <2> QED
    BY <2>3, <2>5, <2>6 DEF LinkParts
<1>15. CASE Connects(t)
  <2>1. /\ ct[t] = "opening" /\ ct'[t] = "bind"
        /\ conn' = [conn EXCEPT ![attempts].peer = "up"]
        /\ msg' = [msg EXCEPT ![attempts] = "new"]
        /\ pkt' = [pkt EXCEPT ![attempts] = "new"]
        /\ UNCHANGED <<connectingThreadId, fd, attempts>>
    BY <1>15 DEF Connects, Moves, TypeOK
  <2>2. fd = attempts /\ fd # 0 /\ attempts \in Attempt
    BY <2>1, LinkConstantsOK DEF SocketCurrent, TypeOK, Attempt
  <2>3. ConnectorAlone'
    BY <1>4, <1>8, <2>1 DEF Busy
  <2>4. \A k \in Attempt : /\ conn'[k].ours <=> conn[k].ours
                           /\ k # attempts => conn'[k].peer = conn[k].peer /\ pkt'[k] = pkt[k]
    BY <2>1 DEF TypeOK
  <2>5. \A k \in Attempt : k > attempts => k # attempts
    BY DEF TypeOK, Attempt
  <2>6. SocketCurrent'
    BY <1>1, <1>2, <1>3, <2>1, <2>2, <2>4, <2>5 DEF SocketCurrent
  <2>7. NothingYet' /\ SocketWatched'
    BY <2>1, <2>2 DEF NothingYet, SocketWatched, TypeOK
  <2> QED
    BY <2>3, <2>6, <2>7 DEF LinkParts
<1> QED
  BY <1>6, <1>7, <1>9, <1>10, <1>11, <1>12, <1>13, <1>14, <1>15 DEF Connector

\* A receive thread that takes a message tells of the end of the current socket only
\* if it reads another one.
LEMMA ReceivesOnWatched ==
    ASSUME LinkInv, NEW k \in Attempt, pkt[k] = "run", ReceivesOn(k),
           UNCHANGED <<cq, ctl, missed, fd, conn, attempts, msg>>
    PROVE  SocketWatched'
<1> USE DEF LinkInv
<1> SUFFICES ASSUME fd # 0, conn[fd].peer # "none"
             PROVE  /\ msg[fd] \in {"new", "run"}
                    /\ \/ pkt'[fd] = "new"
                       \/ pkt'[fd] = "run" /\ reads'[fd] = fd
                       \/ pkt'[fd] = "ended" /\ Told'
  BY DEF SocketWatched
<1>1. fd \in Attempt /\ fd = attempts /\ conn[fd].ours /\ msg[fd] \in {"new", "run"}
  BY LinkConstantsOK DEF SocketCurrent, SocketWatched, TypeOK, Attempt
<1>2. CASE k = fd /\ reads[k] = fd
  BY <1>1, <1>2 DEF ReceivesOn, SocketWatched, Told
<1>3. CASE k = fd /\ reads[k] # fd
  BY <1>3 DEF SocketWatched
<1>4. CASE k # fd
  <2>1. pkt'[fd] = pkt[fd] /\ reads'[fd] = reads[fd]
    BY <1>1, <1>4 DEF ReceivesOn, SendsDisconnect, TypeOK
  <2>2. lq[fd] > 0 => lq'[fd] > 0
    BY <1>1 DEF ReceivesOn, SendsDisconnect, TypeOK
  <2> QED
    BY <1>1, <2>1, <2>2 DEF SocketWatched, Told
<1> QED
  BY <1>2, <1>3, <1>4

\* The threads of the client and its peer keep the watch over the current socket.
LEMMA ClientKeeps ==
    ASSUME LinkInv, NEW k \in Attempt,
           \/ ClientThread(k) \/ BindResponse(k) \/ LateMessage(k)
           \/ PeerChanges(k, "silent") \/ PeerChanges(k, "gone")
    PROVE  LinkParts'
<1> USE DEF LinkInv, controllerVars, elyVars
<1>1. UNCHANGED <<ctl, connectingThreadId, ct, missed, fd, attempts>>
  BY DEF ClientThread, MessageThreadStarts, Reports, ReceiveThreadStarts, RecvReturnsEnd,
         BindResponse, LateMessage, PeerChanges
<1>2. ConnectorAlone'
  BY <1>1 DEF ConnectorAlone
<1>3. \/ msg[k] # "none" \/ pkt[k] # "none"
      \/ conn[k].peer # "none"
  BY DEF ClientThread, MessageThreadStarts, Reports, ReceiveThreadStarts, RecvReturnsEnd,
         BindResponse, LateMessage, PeerChanges
<1>4. attempts # 0
  <2>1. attempts = 0 => k > attempts
    BY DEF Attempt
  <2> QED
    BY <1>3, <2>1 DEF NothingYet, SocketCurrent
<1>5. NothingYet'
  BY <1>1, <1>4 DEF NothingYet
<1>6. fd # 0 => fd \in Attempt /\ fd = attempts
  BY LinkConstantsOK DEF SocketCurrent, TypeOK, Attempt
<1>7. ASSUME UNCHANGED conn, pkt[k] # "none",
             \A j \in Attempt : j # k => pkt'[j] = pkt[j]
      PROVE  SocketCurrent'
  BY <1>1, <1>6, <1>7 DEF SocketCurrent
<1>8. CASE MessageThreadStarts(k)
  <2>1. /\ UNCHANGED <<cq, conn, lq, pkt, reads>>
        /\ msg[k] = "new" /\ msg' = [msg EXCEPT ![k] = "run"]
    BY <1>8 DEF MessageThreadStarts
  <2>2. SocketCurrent'
    BY <1>1, <2>1 DEF SocketCurrent
  <2>3. SocketWatched'
    BY <1>1, <1>6, <2>1 DEF SocketWatched, Told, TypeOK
  <2> QED
    BY <1>2, <1>5, <2>2, <2>3 DEF LinkParts
<1>9. CASE Reports(k)
  <2>1. UNCHANGED <<conn, msg, pkt, reads>> /\ cq' > 0
    BY <1>9 DEF Reports, TypeOK
  <2>2. SocketCurrent' /\ SocketWatched'
    BY <1>1, <2>1 DEF SocketCurrent, SocketWatched, Told
  <2> QED
    BY <1>2, <1>5, <2>2 DEF LinkParts
<1>10. CASE ReceiveThreadStarts(k)
  <2>1. /\ UNCHANGED <<cq, conn, msg, lq>>
        /\ pkt[k] = "new"
        /\ pkt' = [pkt EXCEPT ![k] = IF fd = 0 THEN "ended" ELSE "run"]
        /\ reads' = [reads EXCEPT ![k] = fd]
    BY <1>10 DEF ReceiveThreadStarts
  <2>2. SocketCurrent'
    BY <1>7, <2>1 DEF TypeOK
  <2>3. SocketWatched'
    BY <1>1, <1>6, <2>1 DEF SocketWatched, Told, TypeOK
  <2> QED
    BY <1>2, <1>5, <2>2, <2>3 DEF LinkParts
<1>11. CASE RecvReturnsEnd(k)
  <2>1. /\ UNCHANGED <<cq, conn, msg, reads>>
        /\ pkt[k] = "run"
        /\ pkt' = [pkt EXCEPT ![k] = "ended"]
        /\ lq' = [lq EXCEPT ![attempts] = @ + 1]
    BY <1>11 DEF RecvReturnsEnd, SendsDisconnect
  <2>2. SocketCurrent'
    BY <1>7, <2>1 DEF TypeOK
  <2>3. fd # 0 => lq'[fd] > 0
    BY <1>6, <2>1 DEF TypeOK
  <2>4. SocketWatched'
    BY <1>1, <1>6, <2>1, <2>3 DEF SocketWatched, Told, TypeOK
  <2> QED
    BY <1>2, <1>5, <2>2, <2>4 DEF LinkParts
<1>12. CASE BindResponse(k) \/ LateMessage(k)
  <2>1. /\ UNCHANGED <<cq, conn, msg>>
        /\ pkt[k] = "run" /\ ReceivesOn(k)
    BY <1>12 DEF BindResponse, LateMessage
  <2>2. SocketWatched'
    BY <1>1, <2>1, ReceivesOnWatched
  <2>3. SocketCurrent'
    BY <1>7, <2>1 DEF ReceivesOn, SendsDisconnect, TypeOK
  <2> QED
    BY <1>2, <1>5, <2>2, <2>3 DEF LinkParts
<1>13. ASSUME NEW how \in {"silent", "gone"}, PeerChanges(k, how)
       PROVE  LinkParts'
  <2>1. /\ UNCHANGED <<cq, msg, lq, pkt, reads>>
        /\ conn[k].peer # "none"
        /\ conn' = [conn EXCEPT ![k].peer = how]
    BY <1>13 DEF PeerChanges
  <2>2. \A j \in Attempt : /\ conn'[j].ours <=> conn[j].ours
                           /\ conn[j].peer = "none" <=> conn'[j].peer = "none"
    BY <2>1 DEF TypeOK
  <2>3. SocketCurrent'
    BY <1>1, <1>6, <2>1, <2>2 DEF SocketCurrent
  <2>4. SocketWatched'
    BY <1>1, <1>6, <2>1, <2>2 DEF SocketWatched, Told
  <2> QED
    BY <1>2, <1>5, <2>3, <2>4 DEF LinkParts
<1> QED
  BY <1>8, <1>9, <1>10, <1>11, <1>12, <1>13 DEF ClientThread

-----------------------------------------------------------------------------
(* The specification *)

\* The invariant holds before the first attempt.
LEMMA LinkInit == Init => LinkInv
<1> SUFFICES ASSUME Init
             PROVE  LinkInv
  OBVIOUS
<1>1. TypeOK
  BY TypeInit
<1>2. ReportsBounded
  <2>1. Openers = {} /\ Live = {}
    BY DEF Openers, Live, Init
  <2>2. /\ IsFiniteSet({})
        /\ Cardinality({}) = 0
    BY FS_EmptySet
  <2> QED
    BY <2>1, <2>2 DEF ReportsBounded, Init
<1>3. PICK s \in ConnectThread :
          ct = [t \in ConnectThread |-> IF t = s THEN "start" ELSE "none"]
  BY DEF Init
<1>4. NothingYet /\ ConnectorAlone
  BY <1>3 DEF Init, NothingYet, ConnectorAlone, Busy, TearingDown
<1>5. SocketCurrent /\ SocketWatched
  BY <1>3 DEF Init, SocketCurrent, SocketWatched
<1> QED
  BY <1>1, <1>2, <1>4, <1>5 DEF LinkInv

\* It is inductive if the pauses of the controller outlast the start of a thread.
LEMMA LinkStep ==
    ASSUME Prompt, LinkInv, [Next]_vars
    PROVE  LinkInv'
<1>1. LinkParts'
  <2>1. CASE UNCHANGED vars
    BY <2>1 DEF vars, LinkInv, LinkParts, NothingYet, ConnectorAlone, SocketCurrent,
                SocketWatched, Told
  <2>2. CASE Next
    BY <2>2, ElyKeeps, ControllerKeeps, ConnectorKeeps, ClientKeeps DEF Next, Environment
  <2> QED
    BY <2>1, <2>2
<1>2. TypeOK' /\ ReportsBounded'
  BY TypeStep DEF LinkInv
<1> QED
  BY <1>1, <1>2 DEF LinkInv, LinkParts

\* The link keeps its invariant.
THEOREM LinkInvariant ==
    ASSUME Prompt
    PROVE  Spec => []LinkInv
<1>1. LinkInv /\ [Next]_vars => LinkInv'
  BY LinkStep
<1> QED
  BY <1>1, LinkInit, PTL DEF Spec

\* Every variable keeps its type: in particular the SOCKET_DISCONNECT messages that
\* wait for one message thread are never more than the attempts.
THEOREM LinkTypeOK == Spec => []TypeOK
<1>1. Init => TypeOK /\ ReportsBounded
  BY LinkInit DEF LinkInv
<1>2. TypeOK /\ ReportsBounded /\ [Next]_vars => TypeOK' /\ ReportsBounded'
  BY TypeStep
<1> QED
  BY <1>1, <1>2, PTL DEF Spec

\* At most one connect thread exists at a time.
THEOREM OneConnectorHolds ==
    ASSUME Prompt
    PROVE  Spec => []OneConnector
<1>1. LinkInv => OneConnector
  <2> SUFFICES ASSUME LinkInv
               PROVE  Cardinality(Connecting) <= 1
    BY DEF OneConnector
  <2>1. \A t, u \in Connecting : t = u
    BY DEF LinkInv, ConnectorAlone, Connecting
  <2>2. CASE Connecting = {}
    BY <2>2, FS_EmptySet
  <2>3. CASE Connecting # {}
    <3>1. PICK t : Connecting = {t}
      BY <2>1, <2>3
    <3>2. Cardinality({t}) = 1
      BY FS_Singleton
    <3> QED
      BY <3>1, <3>2
  <2> QED
    BY <2>2, <2>3
<1> QED
  BY <1>1, LinkInvariant, PTL

\* No socket is left open that the client does not name: connectWithCallback never
\* overwrites the descriptor of an open socket.
THEOREM NoLostSocketHolds ==
    ASSUME Prompt
    PROVE  Spec => []NoLostSocket
<1>1. LinkInv => NoLostSocket
  BY DEF LinkInv, SocketCurrent, NoLostSocket
<1> QED
  BY <1>1, LinkInvariant, PTL

\* The end of a connection is noticed unless its report was ignored.
THEOREM EndIsNoticedHolds ==
    ASSUME Prompt
    PROVE  Spec => []EndIsNoticed
<1>1. LinkInv => EndIsNoticed
  <2> SUFFICES ASSUME LinkInv, ~missed, fd # 0, conn[fd].peer = "gone"
               PROVE  \/ \E k \in Attempt : pkt[k] = "new" \/ (pkt[k] = "run" /\ reads[k] = fd)
                      \/ \E k \in Attempt : lq[k] > 0 /\ msg[k] \in {"new", "run"}
                      \/ cq > 0
                      \/ ctl # "idle"
    BY DEF EndIsNoticed
  <2>1. fd \in Attempt
    BY LinkConstantsOK DEF LinkInv, TypeOK, Attempt
  <2>2. msg[fd] \in {"new", "run"}
    BY DEF LinkInv, SocketWatched
  <2>3. pkt[fd] = "new" \/ (pkt[fd] = "run" /\ reads[fd] = fd) \/ Told
    BY DEF LinkInv, SocketWatched
  <2> QED
    BY <2>1, <2>2, <2>3 DEF Told
<1> QED
  BY <1>1, LinkInvariant, PTL

=============================================================================
