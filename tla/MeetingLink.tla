---------------------------- MODULE MeetingLink ----------------------------
(***************************************************************************)
(* One of the two links of Controller-Meeting (to the meeting agent or to   *)
(* the AMX controller) and everything that keeps it up:                     *)
(*   - the controller thread (CController::onReceiveMessage), which tears   *)
(*     a broken link down and starts a connect thread;                      *)
(*   - connect threads (threadStartRoutine_CController_connectTo...);       *)
(*   - the client object (CATcpClient): per connection a message thread and *)
(*     a receive thread, which report the end of the connection;            *)
(*   - EnquireLinkYo, which reports a peer that has stopped answering.      *)
(* The two links run the same code on separate variables.                   *)
(*                                                                          *)
(* Closing a descriptor does not wake the thread that is blocked in recv on *)
(* it: the socket lives on until its peer closes it.                        *)
(***************************************************************************)
EXTENDS Naturals, FiniteSets

CONSTANTS
    ConnectThread, \* ids of connect threads
    ElyThread,     \* ids of enquire-link threads
    NoThread,      \* the thread id 0 of the code
    Prompt,        \* do the pauses of the controller outlast the start of a thread?
    QCap,          \* messages the controller's queue holds
    MaxConn,       \* bound: connection attempts in a behaviour
    MaxFail,       \* bound: attempts and bind requests that fail
    MaxBreak       \* bound: peers that close, or fall silent

ASSUME LinkConstantsOK ==
    /\ NoThread \notin ConnectThread \cup ElyThread
    /\ Prompt \in BOOLEAN
    /\ QCap \in Nat \ {0}
    /\ MaxConn \in Nat /\ MaxFail \in Nat /\ MaxBreak \in Nat

VARIABLES
    cq,        \* "disconnected" messages waiting for the controller
    ctl,       \* the controller thread
    connectingThreadId,
    ct,        \* connect threads
    fd,        \* m_nSocketFD of the client: an attempt, or 0 for -1
    conn,      \* what became of each attempt: our end and the peer's
    attempts,  \* CATCP_MSQ_EVENT_FILTER: the number of the last attempt
    munRunThreadId, \* message thread of the client, named by its attempt; 0 if none
    msg,       \* message threads, by attempt
    lq,        \* SOCKET_DISCONNECT messages by filter, that is by attempt
    pkt,       \* receive threads, by attempt
    reads,     \* the attempt whose socket a receive thread reads, 0 before it starts
    asked,     \* attempts whose bind request was sent and not answered
    isRunning, \* of the EnquireLinkYo object
    loopThreadId,
    ely,       \* enquire-link threads
    spent,     \* bounds: failures and breaks so far
    missed     \* history: a report was ignored because a thread was connecting

vars == <<cq, ctl, connectingThreadId, ct, fd, conn, attempts, munRunThreadId, msg, lq,
          pkt, reads, asked, isRunning, loopThreadId, ely, spent, missed>>
elyVars == <<isRunning, loopThreadId, ely>>
clientVars == <<fd, conn, attempts, munRunThreadId, msg, lq, pkt, reads, asked>>
controllerVars == <<cq, ctl, connectingThreadId, ct, missed>>

Attempt == 1..MaxConn

TypeOK ==
    /\ cq \in 0..QCap
    /\ ctl \in {"idle", "stopEly", "check", "close", "join", "spawn", "wait"}
    /\ connectingThreadId \in ConnectThread \cup {NoThread}
    /\ ct \in [ConnectThread -> {"none", "start", "register", "try", "open", "opening",
                                 "bind", "finish"}]
    /\ fd \in 0..MaxConn
    /\ conn \in [Attempt -> [ours : BOOLEAN, peer : {"none", "up", "silent", "gone"}]]
    /\ attempts \in 0..MaxConn
    /\ munRunThreadId \in 0..MaxConn
    /\ msg \in [Attempt -> {"none", "new", "run", "ended"}]
    /\ lq \in [Attempt -> 0..MaxConn]
    /\ pkt \in [Attempt -> {"none", "new", "run", "ended"}]
    /\ reads \in [Attempt -> 0..MaxConn]
    /\ asked \subseteq Attempt
    /\ isRunning \in BOOLEAN
    /\ loopThreadId \in ElyThread \cup {NoThread}
    /\ ely \in [ElyThread -> {"none", "new", "check", "mark", "valid", "loop", "told"}]
    /\ spent \in [fail : 0..MaxFail, break : 0..MaxBreak]
    /\ missed \in BOOLEAN

\* onInitial has started the first connect thread.
Init ==
    /\ cq = 0 /\ ctl = "idle" /\ missed = FALSE
    /\ connectingThreadId = NoThread
    /\ ct \in {[t \in ConnectThread |-> IF t = s THEN "start" ELSE "none"] : s \in ConnectThread}
    /\ fd = 0 /\ attempts = 0 /\ munRunThreadId = 0
    /\ conn = [k \in Attempt |-> [ours |-> FALSE, peer |-> "none"]]
    /\ msg = [k \in Attempt |-> "none"]
    /\ lq = [k \in Attempt |-> 0]
    /\ pkt = [k \in Attempt |-> "none"]
    /\ reads = [k \in Attempt |-> 0]
    /\ asked = {}
    /\ isRunning = FALSE /\ loopThreadId = NoThread
    /\ ely = [e \in ElyThread |-> "none"]
    /\ spent = [fail |-> 0, break |-> 0]

-----------------------------------------------------------------------------
(* The peer and the network *)

Fails == spent.fail < MaxFail /\ spent' = [spent EXCEPT !.fail = @ + 1]

\* The peer closes, or goes on without answering; a silent peer may still close.
PeerChanges(k, how) ==
    /\ conn[k].peer \in {"up", "silent"}
    /\ conn[k].peer # how
    /\ spent.break < MaxBreak
    /\ spent' = [spent EXCEPT !.break = @ + 1]
    /\ conn' = [conn EXCEPT ![k].peer = how]
    /\ UNCHANGED <<controllerVars, fd, attempts, munRunThreadId, msg, lq, pkt, reads, asked, elyVars>>

\* A request on the descriptor of the client is answered in time.
Answered == fd # 0 /\ conn[fd].peer = "up"

-----------------------------------------------------------------------------
(* EnquireLinkYo *)

\* stop(): does nothing unless a loop has set isRunning.
ElyStop ==
    /\ isRunning' = FALSE
    /\ loopThreadId' = IF isRunning THEN NoThread ELSE loopThreadId
    /\ ely' = [e \in ElyThread |->
                  IF isRunning /\ e = loopThreadId THEN "none" ELSE ely[e]]

\* start(): isRunning is set by the new thread, later.
ElyStart ==
    \/ isRunning /\ UNCHANGED elyVars
    \/ /\ ~isRunning
       /\ \E e \in ElyThread :
           /\ ely[e] = "none"
           /\ ely' = [ely EXCEPT ![e] = "new"]
       /\ UNCHANGED <<isRunning, loopThreadId>>

\* Mutant: the second message is queued with the first.
InformTwiceAtOnce(e) ==
    /\ cq < QCap
    /\ cq' = cq + 2
    /\ ely' = [ely EXCEPT ![e] = IF ely[e] = "loop" THEN "told" ELSE "none"]
    /\ UNCHANGED <<isRunning, loopThreadId>>

\* informEnquireLinkFailure sends the same message twice, a second apart.
Inform(e) ==
    /\ cq < QCap
    /\ cq' = cq + 1
    /\ ely' = [ely EXCEPT ![e] = IF ely[e] = "loop" THEN "told" ELSE "none"]
    /\ UNCHANGED <<isRunning, loopThreadId>>

ElyMoves(e, from, to) == ely[e] = from /\ ely' = [ely EXCEPT ![e] = to]

\* Mutant: a balance that has reached its maximum only ends the loop.
ElyRunForgetsToInform(e) ==
    \/ /\ ElyMoves(e, "new", "check")
       /\ loopThreadId' = e
       /\ UNCHANGED <<cq, isRunning>>
    \/ /\ ElyMoves(e, "check", IF isRunning THEN "none" ELSE "mark")
       /\ UNCHANGED <<cq, isRunning, loopThreadId>>
    \/ /\ ElyMoves(e, "mark", "valid")
       /\ isRunning' = TRUE
       /\ UNCHANGED <<cq, loopThreadId>>
    \/ /\ ElyMoves(e, "valid", IF fd = 0 THEN "none" ELSE "loop")
       /\ isRunning' = (isRunning /\ fd # 0)
       /\ UNCHANGED <<cq, loopThreadId>>
    \/ /\ ely[e] \in {"loop", "told"}
       /\ ~isRunning \/ ~Answered
       /\ ely' = [ely EXCEPT ![e] = "none"]
       /\ UNCHANGED <<cq, isRunning, loopThreadId>>

\* run(), with the start routine that sets loopThreadId.  A round whose request
\* is answered changes nothing that is modelled; a peer that does not answer is
\* reported when maxBalance requests are outstanding or one cannot be sent.
ElyRun(e) ==
    \/ /\ ElyMoves(e, "new", "check")
       /\ loopThreadId' = e
       /\ UNCHANGED <<cq, isRunning>>
    \/ /\ ElyMoves(e, "check", IF isRunning THEN "none" ELSE "mark")
       /\ UNCHANGED <<cq, isRunning, loopThreadId>>
    \/ /\ ElyMoves(e, "mark", "valid")
       /\ isRunning' = TRUE
       /\ UNCHANGED <<cq, loopThreadId>>
    \/ /\ ElyMoves(e, "valid", IF fd = 0 THEN "none" ELSE "loop")
       /\ isRunning' = (isRunning /\ fd # 0)
       /\ UNCHANGED <<cq, loopThreadId>>
    \/ /\ ely[e] \in {"loop", "told"}
       /\ ~isRunning
       /\ ely' = [ely EXCEPT ![e] = "none"]
       /\ UNCHANGED <<cq, isRunning, loopThreadId>>
    \/ /\ ely[e] = "loop" /\ isRunning /\ ~Answered
       /\ Inform(e)
    \/ /\ ely[e] = "told" /\ isRunning
       /\ Inform(e)

Ely(e) ==
    /\ ElyRun(e)
    /\ UNCHANGED <<ctl, connectingThreadId, ct, missed, clientVars, spent>>

-----------------------------------------------------------------------------
(* The controller thread *)

\* Mutant: the controller tears down even while a thread connects.
OnServerDisconnectAlways ==
    /\ ctl = "idle"
    /\ cq > 0
    /\ cq' = cq - 1
    /\ ctl' = "stopEly"
    /\ UNCHANGED <<missed, connectingThreadId, ct, clientVars, elyVars, spent>>

\* A report is ignored while a connect thread is registered.
OnServerDisconnect ==
    /\ ctl = "idle"
    /\ cq > 0
    /\ cq' = cq - 1
    /\ \/ /\ connectingThreadId # NoThread
          /\ missed' = TRUE
          /\ UNCHANGED ctl
       \/ /\ connectingThreadId = NoThread
          /\ ctl' = "stopEly"
          /\ UNCHANGED missed
    /\ UNCHANGED <<connectingThreadId, ct, clientVars, elyVars, spent>>

\* stopClient: the enquire link first, then the socket if the descriptor is valid.
StopClientEly ==
    /\ ctl = "stopEly"
    /\ ElyStop
    /\ ctl' = "check"
    /\ UNCHANGED <<cq, connectingThreadId, ct, missed, clientVars, spent>>

StopClientCheck ==
    /\ ctl = "check"
    /\ ctl' = IF fd = 0 THEN "spawn" ELSE "close"
    /\ UNCHANGED <<cq, connectingThreadId, ct, missed, clientVars, elyVars, spent>>

\* unbind request, socketClose
StopClientClose ==
    /\ ctl = "close"
    /\ fd' = 0
    /\ conn' = [k \in Attempt |-> IF k = fd THEN [conn[k] EXCEPT !.ours = FALSE] ELSE conn[k]]
    /\ ctl' = "join"
    /\ UNCHANGED <<cq, connectingThreadId, ct, missed, attempts, munRunThreadId, msg, lq, pkt,
                   reads, asked, elyVars, spent>>

\* The message thread is cancelled and joined if it has set its id; the receive
\* thread is left alone.
StopClientJoin ==
    /\ ctl = "join"
    /\ msg' = [k \in Attempt |-> IF k = munRunThreadId THEN "ended" ELSE msg[k]]
    /\ munRunThreadId' = 0
    /\ ctl' = "spawn"
    /\ UNCHANGED <<cq, connectingThreadId, ct, missed, fd, conn, attempts, lq, pkt, reads, asked,
                   elyVars, spent>>

StartConnectThread ==
    /\ ctl = "spawn"
    /\ \E t \in ConnectThread :
        /\ ct[t] = "none"
        /\ ct' = [ct EXCEPT ![t] = "start"]
    /\ ctl' = IF Prompt THEN "wait" ELSE "idle"
    /\ UNCHANGED <<cq, connectingThreadId, missed, clientVars, elyVars, spent>>

\* "wait thread to be created": the pause after the thread was created.
PauseEnds ==
    /\ ctl = "wait"
    /\ \A t \in ConnectThread : ct[t] \notin {"start", "register"}
    /\ ctl' = "idle"
    /\ UNCHANGED <<cq, connectingThreadId, ct, missed, clientVars, elyVars, spent>>

Controller ==
    \/ OnServerDisconnect
    \/ StopClientEly
    \/ StopClientCheck
    \/ StopClientClose
    \/ StopClientJoin
    \/ StartConnectThread
    \/ PauseEnds

-----------------------------------------------------------------------------
(* A connect thread *)

Moves(t, from, to) == ct[t] = from /\ ct' = [ct EXCEPT ![t] = to]

\* Another thread is registered: "failed on race, quit".
ChecksId(t) ==
    /\ Moves(t, "start", IF connectingThreadId = NoThread THEN "register" ELSE "none")
    /\ UNCHANGED <<cq, ctl, connectingThreadId, missed, clientVars, elyVars, spent>>

Registers(t) ==
    /\ Moves(t, "register", "try")
    /\ connectingThreadId' = t
    /\ UNCHANGED <<cq, ctl, missed, clientVars, elyVars, spent>>

\* Mutant: the client is started whatever its descriptor is.
TriesAgain(t) ==
    /\ Moves(t, "try", "open")
    /\ UNCHANGED <<cq, ctl, connectingThreadId, missed, clientVars, elyVars, spent>>

\* A valid descriptor: "assume already connected, quit".
Tries(t) ==
    /\ Moves(t, "try", IF fd # 0 THEN "finish" ELSE "open")
    /\ UNCHANGED <<cq, ctl, connectingThreadId, missed, clientVars, elyVars, spent>>

\* connectWithCallback up to createSocket: the descriptor is valid from now on.
\* The thread has slept for seconds: the threads of earlier attempts have started.
CreatesSocket(t) ==
    /\ Moves(t, "open", "opening")
    /\ \A k \in Attempt : msg[k] # "new" /\ pkt[k] # "new"
    /\ attempts < MaxConn
    /\ attempts' = attempts + 1
    /\ fd' = attempts + 1
    /\ conn' = [conn EXCEPT ![attempts + 1].ours = TRUE]
    /\ munRunThreadId' = 0
    /\ UNCHANGED <<cq, ctl, connectingThreadId, missed, msg, lq, pkt, reads, asked, elyVars, spent>>

\* Mutant: an attempt that fails ends the thread.
ConnectFailsGivesUp(t) ==
    /\ Moves(t, "opening", "finish")
    /\ Fails
    /\ conn' = [k \in Attempt |-> IF k = fd THEN [conn[k] EXCEPT !.ours = FALSE] ELSE conn[k]]
    /\ fd' = 0
    /\ UNCHANGED <<cq, ctl, connectingThreadId, missed, attempts, munRunThreadId, msg, lq, pkt,
                   reads, asked, elyVars>>

\* connectServer fails: the socket is closed, the thread sleeps and tries again.
ConnectFails(t) ==
    /\ Moves(t, "opening", "try")
    /\ Fails
    /\ conn' = [k \in Attempt |-> IF k = fd THEN [conn[k] EXCEPT !.ours = FALSE] ELSE conn[k]]
    /\ fd' = 0
    /\ UNCHANGED <<cq, ctl, connectingThreadId, missed, attempts, munRunThreadId, msg, lq, pkt,
                   reads, asked, elyVars>>

\* Connected: the message thread and the receive thread are created.
Connects(t) ==
    /\ Moves(t, "opening", "bind")
    /\ conn' = [conn EXCEPT ![attempts].peer = "up"]
    /\ msg' = [msg EXCEPT ![attempts] = "new"]
    /\ pkt' = [pkt EXCEPT ![attempts] = "new"]
    /\ UNCHANGED <<cq, ctl, connectingThreadId, missed, fd, attempts, munRunThreadId, lq, reads, asked,
                   elyVars, spent>>

SendsBind(t) ==
    /\ Moves(t, "bind", "finish")
    /\ asked' = asked \cup ({fd} \ {0})
    /\ UNCHANGED <<cq, ctl, connectingThreadId, missed, fd, conn, attempts, munRunThreadId, msg,
                   lq, pkt, reads, elyVars, spent>>

\* The bind request cannot be sent: startClient fails, the socket stays open.
BindFails(t) ==
    /\ Moves(t, "bind", "try")
    /\ ~Answered
    /\ Fails
    /\ UNCHANGED <<cq, ctl, connectingThreadId, missed, clientVars, elyVars>>

Finishes(t) ==
    /\ Moves(t, "finish", "none")
    /\ connectingThreadId' = NoThread
    /\ UNCHANGED <<cq, ctl, missed, clientVars, elyVars, spent>>

Connector(t) ==
    \/ ChecksId(t) \/ Registers(t) \/ Tries(t) \/ CreatesSocket(t) \/ ConnectFails(t)
    \/ Connects(t) \/ SendsBind(t) \/ BindFails(t) \/ Finishes(t)

-----------------------------------------------------------------------------
(* The threads of the client, by attempt *)

\* The message thread sets munRunThreadId, and later reports to the controller.
MessageThreadStarts(k) ==
    /\ msg[k] = "new"
    /\ msg' = [msg EXCEPT ![k] = "run"]
    /\ munRunThreadId' = k
    /\ UNCHANGED <<controllerVars, fd, conn, attempts, lq, pkt, reads, asked, elyVars, spent>>

\* onServerDisconnect
Reports(k) ==
    /\ msg[k] = "run"
    /\ lq[k] > 0
    /\ cq < QCap
    /\ lq' = [lq EXCEPT ![k] = @ - 1]
    /\ cq' = cq + 1
    /\ UNCHANGED <<ctl, connectingThreadId, ct, missed, fd, conn, attempts, munRunThreadId, msg,
                   pkt, reads, asked, elyVars, spent>>

\* runTcpReceive reads the descriptor once, when it starts.
ReceiveThreadStarts(k) ==
    /\ pkt[k] = "new"
    /\ pkt' = [pkt EXCEPT ![k] = IF fd = 0 THEN "ended" ELSE "run"]
    /\ reads' = [reads EXCEPT ![k] = fd]
    /\ UNCHANGED <<controllerVars, fd, conn, attempts, munRunThreadId, msg, lq, asked, elyVars,
                   spent>>

\* The receive thread ends with a SOCKET_DISCONNECT to the filter of the client,
\* as it is now.
SendsDisconnect(k) ==
    /\ pkt' = [pkt EXCEPT ![k] = "ended"]
    /\ lq' = [lq EXCEPT ![attempts] = @ + 1]

\* Mutant: the receive thread ends without a message.
RecvReturnsEndSilently(k) ==
    /\ pkt[k] = "run"
    /\ conn[reads[k]].peer = "gone"
    /\ pkt' = [pkt EXCEPT ![k] = "ended"]
    /\ UNCHANGED <<controllerVars, fd, conn, attempts, munRunThreadId, msg, lq, reads, asked,
                   elyVars, spent>>

\* recv returns 0.
RecvReturnsEnd(k) ==
    /\ pkt[k] = "run"
    /\ conn[reads[k]].peer = "gone"
    /\ SendsDisconnect(k)
    /\ UNCHANGED <<controllerVars, fd, conn, attempts, munRunThreadId, msg, reads, asked, elyVars,
                   spent>>

\* The next recv names the descriptor again.  One that was closed meanwhile is an
\* error, or the number of the new socket.
ReceivesOn(k) ==
    \/ /\ conn[reads[k]].ours
       /\ UNCHANGED <<pkt, lq, reads>>
    \/ /\ ~conn[reads[k]].ours
       /\ SendsDisconnect(k)
       /\ UNCHANGED reads
    \/ /\ ~conn[reads[k]].ours /\ fd # 0
       /\ reads' = [reads EXCEPT ![k] = fd]
       /\ UNCHANGED <<pkt, lq>>

\* onResponse: bind_response starts the enquire link, in the receive thread.
BindResponse(k) ==
    /\ pkt[k] = "run"
    /\ reads[k] \in asked
    /\ conn[reads[k]].peer = "up"
    /\ asked' = asked \ {reads[k]}
    /\ ElyStart
    /\ ReceivesOn(k)
    /\ UNCHANGED <<controllerVars, fd, conn, attempts, munRunThreadId, msg, spent>>

\* A message that changes nothing here wakes the thread of a closed descriptor.
LateMessage(k) ==
    /\ pkt[k] = "run"
    /\ ~conn[reads[k]].ours
    /\ conn[reads[k]].peer = "up"
    /\ ReceivesOn(k)
    /\ UNCHANGED <<controllerVars, fd, conn, attempts, munRunThreadId, msg, asked, elyVars, spent>>

ClientThread(k) ==
    \/ MessageThreadStarts(k) \/ Reports(k) \/ ReceiveThreadStarts(k) \/ RecvReturnsEnd(k)

Environment ==
    \/ \E k \in Attempt : PeerChanges(k, "silent") \/ PeerChanges(k, "gone")
    \/ \E k \in Attempt : BindResponse(k) \/ LateMessage(k)

Next ==
    \/ Environment
    \/ Controller
    \/ \E t \in ConnectThread : Connector(t)
    \/ \E e \in ElyThread : Ely(e)
    \/ \E k \in Attempt : ClientThread(k)

Spec == Init /\ [][Next]_vars

\* Every thread of the process keeps running.
Fairness ==
    /\ WF_vars(Controller)
    /\ \A t \in ConnectThread : WF_vars(Connector(t))
    /\ \A e \in ElyThread : WF_vars(Ely(e))
    /\ \A k \in Attempt : WF_vars(ClientThread(k))

FairSpec == Spec /\ Fairness

-----------------------------------------------------------------------------
(* Properties *)

Connecting == {t \in ConnectThread : ct[t] # "none"}

\* A peer that has closed is noticed: somebody still has to report it, the report
\* is on its way, or the link is being rebuilt.  The only way to lose it is the
\* report that comes while a connect thread is registered.
EndIsNoticed ==
    ~missed /\ fd # 0 /\ conn[fd].peer = "gone" =>
        \/ \E k \in Attempt : pkt[k] = "new" \/ (pkt[k] = "run" /\ reads[k] = fd)
        \/ \E k \in Attempt : lq[k] > 0 /\ msg[k] \in {"new", "run"}
        \/ cq > 0
        \/ ctl # "idle"
        \/ Connecting # {}

\* At most one thread connects at a time, from its creation on, if the pauses of the
\* controller outlast the start of a thread.
OneConnector == Cardinality(Connecting) <= 1

\* A thread that loses the race to register quits: at most one is registered.
OneRegistered == Cardinality({t \in Connecting : ct[t] \notin {"start", "register"}}) <= 1

\* No socket is lost: an open one is the client's current one.
NoLostSocket == \A k \in Attempt : conn[k].ours => k = fd

\* A link that was torn down is built again, unless the bound on attempts stops it.
LinkIsRebuilt == fd = 0 ~> (fd # 0 /\ Connecting = {}) \/ attempts = MaxConn

Unanswered == fd # 0 /\ conn[fd].peer = "silent" /\ isRunning /\ \E e \in ElyThread : ely[e] = "loop"

\* A peer that falls silent while the enquire link runs is torn down, unless a
\* report came while a connect thread was registered.
SilenceIsNoticed == Unanswered ~> (fd = 0 \/ conn[fd].peer # "silent" \/ missed)

=============================================================================
