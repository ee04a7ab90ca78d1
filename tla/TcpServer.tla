----------------------------- MODULE TcpServer -----------------------------
(***************************************************************************)
(* CATcpServer (Global/socketHandler/CATcpServer.cpp): the TCP server that  *)
(* every controller process of the platform is built on.                    *)
(*                                                                          *)
(* Four kinds of threads share the map mapClient and one message queue:     *)
(*   - the accept thread           (runSocketAccept),                       *)
(*   - the message thread          (runMessageReceive / onReceiveMessage),  *)
(*   - one receive thread per client (runTcpReceive),                       *)
(*   - any thread of the controller that calls closeClient, and the timer   *)
(*     thread that posts the idle timer.                                    *)
(*                                                                          *)
(* A message names a client by its descriptor number and a thread by its    *)
(* pthread id.  The kernel reuses both, so a message can outlive what it    *)
(* was sent about.  The fields "conn" and "own" and the variable "clean"    *)
(* are history: no step of the program reads them.                          *)
(***************************************************************************)
EXTENDS Naturals, Sequences, FiniteSets

CONSTANTS
    Fd,         \* descriptors the kernel can hand to accept (0 = "none" in the code)
    Thread,     \* pthread ids the library can hand to a receive thread
    NoThread,   \* the thread id 0 of the code: no thread
    MaxClient,  \* MAX_CLIENT
    QCap,       \* messages the System V queue holds before msgsnd blocks
    MaxConn,    \* bound: connections accepted in a behaviour
    MaxGone,    \* bound: peers that close
    MaxData,    \* bound: reads that return data in a behaviour
    MaxTick,    \* bound: expirations of the idle timer (0: runIdleTimeout(false))
    MaxClose    \* bound: calls of closeClient by the controller

ASSUME ConstantsOK ==
    /\ Fd \subseteq Nat \ {0}
    /\ IsFiniteSet(Fd)
    /\ IsFiniteSet(Thread)
    /\ NoThread \notin Thread
    /\ Thread \cap Nat = {}
    /\ MaxClient \in Nat
    /\ QCap \in Nat \ {0}
    /\ MaxConn \in Nat
    /\ MaxGone \in Nat
    /\ MaxData \in Nat
    /\ MaxTick \in Nat
    /\ MaxClose \in Nat

VARIABLES
    queue,      \* the message queue of the server, one filter, first in first out
    client,     \* mapClient: descriptor -> entry, or Absent
    open,       \* kernel: descriptor -> the connection it refers to, 0 when closed
    th,         \* receive threads, by pthread id
    at,         \* the accept thread
    mt,         \* the message thread
    app,        \* a controller thread inside closeClient
    gone,       \* connections whose peer has closed
    used,       \* bounds: what has been spent of MaxConn, MaxData, MaxTick, MaxClose
    clean       \* history: no message has yet struck something it was not sent about

vars == <<queue, client, open, th, at, mt, app, gone, used, clean>>

Conn == 1..MaxConn

Entry == [thread : Thread \cup {NoThread}, idle : BOOLEAN, conn : Conn]

Absent == [thread |-> NoThread, idle |-> FALSE, conn |-> 0]

Command == {"accept", "connect", "disconnect", "close", "exit", "receive",
            "alive", "timer"}

Message == [cmd : Command \ {"exit", "timer"}, id : Fd, conn : Conn]
    \cup [cmd : {"exit"}, id : Thread, conn : Conn]
    \cup [cmd : {"timer"}, id : {0}, conn : {0}]

ThreadPc == {"free", "start", "connect", "loop", "blocked", "receive", "alive",
             "disconnect", "exit", "cancelled", "exited"}

\* Past the search for its own descriptor.
Serving == {"connect", "loop", "blocked", "receive", "alive", "disconnect"}

ThreadState == [pc : ThreadPc, fd : Fd \cup {0}, own : Conn \cup {0}, reads : Conn \cup {0}]

Free == [pc |-> "free", fd |-> 0, own |-> 0, reads |-> 0]

MsgThreadState ==
    [pc : {"wait", "store", "join", "scan"}, thread : Thread \cup {NoThread},
     fd : Fd \cup {0}, conn : Conn \cup {0}, todo : SUBSET Fd]

Waiting == [pc |-> "wait", thread |-> NoThread, fd |-> 0, conn |-> 0, todo |-> {}]

Mapped == {fd \in Fd : client[fd] # Absent}

Spent == [conn : 0..MaxConn, data : Nat, tick : Nat, close : Nat]

ThreadsOK ==
    /\ th \in [Thread -> ThreadState]
    /\ \A t \in Thread : th[t].pc \in Serving => th[t].fd \in Fd
    /\ \A t \in Thread : th[t].pc # "free" => th[t].own \in Conn

AcceptThreadOK ==
    /\ at \in [pc : {"accept", "check", "send"}, fd : Fd \cup {0}, conn : Conn \cup {0}]
    /\ at.pc # "accept" => at.fd \in Fd /\ at.conn \in Conn

MessageThreadOK ==
    /\ mt \in MsgThreadState
    /\ mt.pc = "store" => mt.fd \in Fd /\ mt.conn \in Conn
    /\ mt.pc = "join" => mt.thread \in Thread
    /\ mt.pc = "scan" => mt.todo \subseteq Mapped

AppOK ==
    /\ app \in [pc : {"idle", "send"}, fd : Fd \cup {0}, conn : Conn \cup {0}]
    /\ app.pc = "send" => app.fd \in Fd /\ app.conn \in Conn

\* What a thread carries from one step to the next is there when it is used.
TypeOK ==
    /\ queue \in Seq(Message)
    /\ client \in [Fd -> Entry \cup {Absent}]
    /\ open \in [Fd -> Conn \cup {0}]
    /\ ThreadsOK
    /\ AcceptThreadOK
    /\ MessageThreadOK
    /\ AppOK
    /\ gone \subseteq Conn
    /\ used \in Spent
    /\ clean \in BOOLEAN

Init ==
    /\ queue = <<>>
    /\ client = [fd \in Fd |-> Absent]
    /\ open = [fd \in Fd |-> 0]
    /\ th = [t \in Thread |-> Free]
    /\ at = [pc |-> "accept", fd |-> 0, conn |-> 0]
    /\ mt = Waiting
    /\ app = [pc |-> "idle", fd |-> 0, conn |-> 0]
    /\ gone = {}
    /\ used = [conn |-> 0, data |-> 0, tick |-> 0, close |-> 0]
    /\ clean = TRUE

-----------------------------------------------------------------------------
(* mapClient and the message queue *)

EntriesOf(t) == {fd \in Mapped : client[fd].thread = t}

\* getClientSocketFD(t) returns fd: the first entry in key order, 0 if none.
getClientSocketFD(t, fd) ==
    \/ EntriesOf(t) = {} /\ fd = 0
    \/ fd \in EntriesOf(t) /\ \A g \in EntriesOf(t) : fd <= g

Msg(cmd, id, conn) == [cmd |-> cmd, id |-> id, conn |-> conn]

\* msgsnd with flags 0: the sender waits while the queue is full.
sendMessage(cmd, id, conn) ==
    /\ Len(queue) < QCap
    /\ queue' = Append(queue, Msg(cmd, id, conn))

\* Mutant: the descriptor is closed and its key stays in the map.
eraseClientKeepsKey(fd) ==
    /\ open' = [open EXCEPT ![fd] = 0]
    /\ UNCHANGED client

\* close(fd), then the erase from the map if the key is there.
eraseClient(fd) ==
    /\ open' = [open EXCEPT ![fd] = 0]
    /\ client' = [client EXCEPT ![fd] = Absent]

\* History: a message about connection c strikes descriptor fd.
Strikes(fd, c) == open[fd] \in {0, c} /\ client[fd].conn \in {0, c}

-----------------------------------------------------------------------------
(* The network and the clock *)

\* The peer closes its end: recv returns 0 from now on.
PeerCloses(c) ==
    /\ c <= used.conn
    /\ c \notin gone
    /\ Cardinality(gone) < MaxGone
    /\ gone' = gone \cup {c}
    /\ UNCHANGED <<queue, client, open, th, at, mt, app, used, clean>>

\* More than IDLE_TIMEOUT seconds have passed since ulAliveTime.
GrowsIdle(fd) ==
    /\ used.tick < MaxTick
    /\ fd \in Mapped
    /\ ~client[fd].idle
    /\ client' = [client EXCEPT ![fd].idle = TRUE]
    /\ UNCHANGED <<queue, open, th, at, mt, app, gone, used, clean>>

\* The timer thread posts EVENT_COMMAND_TIMER for IDLE_TIMER.
IdleTimerExpires ==
    /\ used.tick < MaxTick
    /\ used' = [used EXCEPT !.tick = @ + 1]
    /\ sendMessage("timer", 0, 0)
    /\ UNCHANGED <<client, open, th, at, mt, app, gone, clean>>

-----------------------------------------------------------------------------
(* runSocketAccept *)

\* Mutant: a failed accept is handled like a client.
socketAcceptUnchecked(fd) ==
    /\ at.pc = "accept"
    /\ used.conn < MaxConn
    /\ open[fd] = 0
    /\ used' = [used EXCEPT !.conn = @ + 1]
    /\ at' = [pc |-> "check", fd |-> 0, conn |-> used.conn + 1]
    /\ UNCHANGED <<queue, client, open, th, mt, app, gone, clean>>

\* accept returns: any descriptor that is not open.
socketAccept(fd) ==
    /\ at.pc = "accept"
    /\ used.conn < MaxConn
    /\ open[fd] = 0
    /\ used' = [used EXCEPT !.conn = @ + 1]
    /\ open' = [open EXCEPT ![fd] = used.conn + 1]
    /\ at' = [pc |-> "check", fd |-> fd, conn |-> used.conn + 1]
    /\ UNCHANGED <<queue, client, th, mt, app, gone, clean>>

Full == MaxClient < Cardinality(Mapped) + 1

\* The limit is compared with the map as it is now; accepted clients whose
\* message is still queued are not in it.
CheckLimit ==
    /\ at.pc = "check"
    /\ \/ /\ Full
          /\ open' = [open EXCEPT ![at.fd] = 0]
          /\ at' = [pc |-> "accept", fd |-> 0, conn |-> 0]
       \/ /\ ~Full
          /\ at' = [at EXCEPT !.pc = "send"]
          /\ UNCHANGED open
    /\ UNCHANGED <<queue, client, th, mt, app, gone, used, clean>>

SendAccept ==
    /\ at.pc = "send"
    /\ sendMessage("accept", at.fd, at.conn)
    /\ at' = [pc |-> "accept", fd |-> 0, conn |-> 0]
    /\ UNCHANGED <<client, open, th, mt, app, gone, used, clean>>

AcceptThread == CheckLimit \/ SendAccept

-----------------------------------------------------------------------------
(* runTcpReceive, thread t *)

\* The new thread searches the map for its own id.  The message thread writes
\* the id only after pthread_create has returned, so the search can fail.
LooksUpSelf(t) ==
    /\ th[t].pc = "start"
    /\ \E fd \in Fd \cup {0} :
        /\ getClientSocketFD(t, fd)
        /\ th' = [th EXCEPT ![t].pc = IF fd = 0 THEN "exit" ELSE "connect",
                            ![t].fd = fd]
    /\ UNCHANGED <<queue, client, open, at, mt, app, gone, used, clean>>

\* One message of the receive thread: sent from state "from", then state "to".
ThreadSends(t, from, id, to) ==
    /\ th[t].pc = from
    /\ sendMessage(from, id, th[t].own)
    /\ th' = [th EXCEPT ![t].pc = to]
    /\ UNCHANGED <<client, open, at, mt, app, gone, used, clean>>

SendConnect(t)    == ThreadSends(t, "connect", th[t].fd, "loop")
SendReceive(t)    == ThreadSends(t, "receive", th[t].fd, "alive")
SendAlive(t)      == ThreadSends(t, "alive", th[t].fd, "loop")
SendDisconnect(t) == ThreadSends(t, "disconnect", th[t].fd, "exited")
SendThreadExit(t) == ThreadSends(t, "exit", t, "exited")

\* recv is called: on whatever the descriptor refers to now (EBADF when closed).
EntersRecv(t) ==
    /\ th[t].pc = "loop"
    /\ th' = [th EXCEPT ![t].pc = IF open[th[t].fd] = 0 THEN "disconnect" ELSE "blocked",
                        ![t].reads = open[th[t].fd]]
    /\ UNCHANGED <<queue, client, open, at, mt, app, gone, used, clean>>

RecvReturnsData(t) ==
    /\ th[t].pc = "blocked"
    /\ th[t].reads \notin gone
    /\ used.data < MaxData
    /\ used' = [used EXCEPT !.data = @ + 1]
    /\ th' = [th EXCEPT ![t].pc = "receive"]
    /\ UNCHANGED <<queue, client, open, at, mt, app, gone, clean>>

\* Mutant: the thread ends without its SOCKET_CLIENT_DISCONNECT message.
RecvReturnsEndSilently(t) ==
    /\ th[t].pc = "blocked"
    /\ th[t].reads \in gone
    /\ th' = [th EXCEPT ![t].pc = "exited"]
    /\ UNCHANGED <<queue, client, open, at, mt, app, gone, used, clean>>

RecvReturnsEnd(t) ==
    /\ th[t].pc = "blocked"
    /\ th[t].reads \in gone
    /\ th' = [th EXCEPT ![t].pc = "disconnect"]
    /\ UNCHANGED <<queue, client, open, at, mt, app, gone, used, clean>>

\* A deferred cancellation is acted on at recv or msgsnd, before their effect.
CancelPoint(t) ==
    /\ th[t].pc = "cancelled"
    /\ th' = [th EXCEPT ![t].pc = "exited"]
    /\ UNCHANGED <<queue, client, open, at, mt, app, gone, used, clean>>

ReceiveThread(t) ==
    \/ LooksUpSelf(t)
    \/ SendConnect(t)
    \/ SendReceive(t)
    \/ SendAlive(t)
    \/ SendDisconnect(t)
    \/ SendThreadExit(t)
    \/ EntersRecv(t)
    \/ RecvReturnsEnd(t)
    \/ CancelPoint(t)

-----------------------------------------------------------------------------
(* closeClient, called by a thread of the controller *)

\* The map is searched first and the message sent later, with no lock held.
CloseClientFinds(fd) ==
    /\ app.pc = "idle"
    /\ used.close < MaxClose
    /\ fd \in Mapped
    /\ used' = [used EXCEPT !.close = @ + 1]
    /\ app' = [pc |-> "send", fd |-> fd, conn |-> client[fd].conn]
    /\ UNCHANGED <<queue, client, open, th, at, mt, gone, clean>>

CloseClientSends ==
    /\ app.pc = "send"
    /\ sendMessage("close", app.fd, app.conn)
    /\ app' = [pc |-> "idle", fd |-> 0, conn |-> 0]
    /\ UNCHANGED <<client, open, th, at, mt, gone, used, clean>>

-----------------------------------------------------------------------------
(* onReceiveMessage, run by the message thread.  Joining a thread blocks it. *)

Takes(cmd) ==
    /\ mt.pc = "wait"
    /\ queue # <<>>
    /\ Head(queue).cmd = cmd
    /\ queue' = Tail(queue)

\* mapClient[nId].ulReceiveThreadID = createThread(...): the operands may be
\* evaluated in either order, so the entry appears before the new thread or
\* with the store of its id.
OnAccept(t) ==
    /\ Takes("accept")
    /\ th[t].pc = "free"
    /\ LET m == Head(queue) IN
       /\ th' = [th EXCEPT ![t] = [Free EXCEPT !.pc = "start", !.own = m.conn]]
       /\ mt' = [Waiting EXCEPT !.pc = "store", !.thread = t, !.fd = m.id, !.conn = m.conn]
       /\ \/ UNCHANGED client
          \/ /\ client[m.id] = Absent
             /\ client' = [client EXCEPT
                    ![m.id] = [thread |-> NoThread, idle |-> TRUE, conn |-> m.conn]]
    /\ UNCHANGED <<open, at, app, gone, used, clean>>

StoreThread ==
    /\ mt.pc = "store"
    /\ mt.thread # NoThread
    /\ client' = [client EXCEPT
           ![mt.fd] = [thread |-> mt.thread, idle |-> FALSE, conn |-> mt.conn]]
    /\ mt' = Waiting
    /\ UNCHANGED <<queue, open, th, at, app, gone, used, clean>>

\* pthread_create fails: thread id 0 is stored all the same ...
OnAcceptNoThread ==
    /\ Takes("accept")
    /\ LET m == Head(queue) IN
       /\ client' = [client EXCEPT
              ![m.id] = [thread |-> NoThread, idle |-> FALSE, conn |-> m.conn]]
       /\ mt' = [Waiting EXCEPT !.pc = "store", !.fd = m.id, !.conn = m.conn]
    /\ UNCHANGED <<open, th, at, app, gone, used, clean>>

\* Mutant: the key of a client without a thread is erased, its descriptor not closed.
ErasesNoThreadKeepsOpen ==
    /\ mt.pc = "store"
    /\ mt.thread = NoThread
    /\ client' = [client EXCEPT ![mt.fd] = Absent]
    /\ mt' = Waiting
    /\ UNCHANGED <<queue, open, th, at, app, gone, used, clean>>

\* ... and found to be no thread: the client is dropped.
ErasesNoThread ==
    /\ mt.pc = "store"
    /\ mt.thread = NoThread
    /\ eraseClient(mt.fd)
    /\ mt' = Waiting
    /\ UNCHANGED <<queue, th, at, app, gone, used, clean>>

updateClientAlive(fd) ==
    client' = IF fd \in Mapped THEN [client EXCEPT ![fd].idle = FALSE] ELSE client

OnConnectOrAlive ==
    /\ Takes("connect") \/ Takes("alive")
    /\ updateClientAlive(Head(queue).id)
    /\ UNCHANGED <<open, th, at, mt, app, gone, used, clean>>

\* onReceive is the business of the derived server.
OnServerReceive ==
    /\ Takes("receive")
    /\ UNCHANGED <<client, open, th, at, mt, app, gone, used, clean>>

JoinThen(t, fd) == mt' = [Waiting EXCEPT !.pc = "join", !.thread = t, !.fd = fd]

\* Mutant: the thread that reported the disconnect is not joined.
OnDisconnectWithoutJoin ==
    /\ Takes("disconnect")
    /\ eraseClient(Head(queue).id)
    /\ clean' = (clean /\ Strikes(Head(queue).id, Head(queue).conn))
    /\ UNCHANGED <<th, at, mt, app, gone, used>>

\* Client Disconnect: join the thread of the entry, if any, then erase.
OnDisconnect ==
    /\ Takes("disconnect")
    /\ LET m == Head(queue)
           t == client[m.id].thread IN
       /\ clean' = (clean /\ Strikes(m.id, m.conn))
       /\ \/ /\ t = NoThread
             /\ eraseClient(m.id)
             /\ UNCHANGED mt
          \/ /\ t # NoThread
             /\ JoinThen(t, m.id)
             /\ UNCHANGED <<client, open>>
    /\ UNCHANGED <<th, at, app, gone, used>>

\* Mutant: the thread is not cancelled before it is joined.
threadCancelNothing(t) == th' = th

\* pthread_cancel marks a thread that has not finished.
threadCancel(t) ==
    th' = IF th[t].pc \in {"free", "exited"} THEN th
          ELSE [th EXCEPT ![t].pc = "cancelled"]

\* Mutant: the descriptor is closed while its thread still runs.
OnClientCloseAtOnce ==
    /\ Takes("close")
    /\ eraseClient(Head(queue).id)
    /\ clean' = (clean /\ Strikes(Head(queue).id, Head(queue).conn))
    /\ UNCHANGED <<th, at, mt, app, gone, used>>

\* Server close Client: cancel and join the thread of the entry, then erase.
OnClientClose ==
    /\ Takes("close")
    /\ LET m == Head(queue)
           t == client[m.id].thread IN
       /\ clean' = (clean /\ Strikes(m.id, m.conn))
       /\ \/ /\ t = NoThread
             /\ eraseClient(m.id)
             /\ UNCHANGED <<mt, th>>
          \/ /\ t # NoThread
             /\ threadCancel(t)
             /\ JoinThen(t, m.id)
             /\ UNCHANGED <<client, open>>
    /\ UNCHANGED <<at, app, gone, used>>

OnThreadExit ==
    /\ Takes("exit")
    /\ JoinThen(Head(queue).id, 0)
    /\ clean' = (clean /\ th[Head(queue).id].own = Head(queue).conn)
    /\ UNCHANGED <<client, open, th, at, app, gone, used>>

\* Mutant: the descriptor is erased without waiting for the thread.
JoinReturnsEarly ==
    /\ mt.pc = "join"
    /\ \E fd \in Fd \cup {0} :
        /\ IF mt.fd # 0 THEN fd = mt.fd ELSE getClientSocketFD(mt.thread, fd)
        /\ \/ fd # 0 /\ eraseClient(fd)
           \/ fd = 0 /\ UNCHANGED <<client, open>>
    /\ th' = th
    /\ mt' = Waiting
    /\ UNCHANGED <<queue, at, app, gone, used, clean>>

\* pthread_join returns once the thread has ended; on an id that was already
\* joined it fails at once and the failure is only logged.  What follows
\* erases the descriptor of the message, or the one found by the thread id.
JoinReturns ==
    /\ mt.pc = "join"
    /\ th[mt.thread].pc \in {"exited", "free"}
    /\ \E fd \in Fd \cup {0} :
        /\ IF mt.fd # 0 THEN fd = mt.fd ELSE getClientSocketFD(mt.thread, fd)
        /\ \/ fd # 0 /\ eraseClient(fd)
           \/ fd = 0 /\ UNCHANGED <<client, open>>
    /\ th' = [th EXCEPT ![mt.thread] = Free]
    /\ mt' = Waiting
    /\ UNCHANGED <<queue, at, app, gone, used, clean>>

\* checkIdle: closeClient for every idle entry, in key order.
OnIdleTimer ==
    /\ Takes("timer")
    /\ mt' = [Waiting EXCEPT !.pc = "scan", !.todo = {fd \in Mapped : client[fd].idle}]
    /\ UNCHANGED <<client, open, th, at, app, gone, used, clean>>

ScanClosesNext(fd) ==
    /\ mt.pc = "scan"
    /\ fd \in mt.todo
    /\ \A g \in mt.todo : fd <= g
    /\ sendMessage("close", fd, client[fd].conn)
    /\ mt' = [mt EXCEPT !.todo = @ \ {fd}]
    /\ UNCHANGED <<client, open, th, at, app, gone, used, clean>>

ScanEnds ==
    /\ mt.pc = "scan"
    /\ mt.todo = {}
    /\ mt' = Waiting
    /\ UNCHANGED <<queue, client, open, th, at, app, gone, used, clean>>

MessageThread ==
    \/ \E t \in Thread : OnAccept(t)
    \/ OnAcceptNoThread
    \/ ErasesNoThread
    \/ StoreThread
    \/ OnConnectOrAlive
    \/ OnServerReceive
    \/ OnDisconnect
    \/ OnClientClose
    \/ OnThreadExit
    \/ JoinReturns
    \/ OnIdleTimer
    \/ \E fd \in Fd : ScanClosesNext(fd)
    \/ ScanEnds

-----------------------------------------------------------------------------

Environment ==
    \/ \E c \in Conn : PeerCloses(c)
    \/ \E fd \in Fd : GrowsIdle(fd)
    \/ IdleTimerExpires
    \/ \E fd \in Fd : socketAccept(fd)
    \/ \E t \in Thread : RecvReturnsData(t)
    \/ \E fd \in Fd : CloseClientFinds(fd)

Next ==
    \/ Environment
    \/ AcceptThread
    \/ \E t \in Thread : ReceiveThread(t)
    \/ CloseClientSends
    \/ MessageThread

Spec == Init /\ [][Next]_vars

\* Every thread that can run keeps running; the peers, the clock and the
\* controller promise nothing.
Fairness ==
    /\ WF_vars(AcceptThread)
    /\ WF_vars(MessageThread)
    /\ WF_vars(CloseClientSends)
    /\ \A t \in Thread : WF_vars(ReceiveThread(t))

FairSpec == Spec /\ Fairness

-----------------------------------------------------------------------------
(* Properties *)

AcceptQueued(fd) == \E i \in DOMAIN queue : queue[i].cmd = "accept" /\ queue[i].id = fd

\* No descriptor leaks: an open client descriptor is in the map, in the hands
\* of the accept thread or of the message thread, or named by an ACCEPT message
\* that is still queued (every path of onReceiveMessage that forgets a client
\* closes it).  This holds even after a message has struck the wrong client.
NoDescriptorLeak ==
    \A fd \in Fd : open[fd] # 0 =>
        \/ fd \in Mapped
        \/ at.pc # "accept" /\ at.fd = fd
        \/ mt.pc = "store" /\ mt.fd = fd
        \/ AcceptQueued(fd)

\* Until a message strikes a client it was not sent about, an entry of mapClient
\* describes the connection its descriptor refers to.
EntryOwnsDescriptor ==
    clean => \A fd \in Mapped : open[fd] = client[fd].conn

\* A receive thread that exists can still be joined: an entry, the message
\* thread or its own THREAD_EXIT message leads to it.
ThreadIsReachable(t) ==
    \/ EntriesOf(t) # {}
    \/ mt.thread = t
    \/ th[t].pc = "exit"
    \/ \E i \in DOMAIN queue : queue[i].cmd = "exit" /\ queue[i].id = t

\* Until then no receive thread is forgotten (it would never be joined), no
\* entry names a thread that was already joined, and a thread serves the
\* connection of the entry that names it and no other entry.
ThreadsMatchEntries ==
    clean =>
        /\ \A t \in Thread : th[t].pc # "free" => ThreadIsReachable(t)
        /\ \A fd \in Mapped : LET t == client[fd].thread IN
               t # NoThread =>
                   /\ EntriesOf(t) = {fd}
                   /\ th[t].pc # "free" /\ th[t].own = client[fd].conn

\* Until then a receive thread reads only the connection it was created for,
\* although it calls recv with a descriptor number it looked up once.
ReadsOwnConnection ==
    clean => \A t \in Thread : th[t].pc = "blocked" => th[t].reads = th[t].own

\* Until then the messages of a receive thread never reach a later client that
\* was given the same descriptor: the thread is joined before the descriptor
\* is closed, so they are queued before the later client's ACCEPT.
NoLateMessages ==
    clean => \A i \in DOMAIN queue : LET m == queue[i] IN
        m.cmd \in {"connect", "receive", "alive"} /\ m.id \in Mapped
            => m.conn = client[m.id].conn

\* MAX_CLIENT bounds the map only up to the accepted clients in flight (queued, or
\* in the hands of the accept and of the message thread): the
\* accept thread compares the limit with a map they are not yet in.
AdmissionBound ==
    Cardinality(Mapped) <= MaxClient + QCap + 1

\* The handlers of the derived server that may run: in a receive thread that has
\* found its descriptor, until the thread has ended.
Running ==
    {<<th[t].fd, th[t].own>> :
        t \in {u \in Thread : th[u].fd # 0 /\ th[u].pc \notin {"free", "exited"}}}

Contract == INSTANCE Connections
    WITH conn <- open, born <- used.conn, running <- Running, kept <- clean

\* CATcpServer implements the promise its derived servers rely on: a descriptor is
\* never closed under a handler of its connection, and no handler starts with the
\* descriptor of another connection.
KeepsPromise == Contract!Promise

\* The idle scan has found the queue full: the only thread that empties it waits
\* for room in it, for ever.
ScanIsStuck == mt.pc = "scan" /\ mt.todo # {} /\ Len(queue) = QCap

\* A connection whose peer has gone is closed in the end, however full the
\* queue is: senders that wait for room do not stop the message thread, except
\* when it is the message thread itself that waits, in its scan for idle clients.
GoneIsReleased ==
    \A c \in Conn :
        (c \in gone /\ \E fd \in Fd : open[fd] = c)
            ~> ((\A fd \in Fd : open[fd] # c) \/ ~clean \/ ScanIsStuck)

\* A call of closeClient that found the client ends its connection, with the
\* same exception.
CloseIsHonoured ==
    \A c \in Conn :
        (app.pc = "send" /\ app.conn = c)
            ~> ((\A fd \in Fd : open[fd] # c) \/ ~clean \/ ScanIsStuck)

=============================================================================
