-------------------------- MODULE TcpServerProofs --------------------------
(***************************************************************************)
(* Proofs about TcpServer, for every set of descriptors and thread ids,     *)
(* every queue capacity and every bound.                                    *)
(***************************************************************************)
EXTENDS TcpServer, FiniteSetTheorems, TLAPS

\* The state onInitial leaves behind is well typed.
LEMMA TypeInit == Init => TypeOK
BY ConstantsOK DEF Init, TypeOK, ThreadsOK, AcceptThreadOK, MessageThreadOK, AppOK,
   Message, Entry, Absent, ThreadState, ThreadPc, Free, MsgThreadState, Waiting, Conn,
   Mapped, Serving, Spent

\* A part of the type invariant survives a step that leaves its variables alone.
LEMMA Frame ==
    /\ UNCHANGED th => (ThreadsOK => ThreadsOK')
    /\ UNCHANGED at => (AcceptThreadOK => AcceptThreadOK')
    /\ UNCHANGED <<mt, client>> => (MessageThreadOK => MessageThreadOK')
    /\ UNCHANGED app => (AppOK => AppOK')
<1>1. UNCHANGED th => (ThreadsOK => ThreadsOK')
  BY DEF ThreadsOK
<1>2. UNCHANGED at => (AcceptThreadOK => AcceptThreadOK')
  BY DEF AcceptThreadOK
<1>3. UNCHANGED <<mt, client>> => (MessageThreadOK => MessageThreadOK')
  BY DEF MessageThreadOK, Mapped
<1>4. UNCHANGED app => (AppOK => AppOK')
  BY DEF AppOK
<1> QED
  BY <1>1, <1>2, <1>3, <1>4

\* The message thread is at rest after a step that ends its work.
LEMMA RestingOK == mt' = Waiting => MessageThreadOK'
BY DEF MessageThreadOK, MsgThreadState, Waiting

\* A message thread that is not scanning does not depend on the map.
LEMMA NotScanningOK ==
    MessageThreadOK /\ UNCHANGED mt /\ mt.pc # "scan" => MessageThreadOK'
BY DEF MessageThreadOK

\* The join of a thread may start.
LEMMA JoiningOK ==
    ASSUME NEW t \in Thread, NEW fd \in Fd \cup {0}, JoinThen(t, fd)
    PROVE  MessageThreadOK'
BY DEF JoinThen, MessageThreadOK, MsgThreadState, Waiting

\* A thread may be given any well-formed state.
LEMMA ThreadUpdateOK ==
    ASSUME ThreadsOK, NEW t \in Thread, NEW r \in ThreadState,
           r.pc \in Serving => r.fd \in Fd,
           r.pc # "free" => r.own \in Conn,
           th' = [th EXCEPT ![t] = r]
    PROVE  ThreadsOK'
BY DEF ThreadsOK

\* A receive thread moves to another state of its loop.
LEMMA ThreadMovesOK ==
    ASSUME ThreadsOK, NEW t \in Thread, NEW pc \in ThreadPc \ {"free"},
           th[t].pc # "free",
           pc \in Serving => th[t].fd \in Fd,
           th' = [th EXCEPT ![t].pc = pc]
    PROVE  ThreadsOK'
BY DEF ThreadsOK, ThreadState

\* A message sent keeps the queue a sequence of messages.
LEMMA SendType ==
    ASSUME queue \in Seq(Message), NEW cmd, NEW id, NEW c, Msg(cmd, id, c) \in Message,
           sendMessage(cmd, id, c)
    PROVE  queue' \in Seq(Message)
BY DEF sendMessage

\* A message taken was one, and the rest of the queue is still a queue.
LEMMA TakeType ==
    ASSUME queue \in Seq(Message), NEW cmd, Takes(cmd)
    PROVE  /\ Head(queue) \in Message
           /\ Head(queue).cmd = cmd
           /\ queue' \in Seq(Message)
           /\ mt.pc = "wait"
           /\ cmd \in Command \ {"exit", "timer"}
                => Head(queue).id \in Fd /\ Head(queue).conn \in Conn
           /\ cmd = "exit" => Head(queue).id \in Thread
BY DEF Takes, Message, Command

\* Forgetting a client keeps the map and the kernel table well typed.
LEMMA EraseType ==
    ASSUME TypeOK, NEW fd \in Fd, eraseClient(fd)
    PROVE  /\ client' \in [Fd -> Entry \cup {Absent}]
           /\ open' \in [Fd -> Conn \cup {0}]
BY DEF eraseClient, TypeOK

\* Spending from a bound.
LEMMA SpentType ==
    ASSUME used \in Spent, NEW n \in Nat
    PROVE  /\ [used EXCEPT !.data = n] \in Spent
           /\ [used EXCEPT !.tick = n] \in Spent
           /\ [used EXCEPT !.close = n] \in Spent
           /\ n <= MaxConn => [used EXCEPT !.conn = n] \in Spent
BY ConstantsOK DEF Spent

\* Spending from one bound leaves the others as they were.
LEMMA SpentFields ==
    ASSUME used \in Spent
    PROVE  /\ used.conn \in 0..MaxConn /\ used.conn + 1 \in Nat
           /\ used.data + 1 \in Nat /\ used.tick + 1 \in Nat /\ used.close + 1 \in Nat
BY ConstantsOK DEF Spent

-----------------------------------------------------------------------------

\* Peers, the idle timer and the controller thread keep the state well typed.
LEMMA EnvironmentType == TypeOK /\ Environment => TypeOK'
<1> SUFFICES ASSUME TypeOK, Environment PROVE TypeOK'
  OBVIOUS
<1> USE ConstantsOK
<1>1. ASSUME NEW c \in Conn, PeerCloses(c) PROVE TypeOK'
  BY <1>1, Frame DEF PeerCloses, TypeOK
<1>2. ASSUME NEW fd \in Fd, GrowsIdle(fd) PROVE TypeOK'
  <2>1. client[fd] \in Entry
    BY <1>2 DEF GrowsIdle, TypeOK, Mapped
  <2>2. [client[fd] EXCEPT !.idle = TRUE] \in Entry
    BY <2>1 DEF Entry
  <2>3. client' = [client EXCEPT ![fd] = [client[fd] EXCEPT !.idle = TRUE]]
    BY <1>2 DEF GrowsIdle
  <2>4. client' \in [Fd -> Entry \cup {Absent}]
    BY <2>2, <2>3 DEF TypeOK
  <2>5. Absent \notin Entry
    BY DEF Absent, Entry, Conn
  <2>6. Mapped' = Mapped
    BY <2>1, <2>2, <2>3, <2>5 DEF TypeOK, Mapped
  <2>7. MessageThreadOK'
    BY <1>2, <2>6 DEF GrowsIdle, TypeOK, MessageThreadOK
  <2> QED
    BY <1>2, <2>4, <2>7, Frame DEF GrowsIdle, TypeOK
<1>3. CASE IdleTimerExpires
  <2>1. Msg("timer", 0, 0) \in Message
    BY DEF Msg, Message
  <2>2. queue' \in Seq(Message)
    BY <1>3, <2>1, SendType DEF IdleTimerExpires, TypeOK
  <2>3. used' \in Spent
    <3>1. used.tick + 1 \in Nat
      BY SpentFields DEF TypeOK
    <3> QED
      BY <1>3, <3>1, SpentType DEF IdleTimerExpires, TypeOK
  <2> QED
    BY <1>3, <2>2, <2>3, Frame DEF IdleTimerExpires, TypeOK
<1>4. ASSUME NEW fd \in Fd, socketAccept(fd) PROVE TypeOK'
  <2>1. used.conn + 1 \in Conn /\ used' \in Spent
    <3>1. used.conn + 1 \in Nat /\ used.conn + 1 <= MaxConn /\ used.conn + 1 >= 1
      BY <1>4, SpentFields, SMTT(30) DEF socketAccept, TypeOK
    <3>2. used.conn + 1 \in Conn
      BY <3>1, ConstantsOK DEF Conn
    <3>3. used' \in Spent
      BY <1>4, <3>1, SpentType DEF socketAccept, TypeOK
    <3> QED
      BY <3>2, <3>3
  <2>2. open' \in [Fd -> Conn \cup {0}]
    BY <1>4, <2>1 DEF socketAccept, TypeOK
  <2>3. AcceptThreadOK'
    BY <1>4, <2>1 DEF socketAccept, AcceptThreadOK
  <2> QED
    BY <1>4, <2>1, <2>2, <2>3, Frame DEF socketAccept, TypeOK
<1>5. ASSUME NEW t \in Thread, RecvReturnsData(t) PROVE TypeOK'
  <2>1. used' \in Spent
    <3>1. used.data + 1 \in Nat
      BY SpentFields DEF TypeOK
    <3> QED
      BY <1>5, <3>1, SpentType DEF RecvReturnsData, TypeOK
  <2>2. ThreadsOK'
    BY <1>5, ThreadMovesOK DEF RecvReturnsData, TypeOK, ThreadsOK, ThreadPc, Serving
  <2> QED
    BY <1>5, <2>1, <2>2, Frame DEF RecvReturnsData, TypeOK
<1>6. ASSUME NEW fd \in Fd, CloseClientFinds(fd) PROVE TypeOK'
  <2>1. used' \in Spent
    <3>1. used.close + 1 \in Nat
      BY SpentFields DEF TypeOK
    <3> QED
      BY <1>6, <3>1, SpentType DEF CloseClientFinds, TypeOK
  <2>2. client[fd] \in Entry
    BY <1>6 DEF CloseClientFinds, TypeOK, Mapped
  <2>3. AppOK'
    BY <1>6, <2>2 DEF CloseClientFinds, AppOK, Entry
  <2> QED
    BY <1>6, <2>1, <2>3, Frame DEF CloseClientFinds, TypeOK
<1> QED
  BY <1>1, <1>2, <1>3, <1>4, <1>5, <1>6 DEF Environment

\* The accept thread (runSocketAccept) keeps the state well typed.
LEMMA AcceptThreadType == TypeOK /\ AcceptThread => TypeOK'
<1> SUFFICES ASSUME TypeOK, AcceptThread PROVE TypeOK'
  OBVIOUS
<1>1. CASE CheckLimit
  <2>1. AcceptThreadOK'
    BY <1>1 DEF CheckLimit, TypeOK, AcceptThreadOK
  <2>2. open' \in [Fd -> Conn \cup {0}]
    BY <1>1 DEF CheckLimit, TypeOK
  <2> QED
    BY <1>1, <2>1, <2>2, Frame DEF CheckLimit, TypeOK
<1>2. CASE SendAccept
  <2>1. Msg("accept", at.fd, at.conn) \in Message
    BY <1>2 DEF SendAccept, Msg, Message, Command, TypeOK, AcceptThreadOK
  <2>2. queue' \in Seq(Message)
    BY <1>2, <2>1, SendType DEF SendAccept, TypeOK
  <2>3. AcceptThreadOK'
    BY <1>2 DEF SendAccept, AcceptThreadOK
  <2> QED
    BY <1>2, <2>2, <2>3, Frame DEF SendAccept, TypeOK
<1> QED
  BY <1>1, <1>2 DEF AcceptThread

\* The second half of closeClient keeps the state well typed.
LEMMA CloseClientType == TypeOK /\ CloseClientSends => TypeOK'
<1> SUFFICES ASSUME TypeOK, CloseClientSends PROVE TypeOK'
  OBVIOUS
<1>1. Msg("close", app.fd, app.conn) \in Message
  BY DEF CloseClientSends, Msg, Message, Command, TypeOK, AppOK
<1>2. queue' \in Seq(Message)
  BY <1>1, SendType DEF CloseClientSends, TypeOK
<1>3. AppOK'
  BY DEF CloseClientSends, AppOK
<1> QED
  BY <1>2, <1>3, Frame DEF CloseClientSends, TypeOK

\* A receive thread (runTcpReceive) keeps the state well typed.
LEMMA ReceiveThreadType ==
    ASSUME TypeOK, NEW t \in Thread, ReceiveThread(t)
    PROVE  TypeOK'
<1>1. CASE LooksUpSelf(t)
  <2>1. PICK fd \in Fd \cup {0} :
          th' = [th EXCEPT ![t].pc = IF fd = 0 THEN "exit" ELSE "connect", ![t].fd = fd]
    BY <1>1 DEF LooksUpSelf
  <2> DEFINE pc == IF fd = 0 THEN "exit" ELSE "connect"
             r == [[th[t] EXCEPT !.pc = pc] EXCEPT !.fd = fd]
  <2>2. th[t] \in ThreadState /\ th[t].own \in Conn
    BY <1>1 DEF LooksUpSelf, TypeOK, ThreadsOK
  <2>3. pc \in ThreadPc /\ (pc \in Serving => fd \in Fd)
    BY DEF ThreadPc, Serving
  <2> HIDE DEF pc
  <2>4. r \in ThreadState /\ r.pc = pc /\ r.fd = fd /\ r.own = th[t].own
    BY <2>2, <2>3 DEF ThreadState
  <2>5. th' = [th EXCEPT ![t] = r]
    BY <2>1, <2>2 DEF pc, TypeOK, ThreadsOK
  <2> HIDE DEF r
  <2>6. ThreadsOK'
    BY <2>2, <2>3, <2>4, <2>5, ThreadUpdateOK DEF TypeOK
  <2> QED
    BY <1>1, <2>6, Frame DEF LooksUpSelf, TypeOK
<1>2. ASSUME NEW from \in Serving \cup {"exit"}, NEW to \in ThreadPc \ {"free"}, NEW id,
             Msg(from, id, th[t].own) \in Message, to \in Serving => from \in Serving,
             ThreadSends(t, from, id, to)
      PROVE  TypeOK'
  <2>1. queue' \in Seq(Message)
    BY <1>2, SendType DEF ThreadSends, TypeOK
  <2>2. ThreadsOK'
    BY <1>2, ThreadMovesOK DEF ThreadSends, TypeOK, ThreadsOK, Serving
  <2> QED
    BY <1>2, <2>1, <2>2, Frame DEF ThreadSends, TypeOK
<1>3. ASSUME th[t].pc \in {"connect", "receive", "alive", "disconnect"}
      PROVE  Msg(th[t].pc, th[t].fd, th[t].own) \in Message
  BY <1>3 DEF Msg, Message, Command, TypeOK, ThreadsOK, Serving
<1>4. CASE SendConnect(t)
  BY <1>4, <1>2, <1>3 DEF SendConnect, ThreadSends, Serving, ThreadPc
<1>5. CASE SendReceive(t)
  BY <1>5, <1>2, <1>3 DEF SendReceive, ThreadSends, Serving, ThreadPc
<1>6. CASE SendAlive(t)
  BY <1>6, <1>2, <1>3 DEF SendAlive, ThreadSends, Serving, ThreadPc
<1>7. CASE SendDisconnect(t)
  BY <1>7, <1>2, <1>3 DEF SendDisconnect, ThreadSends, Serving, ThreadPc
<1>8. CASE SendThreadExit(t)
  <2>1. Msg("exit", t, th[t].own) \in Message
    BY <1>8 DEF SendThreadExit, ThreadSends, Msg, Message, TypeOK, ThreadsOK
  <2> QED
    BY <1>8, <1>2, <2>1 DEF SendThreadExit, ThreadSends, Serving, ThreadPc
<1>9. CASE EntersRecv(t)
  <2>1. th[t].pc = "loop" /\ th[t].fd \in Fd /\ open[th[t].fd] \in Conn \cup {0}
    BY <1>9 DEF EntersRecv, TypeOK, ThreadsOK, Serving
  <2> DEFINE pc == IF open[th[t].fd] = 0 THEN "disconnect" ELSE "blocked"
             r == [[th[t] EXCEPT !.pc = pc] EXCEPT !.reads = open[th[t].fd]]
  <2>2. th[t] \in ThreadState /\ th[t].own \in Conn
    BY <1>9 DEF EntersRecv, TypeOK, ThreadsOK
  <2>3. pc \in ThreadPc
    BY DEF ThreadPc
  <2>4. th' = [th EXCEPT ![t] = r]
    BY <1>9, <2>2 DEF EntersRecv, TypeOK, ThreadsOK
  <2> HIDE DEF pc
  <2>5. r \in ThreadState /\ r.fd = th[t].fd /\ r.own = th[t].own
    BY <2>1, <2>2, <2>3 DEF ThreadState
  <2> HIDE DEF r
  <2>6. ThreadsOK'
    BY <2>1, <2>2, <2>4, <2>5, ThreadUpdateOK DEF TypeOK
  <2> QED
    BY <1>9, <2>6, Frame DEF EntersRecv, TypeOK
<1>10. CASE RecvReturnsEnd(t)
  <2>1. ThreadsOK'
    BY <1>10, ThreadMovesOK DEF RecvReturnsEnd, TypeOK, ThreadsOK, ThreadPc, Serving
  <2> QED
    BY <1>10, <2>1, Frame DEF RecvReturnsEnd, TypeOK
<1>11. CASE CancelPoint(t)
  <2>1. ThreadsOK'
    BY <1>11, ThreadMovesOK DEF CancelPoint, TypeOK, ThreadPc, Serving
  <2> QED
    BY <1>11, <2>1, Frame DEF CancelPoint, TypeOK
<1> QED
  BY <1>1, <1>4, <1>5, <1>6, <1>7, <1>8, <1>9, <1>10, <1>11 DEF ReceiveThread

\* Every handler of onReceiveMessage keeps the state well typed.
LEMMA MessageThreadType == TypeOK /\ MessageThread => TypeOK'
<1> SUFFICES ASSUME TypeOK, MessageThread PROVE TypeOK'
  OBVIOUS
<1> DEFINE m == Head(queue)
<1>1. ASSUME NEW t \in Thread, OnAccept(t) PROVE TypeOK'
  <2>1. queue' \in Seq(Message) /\ m.id \in Fd /\ m.conn \in Conn /\ mt.pc = "wait"
    BY <1>1, TakeType DEF OnAccept, TypeOK, Command
  <2> DEFINE fd == m.id
             c == m.conn
             r == [Free EXCEPT !.pc = "start", !.own = c]
  <2>2. /\ th' = [th EXCEPT ![t] = r]
        /\ mt' = [Waiting EXCEPT !.pc = "store", !.thread = t, !.fd = fd, !.conn = c]
        /\ \/ client' = client
           \/ client' = [client EXCEPT
                  ![fd] = [thread |-> NoThread, idle |-> TRUE, conn |-> c]]
    BY <1>1 DEF OnAccept
  <2>3. fd \in Fd /\ c \in Conn
    BY <2>1
  <2> HIDE DEF fd, c, m
  <2>4. client' \in [Fd -> Entry \cup {Absent}]
    <3>1. [thread |-> NoThread, idle |-> TRUE, conn |-> c] \in Entry
      BY <2>3 DEF Entry
    <3> QED
      BY <2>2, <2>3, <3>1 DEF TypeOK
  <2>5. r \in ThreadState /\ r.pc = "start" /\ r.own = c
    BY <2>3 DEF ThreadState, ThreadPc, Free
  <2> HIDE DEF r
  <2>6. ThreadsOK'
    BY <2>2, <2>3, <2>5, ThreadUpdateOK DEF TypeOK, Serving
  <2>7. MessageThreadOK'
    BY <2>2, <2>3 DEF MessageThreadOK, MsgThreadState, Waiting
  <2> QED
    BY <1>1, <2>1, <2>4, <2>6, <2>7, Frame DEF OnAccept, TypeOK
<1>2. CASE OnAcceptNoThread
  <2>1. queue' \in Seq(Message) /\ m.id \in Fd /\ m.conn \in Conn
    BY <1>2, TakeType DEF OnAcceptNoThread, TypeOK, Command
  <2> DEFINE fd == m.id
             c == m.conn
  <2>2. /\ mt' = [Waiting EXCEPT !.pc = "store", !.fd = fd, !.conn = c]
        /\ client' = [client EXCEPT
               ![fd] = [thread |-> NoThread, idle |-> FALSE, conn |-> c]]
    BY <1>2 DEF OnAcceptNoThread
  <2>3. fd \in Fd /\ c \in Conn
    BY <2>1
  <2> HIDE DEF fd, c, m
  <2>4. client' \in [Fd -> Entry \cup {Absent}]
    <3>1. [thread |-> NoThread, idle |-> FALSE, conn |-> c] \in Entry
      BY <2>3 DEF Entry
    <3> QED
      BY <2>2, <2>3, <3>1 DEF TypeOK
  <2>5. MessageThreadOK'
    BY <2>2, <2>3 DEF MessageThreadOK, MsgThreadState, Waiting
  <2> QED
    BY <1>2, <2>1, <2>4, <2>5, Frame DEF OnAcceptNoThread, TypeOK
<1>3. CASE StoreThread
  <2>1. mt.fd \in Fd /\ mt.thread \in Thread /\ mt.conn \in Conn
    BY <1>3 DEF StoreThread, TypeOK, MessageThreadOK, MsgThreadState
  <2>2. client' \in [Fd -> Entry \cup {Absent}]
    BY <1>3, <2>1 DEF StoreThread, TypeOK, Entry
  <2> QED
    BY <1>3, <2>2, Frame, RestingOK DEF StoreThread, TypeOK
<1>4. CASE OnConnectOrAlive
  <2>1. queue' \in Seq(Message) /\ m.id \in Fd /\ mt.pc = "wait"
    BY <1>4, TakeType DEF OnConnectOrAlive, TypeOK, Command
  <2>2. client' \in [Fd -> Entry \cup {Absent}]
    <3>1. CASE m.id \in Mapped
      <4>1. client[m.id] \in Entry
        BY <3>1 DEF TypeOK, Mapped
      <4>2. [client[m.id] EXCEPT !.idle = FALSE] \in Entry
        BY <4>1 DEF Entry
      <4>3. client' = [client EXCEPT ![m.id] = [client[m.id] EXCEPT !.idle = FALSE]]
        BY <1>4, <3>1 DEF OnConnectOrAlive, updateClientAlive
      <4> HIDE DEF m
      <4> QED
        BY <4>2, <4>3 DEF TypeOK
    <3>2. CASE m.id \notin Mapped
      BY <1>4, <3>2 DEF OnConnectOrAlive, updateClientAlive, TypeOK
    <3> QED
      BY <3>1, <3>2
  <2> QED
    BY <1>4, <2>1, <2>2, Frame, NotScanningOK DEF OnConnectOrAlive, TypeOK
<1>5. CASE OnServerReceive
  <2>1. queue' \in Seq(Message)
    BY <1>5, TakeType DEF OnServerReceive, TypeOK
  <2> QED
    BY <1>5, <2>1, Frame DEF OnServerReceive, TypeOK
<1>6. CASE OnDisconnect
  <2>1. queue' \in Seq(Message) /\ m.id \in Fd /\ mt.pc = "wait"
    BY <1>6, TakeType DEF OnDisconnect, TypeOK, Command
  <2>2. client[m.id].thread \in Thread \cup {NoThread} /\ clean' \in BOOLEAN
    BY <1>6, <2>1 DEF OnDisconnect, TypeOK, Entry, Absent
  <2>3. CASE client[m.id].thread = NoThread
    BY <1>6, <2>1, <2>2, <2>3, EraseType, Frame, NotScanningOK DEF OnDisconnect, TypeOK
  <2>4. CASE client[m.id].thread # NoThread
    <3>1. MessageThreadOK'
      BY <1>6, <2>1, <2>2, <2>4, JoiningOK DEF OnDisconnect
    <3> QED
      BY <1>6, <2>1, <2>2, <2>4, <3>1, Frame DEF OnDisconnect, TypeOK
  <2> QED
    BY <2>3, <2>4
<1>7. CASE OnClientClose
  <2>1. queue' \in Seq(Message) /\ m.id \in Fd /\ mt.pc = "wait"
    BY <1>7, TakeType DEF OnClientClose, TypeOK, Command
  <2>2. client[m.id].thread \in Thread \cup {NoThread} /\ clean' \in BOOLEAN
    BY <1>7, <2>1 DEF OnClientClose, TypeOK, Entry, Absent
  <2>3. CASE client[m.id].thread = NoThread
    BY <1>7, <2>1, <2>2, <2>3, EraseType, Frame, NotScanningOK DEF OnClientClose, TypeOK
  <2>4. CASE client[m.id].thread # NoThread
    <3>1. MessageThreadOK'
      BY <1>7, <2>1, <2>2, <2>4, JoiningOK DEF OnClientClose
    <3>2. ThreadsOK'
      <4> DEFINE t == client[m.id].thread
      <4>1. threadCancel(t) /\ t \in Thread
        BY <1>7, <2>2, <2>4 DEF OnClientClose
      <4> HIDE DEF t
      <4>2. CASE th[t].pc \in {"free", "exited"}
        BY <4>1, <4>2, Frame DEF threadCancel, TypeOK
      <4>3. CASE th[t].pc \notin {"free", "exited"}
        BY <4>1, <4>3, ThreadMovesOK DEF threadCancel, TypeOK, ThreadPc, Serving
      <4> QED
        BY <4>2, <4>3
    <3> QED
      BY <1>7, <2>1, <2>2, <2>4, <3>1, <3>2, Frame DEF OnClientClose, TypeOK
  <2> QED
    BY <2>3, <2>4
<1>8. CASE OnThreadExit
  <2>1. queue' \in Seq(Message) /\ m.id \in Thread
    BY <1>8, TakeType DEF OnThreadExit, TypeOK
  <2>2. clean' \in BOOLEAN /\ MessageThreadOK'
    BY <1>8, <2>1, JoiningOK DEF OnThreadExit
  <2> QED
    BY <1>8, <2>1, <2>2, Frame DEF OnThreadExit, TypeOK
<1>9. CASE JoinReturns
  <2>1. client' \in [Fd -> Entry \cup {Absent}] /\ open' \in [Fd -> Conn \cup {0}]
    BY <1>9, EraseType DEF JoinReturns, TypeOK
  <2>2. ThreadsOK'
    <3>1. Free \in ThreadState /\ Free.pc = "free"
      BY DEF Free, ThreadState, ThreadPc
    <3>2. mt.thread \in Thread
      BY <1>9 DEF JoinReturns, TypeOK, MessageThreadOK
    <3> QED
      BY <1>9, <3>1, <3>2, ThreadUpdateOK DEF JoinReturns, TypeOK, Serving
  <2> QED
    BY <1>9, <2>1, <2>2, Frame, RestingOK DEF JoinReturns, TypeOK
<1>10. CASE OnIdleTimer
  <2>1. queue' \in Seq(Message)
    BY <1>10, TakeType DEF OnIdleTimer, TypeOK
  <2>2. MessageThreadOK'
    BY <1>10 DEF OnIdleTimer, MessageThreadOK, MsgThreadState, Waiting, Mapped
  <2> QED
    BY <1>10, <2>1, <2>2, Frame DEF OnIdleTimer, TypeOK
<1>11. ASSUME NEW fd \in Fd, ScanClosesNext(fd) PROVE TypeOK'
  <2>1. client[fd] \in Entry
    BY <1>11 DEF ScanClosesNext, TypeOK, MessageThreadOK, Mapped
  <2>2. Msg("close", fd, client[fd].conn) \in Message
    BY <2>1 DEF Msg, Message, Command, Entry
  <2>3. queue' \in Seq(Message)
    BY <1>11, <2>2, SendType DEF ScanClosesNext, TypeOK
  <2>4. MessageThreadOK'
    BY <1>11 DEF ScanClosesNext, TypeOK, MessageThreadOK, MsgThreadState, Mapped
  <2> QED
    BY <1>11, <2>3, <2>4, Frame DEF ScanClosesNext, TypeOK
<1>12. CASE ScanEnds
  BY <1>12, Frame, RestingOK DEF ScanEnds, TypeOK
<1>13. CASE ErasesNoThread
  <2>1. mt.fd \in Fd
    BY <1>13 DEF ErasesNoThread, TypeOK, MessageThreadOK
  <2> QED
    BY <1>13, <2>1, EraseType, Frame, RestingOK DEF ErasesNoThread, TypeOK
<1> QED
  BY <1>1, <1>2, <1>3, <1>4, <1>5, <1>6, <1>7, <1>8, <1>9, <1>10, <1>11, <1>12, <1>13
  DEF MessageThread

\* Every step of the server keeps the state well typed.
LEMMA TypeStep == TypeOK /\ [Next]_vars => TypeOK'
<1>1. TypeOK /\ UNCHANGED vars => TypeOK'
  BY Frame DEF vars, TypeOK
<1> QED
  BY <1>1, EnvironmentType, AcceptThreadType, CloseClientType, ReceiveThreadType,
     MessageThreadType DEF Next

\* Type correctness: every message, map entry and thread is well formed, and a
\* thread that is past the search for its own descriptor carries a valid one.
THEOREM TypeCorrect == Spec => []TypeOK
BY TypeInit, TypeStep, PTL DEF Spec

-----------------------------------------------------------------------------
(* No descriptor leaks *)

\* A send never takes an ACCEPT message out of the queue.
LEMMA SendKeepsAccept ==
    ASSUME queue \in Seq(Message), NEW fd, AcceptQueued(fd),
           NEW cmd, NEW id, NEW c, sendMessage(cmd, id, c)
    PROVE  AcceptQueued(fd)'
<1>1. PICK i \in DOMAIN queue : queue[i].cmd = "accept" /\ queue[i].id = fd
  BY DEF AcceptQueued
<1>2. i \in DOMAIN queue' /\ queue'[i] = queue[i]
  BY DEF sendMessage
<1> QED
  BY <1>1, <1>2 DEF AcceptQueued

\* A sent ACCEPT message is in the queue.
LEMMA SendQueuesAccept ==
    ASSUME queue \in Seq(Message), NEW fd, NEW c, sendMessage("accept", fd, c)
    PROVE  AcceptQueued(fd)'
<1>1. Len(queue) + 1 \in DOMAIN queue' /\ queue'[Len(queue) + 1] = Msg("accept", fd, c)
  BY DEF sendMessage
<1> QED
  BY <1>1 DEF AcceptQueued, Msg

\* Only the ACCEPT message that is taken leaves the queue.
LEMMA TakeKeepsAccept ==
    ASSUME queue \in Seq(Message), NEW fd, AcceptQueued(fd), NEW cmd, Takes(cmd)
    PROVE  AcceptQueued(fd)' \/ (cmd = "accept" /\ Head(queue).id = fd)
<1>1. PICK i \in DOMAIN queue : queue[i].cmd = "accept" /\ queue[i].id = fd
  BY DEF AcceptQueued
<1>2. CASE i = 1
  BY <1>1, <1>2 DEF Takes
<1>3. CASE i # 1
  <2>1. i - 1 \in DOMAIN queue' /\ queue'[i - 1] = queue[i]
    BY <1>3 DEF Takes
  <2> QED
    BY <1>1, <2>1 DEF AcceptQueued
<1> QED
  BY <1>2, <1>3

\* An open descriptor stays accounted for in a step that closes nothing, forgets
\* no client and disturbs neither the hands it is in nor the queue.
LEMMA LeakFrame ==
    ASSUME NoDescriptorLeak, NEW fd \in Fd, open'[fd] # 0, open[fd] # 0,
           fd \in Mapped => fd \in Mapped',
           at.pc # "accept" /\ at.fd = fd => at'.pc # "accept" /\ at'.fd = fd,
           mt.pc = "store" /\ mt.fd = fd =>
               (mt'.pc = "store" /\ mt'.fd = fd) \/ fd \in Mapped',
           AcceptQueued(fd) =>
               AcceptQueued(fd)' \/ (mt'.pc = "store" /\ mt'.fd = fd) \/ fd \in Mapped'
    PROVE  \/ fd \in Mapped'
           \/ at'.pc # "accept" /\ at'.fd = fd
           \/ mt'.pc = "store" /\ mt'.fd = fd
           \/ AcceptQueued(fd)'
BY DEF NoDescriptorLeak

\* Every step keeps each open descriptor in the hands of a thread, in an ACCEPT
\* message or in the map.
LEMMA LeakStep == TypeOK /\ TypeOK' /\ NoDescriptorLeak /\ [Next]_vars => NoDescriptorLeak'
<1> SUFFICES ASSUME TypeOK, TypeOK', NoDescriptorLeak, [Next]_vars,
                    NEW fd \in Fd, open'[fd] # 0
             PROVE  \/ fd \in Mapped'
                    \/ at'.pc # "accept" /\ at'.fd = fd
                    \/ mt'.pc = "store" /\ mt'.fd = fd
                    \/ AcceptQueued(fd)'
  BY DEF NoDescriptorLeak, Mapped
<1> DEFINE Goal == \/ fd \in Mapped'
                   \/ at'.pc # "accept" /\ at'.fd = fd
                   \/ mt'.pc = "store" /\ mt'.fd = fd
                   \/ AcceptQueued(fd)'
<1>a. queue \in Seq(Message)
  BY DEF TypeOK
<1>b. UNCHANGED queue => (AcceptQueued(fd) => AcceptQueued(fd)')
  BY DEF AcceptQueued
<1>c. UNCHANGED client => (fd \in Mapped <=> fd \in Mapped')
  BY DEF Mapped
<1>d. ASSUME NEW g \in Fd, eraseClient(g)
      PROVE  fd # g /\ open[fd] # 0 /\ (fd \in Mapped => fd \in Mapped')
  BY <1>d DEF eraseClient, TypeOK, Mapped
<1>e. mt.pc = "wait" \/ mt.pc = "scan" \/ mt.pc = "join" => ~(mt.pc = "store")
  OBVIOUS
<1>1. CASE UNCHANGED vars
  BY <1>1, <1>b, <1>c, LeakFrame DEF vars
<1>2. ASSUME NEW c \in Conn, PeerCloses(c) PROVE Goal
  BY <1>2, <1>b, <1>c, LeakFrame DEF PeerCloses
<1>3. ASSUME NEW g \in Fd, GrowsIdle(g) PROVE Goal
  <2>1. fd \in Mapped => fd \in Mapped'
    <3>1. client[g] \in Entry /\ Absent \notin Entry
      BY <1>3 DEF GrowsIdle, TypeOK, Mapped, Entry, Absent, Conn
    <3>2. [client[g] EXCEPT !.idle = TRUE] \in Entry
      BY <3>1 DEF Entry
    <3> QED
      BY <1>3, <3>1, <3>2 DEF GrowsIdle, TypeOK, Mapped
  <2> QED
    BY <1>3, <1>b, <2>1, LeakFrame DEF GrowsIdle
<1>4. CASE IdleTimerExpires
  <2>1. AcceptQueued(fd) => AcceptQueued(fd)'
    BY <1>4, <1>a, SendKeepsAccept DEF IdleTimerExpires
  <2> QED
    BY <1>4, <1>c, <2>1, LeakFrame DEF IdleTimerExpires
<1>5. ASSUME NEW g \in Fd, socketAccept(g) PROVE Goal
  <2>1. CASE fd = g
    BY <1>5, <2>1 DEF socketAccept
  <2>2. CASE fd # g
    <3>1. open[fd] # 0 /\ ~(at.pc # "accept")
      BY <1>5, <2>2 DEF socketAccept, TypeOK
    <3> QED
      BY <1>5, <3>1, <1>b, <1>c, LeakFrame DEF socketAccept
  <2> QED
    BY <2>1, <2>2
<1>6. ASSUME NEW t \in Thread, RecvReturnsData(t) PROVE Goal
  BY <1>6, <1>b, <1>c, LeakFrame DEF RecvReturnsData
<1>7. ASSUME NEW g \in Fd, CloseClientFinds(g) PROVE Goal
  BY <1>7, <1>b, <1>c, LeakFrame DEF CloseClientFinds
<1>8. CASE CheckLimit
  <2>1. CASE at'.pc = "send"
    <3>1. open[fd] # 0 /\ at'.fd = at.fd /\ at'.pc # "accept"
      BY <1>8, <2>1 DEF CheckLimit, TypeOK, AcceptThreadOK
    <3> QED
      BY <1>8, <3>1, <1>b, <1>c, LeakFrame DEF CheckLimit
  <2>2. CASE at'.pc # "send"
    <3>1. open' = [open EXCEPT ![at.fd] = 0]
      BY <1>8, <2>2 DEF CheckLimit, TypeOK, AcceptThreadOK
    <3>2. fd # at.fd /\ open[fd] # 0
      BY <3>1 DEF TypeOK
    <3> QED
      BY <1>8, <3>2, <1>b, <1>c, LeakFrame DEF CheckLimit
  <2> QED
    BY <2>1, <2>2
<1>9. CASE SendAccept
  <2>1. CASE fd = at.fd
    BY <1>9, <1>a, <2>1, SendQueuesAccept DEF SendAccept
  <2>2. CASE fd # at.fd
    <3>1. AcceptQueued(fd) => AcceptQueued(fd)'
      BY <1>9, <1>a, SendKeepsAccept DEF SendAccept
    <3> QED
      BY <1>9, <1>c, <2>2, <3>1, LeakFrame DEF SendAccept
  <2> QED
    BY <2>1, <2>2
<1>10. ASSUME NEW t \in Thread, ReceiveThread(t) PROVE Goal
  <2>1. ASSUME NEW from, NEW id, NEW to, ThreadSends(t, from, id, to) PROVE Goal
    <3>1. AcceptQueued(fd) => AcceptQueued(fd)'
      BY <2>1, <1>a, SendKeepsAccept DEF ThreadSends
    <3> QED
      BY <2>1, <1>c, <3>1, LeakFrame DEF ThreadSends
  <2>2. CASE UNCHANGED <<queue, client, open, at, mt>>
    BY <2>2, <1>b, <1>c, LeakFrame
  <2>3. \/ UNCHANGED <<queue, client, open, at, mt>>
        \/ \E from, id, to : ThreadSends(t, from, id, to)
    BY <1>10 DEF ReceiveThread, LooksUpSelf, SendConnect, SendReceive, SendAlive,
       SendDisconnect, SendThreadExit, EntersRecv, RecvReturnsEnd, CancelPoint
  <2> QED
    BY <2>1, <2>2, <2>3
<1>11. CASE CloseClientSends
  <2>1. AcceptQueued(fd) => AcceptQueued(fd)'
    BY <1>11, <1>a, SendKeepsAccept DEF CloseClientSends
  <2> QED
    BY <1>11, <1>c, <2>1, LeakFrame DEF CloseClientSends
<1>12. CASE MessageThread
  <2>1. ASSUME NEW t \in Thread, OnAccept(t) PROVE Goal
    <3>1. Head(queue).id \in Fd /\ Head(queue).conn \in Conn /\ mt.pc = "wait"
      BY <2>1, <1>a, TakeType DEF OnAccept, Command
    <3>2. mt'.pc = "store" /\ mt'.fd = Head(queue).id
      BY <2>1 DEF OnAccept, Waiting
    <3>3. AcceptQueued(fd) => AcceptQueued(fd)' \/ Head(queue).id = fd
      BY <2>1, <1>a, TakeKeepsAccept DEF OnAccept
    <3>4. fd \in Mapped => fd \in Mapped'
      BY <2>1, <3>1 DEF OnAccept, Mapped, TypeOK, Absent, Conn
    <3> QED
      BY <2>1, <3>1, <3>2, <3>3, <3>4, LeakFrame DEF OnAccept
  <2>2. CASE OnAcceptNoThread
    <3>1. Head(queue).id \in Fd /\ Head(queue).conn \in Conn /\ mt.pc = "wait"
      BY <2>2, <1>a, TakeType DEF OnAcceptNoThread, Command
    <3>2. mt'.pc = "store" /\ mt'.fd = Head(queue).id
      BY <2>2 DEF OnAcceptNoThread, Waiting
    <3>3. AcceptQueued(fd) => AcceptQueued(fd)' \/ Head(queue).id = fd
      BY <2>2, <1>a, TakeKeepsAccept DEF OnAcceptNoThread
    <3>4. fd \in Mapped => fd \in Mapped'
      BY <2>2, <3>1 DEF OnAcceptNoThread, Mapped, TypeOK, Absent, Conn
    <3> QED
      BY <2>2, <3>1, <3>2, <3>3, <3>4, LeakFrame DEF OnAcceptNoThread
  <2>3. CASE StoreThread
    <3>1. mt.fd \in Fd /\ mt.conn \in Conn
      BY <2>3 DEF StoreThread, TypeOK, MessageThreadOK
    <3>2. mt.fd \in Mapped' /\ (fd \in Mapped => fd \in Mapped')
      BY <2>3, <3>1 DEF StoreThread, TypeOK, Mapped, Absent, Conn
    <3> QED
      BY <2>3, <3>2, <1>b, LeakFrame DEF StoreThread
  <2>4. CASE OnConnectOrAlive
    <3>1. mt.pc = "wait" /\ (AcceptQueued(fd) => AcceptQueued(fd)')
      BY <2>4, <1>a, TakeType, TakeKeepsAccept DEF OnConnectOrAlive
    <3>2. fd \in Mapped => fd \in Mapped'
      <4>1. CASE Head(queue).id \in Mapped
        <5>1. client[Head(queue).id] \in Entry /\ Absent \notin Entry
          <6>1. Absent \notin Entry
            BY DEF Entry, Absent, Conn
          <6> QED
            BY <4>1, <6>1 DEF TypeOK, Mapped
        <5>2. [client[Head(queue).id] EXCEPT !.idle = FALSE] \in Entry
          BY <5>1 DEF Entry
        <5> DEFINE h == Head(queue).id
                   e == [client[h] EXCEPT !.idle = FALSE]
        <5>3. client' = [client EXCEPT ![h] = e] /\ e # Absent
          BY <2>4, <4>1, <5>1, <5>2 DEF OnConnectOrAlive, updateClientAlive
        <5> HIDE DEF e, h
        <5> QED
          BY <5>3 DEF TypeOK, Mapped
      <4>2. CASE Head(queue).id \notin Mapped
        BY <2>4, <4>2, <1>c DEF OnConnectOrAlive, updateClientAlive
      <4> QED
        BY <4>1, <4>2
    <3> QED
      BY <2>4, <3>1, <3>2, LeakFrame DEF OnConnectOrAlive
  <2>5. CASE OnServerReceive
    <3>1. AcceptQueued(fd) => AcceptQueued(fd)'
      BY <2>5, <1>a, TakeKeepsAccept DEF OnServerReceive
    <3> QED
      BY <2>5, <3>1, <1>c, LeakFrame DEF OnServerReceive
  <2>6. ASSUME NEW cmd \in Command \ {"accept", "exit", "timer"}, Takes(cmd), UNCHANGED at,
               \/ eraseClient(Head(queue).id) /\ UNCHANGED mt
               \/ UNCHANGED <<client, open>> /\ mt'.pc = "join"
        PROVE  Goal
    <3>1. Head(queue).id \in Fd /\ mt.pc = "wait"
      BY <2>6, <1>a, TakeType
    <3>2. open[fd] # 0 /\ (fd \in Mapped => fd \in Mapped')
      BY <2>6, <3>1, <1>c, <1>d
    <3>3. AcceptQueued(fd) => AcceptQueued(fd)'
      BY <2>6, <1>a, TakeKeepsAccept
    <3> QED
      BY <2>6, <3>1, <3>2, <3>3, LeakFrame
  <2>7. CASE OnDisconnect
    BY <2>6, <2>7 DEF OnDisconnect, JoinThen, Waiting, Command
  <2>8. CASE OnClientClose
    BY <2>6, <2>8 DEF OnClientClose, JoinThen, Waiting, Command
  <2>9. CASE OnThreadExit
    <3>1. mt.pc = "wait" /\ (AcceptQueued(fd) => AcceptQueued(fd)')
      BY <2>9, <1>a, TakeType, TakeKeepsAccept DEF OnThreadExit
    <3> QED
      BY <2>9, <3>1, <1>c, LeakFrame DEF OnThreadExit
  <2>10. CASE JoinReturns
    <3>1. open[fd] # 0 /\ (fd \in Mapped => fd \in Mapped')
      BY <2>10, <1>c, <1>d DEF JoinReturns
    <3> QED
      BY <2>10, <3>1, <1>b, LeakFrame DEF JoinReturns
  <2>11. CASE OnIdleTimer
    <3>1. mt.pc = "wait" /\ (AcceptQueued(fd) => AcceptQueued(fd)')
      BY <2>11, <1>a, TakeType, TakeKeepsAccept DEF OnIdleTimer
    <3> QED
      BY <2>11, <3>1, <1>c, LeakFrame DEF OnIdleTimer
  <2>12. ASSUME NEW g \in Fd, ScanClosesNext(g) PROVE Goal
    <3>1. AcceptQueued(fd) => AcceptQueued(fd)'
      BY <2>12, <1>a, SendKeepsAccept DEF ScanClosesNext
    <3> QED
      BY <2>12, <3>1, <1>c, LeakFrame DEF ScanClosesNext
  <2>13. CASE ScanEnds
    BY <2>13, <1>b, <1>c, LeakFrame DEF ScanEnds
  <2>14. CASE ErasesNoThread
    <3>1. mt.fd \in Fd
      BY <2>14 DEF ErasesNoThread, TypeOK, MessageThreadOK
    <3>2. fd # mt.fd /\ open[fd] # 0 /\ (fd \in Mapped => fd \in Mapped')
      BY <2>14, <3>1, <1>d DEF ErasesNoThread
    <3> QED
      BY <2>14, <3>2, <1>b, LeakFrame DEF ErasesNoThread
  <2> QED
    BY <1>12, <2>1, <2>2, <2>3, <2>4, <2>5, <2>7, <2>8, <2>9, <2>10, <2>11, <2>12, <2>13,
       <2>14
    DEF MessageThread
<1> QED
  BY <1>1, <1>2, <1>3, <1>4, <1>5, <1>6, <1>7, <1>8, <1>9, <1>10, <1>11, <1>12
  DEF Next, Environment, AcceptThread

\* No descriptor leaks: whatever the interleaving of the threads, and whichever
\* client a stale message strikes, an open client descriptor is in the map or on
\* its way into it, where the handlers can still close it.
THEOREM NoLeak == Spec => []NoDescriptorLeak
<1>1. Init => NoDescriptorLeak
  BY DEF Init, NoDescriptorLeak
<1>2. QED
  BY <1>1, LeakStep, TypeCorrect, PTL DEF Spec

-----------------------------------------------------------------------------
(* How far the clients can pass MAX_CLIENT *)

\* The descriptors named by queued ACCEPT messages.
Queued == {fd \in Fd : AcceptQueued(fd)}

InMessageHand == {fd \in Fd : mt.pc = "store" /\ mt.fd = fd}

\* A client that is in the map or will be, past the check of the limit.
Into(fd) ==
    \/ fd \in Mapped
    \/ AcceptQueued(fd)
    \/ mt.pc = "store" /\ mt.fd = fd
    \/ at.pc = "send" /\ at.fd = fd

Admitted == {fd \in Fd : Into(fd)}

\* The strengthening of AdmissionBound: it counts the clients in flight too.
FlightBound ==
    /\ Len(queue) <= QCap
    /\ Cardinality(Admitted) <= MaxClient + QCap + 1

\* The sets of descriptors are finite.
LEMMA DescriptorsFinite ==
    ASSUME NEW S \in SUBSET Fd
    PROVE  IsFiniteSet(S) /\ Cardinality(S) \in Nat
BY ConstantsOK, FS_Subset, FS_CardinalityType

\* The queue names no more descriptors than it holds messages.
LEMMA QueuedCount == TypeOK => Cardinality(Queued) <= Len(queue)
<1> SUFFICES ASSUME TypeOK PROVE Cardinality(Queued) <= Len(queue)
  OBVIOUS
<1> DEFINE S == {i \in 1..Len(queue) : queue[i].cmd = "accept" /\ queue[i].id \in Fd}
           f == [i \in S |-> queue[i].id]
<1>1. IsFiniteSet(1..Len(queue)) /\ Cardinality(1..Len(queue)) = Len(queue)
  BY FS_Interval DEF TypeOK
<1>2. IsFiniteSet(S) /\ Cardinality(S) <= Len(queue)
  BY <1>1, FS_Subset
<1>3. f \in Surjection(S, Queued)
  <2>1. f \in [S -> Queued]
    BY DEF Queued, AcceptQueued, TypeOK
  <2>2. ASSUME NEW fd \in Queued PROVE \E i \in S : f[i] = fd
    BY DEF Queued, AcceptQueued, TypeOK
  <2> QED
    BY <2>1, <2>2 DEF Surjection
<1>4. Cardinality(Queued) <= Cardinality(S)
  BY <1>2, <1>3, FS_Surjection
<1> QED
  BY <1>2, <1>4, DescriptorsFinite, FS_CardinalityType DEF TypeOK, Queued

\* A set of at most one descriptor.
LEMMA AtMostOne ==
    ASSUME NEW P, NEW x, NEW S, S = {fd \in Fd : P /\ x = fd}
    PROVE  IsFiniteSet(S) /\ Cardinality(S) \in {0, 1}
<1>1. S = {} \/ S = {x}
  OBVIOUS
<1>2. IsFiniteSet({}) /\ Cardinality({}) = 0
  BY FS_EmptySet
<1>3. IsFiniteSet({x}) /\ Cardinality({x}) = 1
  BY FS_Singleton
<1> QED
  BY <1>1, <1>2, <1>3

\* A union has no more elements than its parts together.
LEMMA UnionCount ==
    ASSUME NEW S \in SUBSET Fd, NEW T \in SUBSET Fd
    PROVE  Cardinality(S \cup T) <= Cardinality(S) + Cardinality(T)
<1>1. IsFiniteSet(S) /\ IsFiniteSet(T) /\ IsFiniteSet(S \cap T)
  BY DescriptorsFinite
<1>2. /\ Cardinality(S \cup T) = Cardinality(S) + Cardinality(T) - Cardinality(S \cap T)
      /\ Cardinality(S \cap T) \in Nat /\ Cardinality(S) \in Nat /\ Cardinality(T) \in Nat
  BY <1>1, FS_Union, FS_CardinalityType
<1> QED
  BY <1>2

\* A client that passes the check of the limit leaves room for those in flight.
LEMMA CheckAdmits ==
    ASSUME TypeOK, Len(queue) <= QCap, ~Full
    PROVE  Cardinality(((Mapped \cup Queued) \cup InMessageHand)
                           \cup {fd \in Fd : TRUE /\ at.fd = fd})
               <= MaxClient + QCap + 1
<1> DEFINE H == InMessageHand
           A == {fd \in Fd : TRUE /\ at.fd = fd}
<1>1. /\ Mapped \in SUBSET Fd /\ Queued \in SUBSET Fd /\ H \in SUBSET Fd
      /\ A \in SUBSET Fd
  BY DEF Mapped, Queued, InMessageHand
<1>2. Cardinality(H) \in {0, 1} /\ Cardinality(A) \in {0, 1}
  BY AtMostOne DEF InMessageHand
<1>3. Cardinality(Mapped) + 1 <= MaxClient /\ Cardinality(Mapped) \in Nat
  BY <1>1, DescriptorsFinite, ConstantsOK DEF Full
<1>4. Cardinality(Queued) <= QCap /\ Cardinality(Queued) \in Nat
  <2>1. Cardinality(Queued) <= Len(queue) /\ Len(queue) \in Nat
    BY QueuedCount DEF TypeOK
  <2> QED
    BY <1>1, <2>1, DescriptorsFinite, ConstantsOK
<1> HIDE DEF H, A
<1>5. Cardinality(Mapped \cup Queued) <= Cardinality(Mapped) + Cardinality(Queued)
  BY <1>1, UnionCount
<1>6. Cardinality((Mapped \cup Queued) \cup H) <= Cardinality(Mapped \cup Queued) + Cardinality(H)
  BY <1>1, UnionCount
<1>7. Cardinality(((Mapped \cup Queued) \cup H) \cup A)
          <= Cardinality((Mapped \cup Queued) \cup H) + Cardinality(A)
  BY <1>1, UnionCount
<1>8. /\ Cardinality(Mapped \cup Queued) \in Nat
      /\ Cardinality((Mapped \cup Queued) \cup H) \in Nat
      /\ Cardinality(((Mapped \cup Queued) \cup H) \cup A) \in Nat
  BY <1>1, DescriptorsFinite
<1>9. Cardinality(((Mapped \cup Queued) \cup H) \cup A) <= MaxClient + QCap + 1
  BY <1>2, <1>3, <1>4, <1>5, <1>6, <1>7, <1>8, ConstantsOK
<1> QED
  BY <1>9 DEF H, A

\* A message that is sent needs room, and only an ACCEPT message names a client
\* for the map.
LEMMA SendAdmitsNone ==
    ASSUME TypeOK, NEW cmd, NEW id, NEW c, cmd # "accept", sendMessage(cmd, id, c)
    PROVE  Len(queue') <= QCap /\ \A fd : AcceptQueued(fd)' => AcceptQueued(fd)
<1>1. queue \in Seq(Message) /\ QCap \in Nat
  BY ConstantsOK DEF TypeOK
<1>2. Len(queue') <= QCap
  BY <1>1 DEF sendMessage
<1>3. ASSUME NEW fd, AcceptQueued(fd)' PROVE AcceptQueued(fd)
  <2>1. PICK i \in DOMAIN queue' : queue'[i].cmd = "accept" /\ queue'[i].id = fd
    BY <1>3 DEF AcceptQueued
  <2>2. i # Len(queue) + 1
    BY <2>1, <1>1 DEF sendMessage, Msg
  <2>3. i \in DOMAIN queue /\ queue'[i] = queue[i]
    BY <2>1, <2>2, <1>1 DEF sendMessage
  <2> QED
    BY <2>1, <2>3 DEF AcceptQueued
<1> QED
  BY <1>2, <1>3

\* Taking a message leaves those behind it.
LEMMA TakeAdmitsNone ==
    ASSUME TypeOK, Len(queue) <= QCap, NEW cmd, Takes(cmd)
    PROVE  /\ Len(queue') <= QCap
           /\ \A fd : AcceptQueued(fd)' => AcceptQueued(fd)
           /\ cmd = "accept" => AcceptQueued(Head(queue).id)
           /\ mt.pc = "wait"
<1>1. queue \in Seq(Message) /\ QCap \in Nat /\ queue # <<>> /\ queue' = Tail(queue)
  BY ConstantsOK DEF TypeOK, Takes
<1>2. Len(queue') <= QCap
  BY <1>1
<1>3. ASSUME NEW fd, AcceptQueued(fd)' PROVE AcceptQueued(fd)
  <2>1. PICK i \in DOMAIN queue' : queue'[i].cmd = "accept" /\ queue'[i].id = fd
    BY <1>3 DEF AcceptQueued
  <2>2. i + 1 \in DOMAIN queue /\ queue'[i] = queue[i + 1]
    BY <2>1, <1>1
  <2> QED
    BY <2>1, <2>2 DEF AcceptQueued
<1>4. cmd = "accept" => AcceptQueued(Head(queue).id)
  <2>1. 1 \in DOMAIN queue /\ Head(queue) = queue[1]
    BY <1>1
  <2> QED
    BY <2>1 DEF Takes, AcceptQueued
<1> QED
  BY <1>2, <1>3, <1>4 DEF Takes

\* A step that admits no client keeps the bound.
LEMMA FlightFrame ==
    ASSUME FlightBound, Len(queue') <= QCap, \A fd \in Fd : Into(fd)' => Into(fd)
    PROVE  FlightBound'
<1>1. Admitted' \in SUBSET Admitted /\ Admitted \in SUBSET Fd
  BY DEF Admitted
<1>2. IsFiniteSet(Admitted) /\ Cardinality(Admitted) \in Nat
  BY <1>1, DescriptorsFinite
<1>3. Cardinality(Admitted') <= Cardinality(Admitted) /\ Cardinality(Admitted') \in Nat
  BY <1>1, <1>2, FS_Subset, FS_CardinalityType
<1> QED
  BY <1>2, <1>3, ConstantsOK DEF FlightBound

\* Forgetting a client admits none.
LEMMA EraseAdmitsNone ==
    ASSUME TypeOK, NEW g \in Fd, eraseClient(g), NEW fd \in Mapped'
    PROVE  fd \in Mapped
BY DEF eraseClient, TypeOK, Mapped

\* The bound survives every step: only the check of the limit admits a client.
LEMMA FlightStep == TypeOK /\ FlightBound /\ [Next]_vars => FlightBound'
<1> SUFFICES ASSUME TypeOK, FlightBound, [Next]_vars PROVE FlightBound'
  OBVIOUS
<1> DEFINE Goal == FlightBound'
<1>a. Len(queue) <= QCap /\ queue \in Seq(Message)
  BY DEF FlightBound, TypeOK
<1>b. UNCHANGED queue => Len(queue') <= QCap /\ \A fd : AcceptQueued(fd)' => AcceptQueued(fd)
  BY <1>a DEF AcceptQueued
<1>c. UNCHANGED client => \A fd : fd \in Mapped' => fd \in Mapped
  BY DEF Mapped
<1>1. CASE UNCHANGED vars
  BY <1>1, <1>b, <1>c, FlightFrame DEF vars, Into
<1>2. ASSUME NEW c \in Conn, PeerCloses(c) PROVE Goal
  BY <1>2, <1>b, <1>c, FlightFrame DEF PeerCloses, Into
<1>3. ASSUME NEW g \in Fd, GrowsIdle(g) PROVE Goal
  <2>1. \A fd : fd \in Mapped' => fd \in Mapped
    BY <1>3 DEF GrowsIdle, TypeOK, Mapped
  <2> QED
    BY <1>3, <1>b, <2>1, FlightFrame DEF GrowsIdle, Into
<1>4. CASE IdleTimerExpires
  BY <1>4, <1>c, SendAdmitsNone, FlightFrame DEF IdleTimerExpires, Into
<1>5. ASSUME NEW g \in Fd, socketAccept(g) PROVE Goal
  BY <1>5, <1>b, <1>c, FlightFrame DEF socketAccept, Into
<1>6. ASSUME NEW t \in Thread, RecvReturnsData(t) PROVE Goal
  BY <1>6, <1>b, <1>c, FlightFrame DEF RecvReturnsData, Into
<1>7. ASSUME NEW g \in Fd, CloseClientFinds(g) PROVE Goal
  BY <1>7, <1>b, <1>c, FlightFrame DEF CloseClientFinds, Into
<1>8. CASE CheckLimit
  <2>1. CASE Full
    <3>1. at'.pc # "send" /\ UNCHANGED <<queue, client, mt>>
      BY <1>8, <2>1 DEF CheckLimit
    <3> QED
      BY <3>1, <1>b, <1>c, FlightFrame DEF Into
  <2>2. CASE ~Full
    <3>1. at'.fd = at.fd /\ at'.pc = "send" /\ UNCHANGED <<queue, client, mt>>
      BY <1>8, <2>2 DEF CheckLimit, TypeOK, AcceptThreadOK
    <3>2. Admitted' = ((Mapped \cup Queued) \cup InMessageHand)
                           \cup {fd \in Fd : TRUE /\ at.fd = fd}
      BY <3>1 DEF Admitted, Into, Queued, InMessageHand, AcceptQueued, Mapped
    <3> QED
      BY <1>a, <1>b, <2>2, <3>1, <3>2, CheckAdmits DEF FlightBound
  <2> QED
    BY <2>1, <2>2
<1>9. CASE SendAccept
  <2>1. Len(queue') <= QCap
    BY <1>9, <1>a, ConstantsOK DEF SendAccept, sendMessage
  <2>2. ASSUME NEW fd, AcceptQueued(fd)' PROVE AcceptQueued(fd) \/ fd = at.fd
    <3>1. PICK i \in DOMAIN queue' : queue'[i].cmd = "accept" /\ queue'[i].id = fd
      BY <2>2 DEF AcceptQueued
    <3>2. CASE i = Len(queue) + 1
      BY <1>9, <1>a, <3>1, <3>2 DEF SendAccept, sendMessage, Msg
    <3>3. CASE i # Len(queue) + 1
      <4>1. i \in DOMAIN queue /\ queue'[i] = queue[i]
        BY <1>9, <1>a, <3>1, <3>3 DEF SendAccept, sendMessage
      <4> QED
        BY <3>1, <4>1 DEF AcceptQueued
    <3> QED
      BY <3>2, <3>3
  <2> QED
    BY <1>9, <1>c, <2>1, <2>2, FlightFrame DEF SendAccept, Into
<1>10. ASSUME NEW t \in Thread, ReceiveThread(t) PROVE Goal
  <2>1. ASSUME NEW from \in {"connect", "receive", "alive", "disconnect", "exit"},
               NEW id, NEW to, ThreadSends(t, from, id, to)
        PROVE  Goal
    BY <2>1, <1>c, SendAdmitsNone, FlightFrame DEF ThreadSends, Into
  <2>2. CASE UNCHANGED <<queue, client, at, mt>>
    BY <2>2, <1>b, <1>c, FlightFrame DEF Into
  <2>3. \/ UNCHANGED <<queue, client, at, mt>>
        \/ \E from \in {"connect", "receive", "alive", "disconnect", "exit"} :
               \E id, to : ThreadSends(t, from, id, to)
    BY <1>10 DEF ReceiveThread, LooksUpSelf, SendConnect, SendReceive, SendAlive,
       SendDisconnect, SendThreadExit, EntersRecv, RecvReturnsEnd, CancelPoint
  <2> QED
    BY <2>1, <2>2, <2>3
<1>11. CASE CloseClientSends
  BY <1>11, <1>c, SendAdmitsNone, FlightFrame DEF CloseClientSends, Into
<1>12. CASE MessageThread
  <2>1. ASSUME NEW t \in Thread, OnAccept(t) PROVE Goal
    <3>1. Head(queue).id \in Fd
      BY <2>1, <1>a, TakeType DEF OnAccept, Command
    <3>2. mt'.fd = Head(queue).id
      BY <2>1 DEF OnAccept, Waiting
    <3>3. \A fd : fd \in Mapped' => fd \in Mapped \/ fd = Head(queue).id
      BY <2>1, <3>1 DEF OnAccept, Mapped, TypeOK
    <3> QED
      BY <2>1, <1>a, <3>2, <3>3, TakeAdmitsNone, FlightFrame DEF OnAccept, Into
  <2>2. CASE OnAcceptNoThread
    <3>1. Head(queue).id \in Fd
      BY <2>2, <1>a, TakeType DEF OnAcceptNoThread, Command
    <3>2. mt'.fd = Head(queue).id
      BY <2>2 DEF OnAcceptNoThread, Waiting
    <3>3. \A fd : fd \in Mapped' => fd \in Mapped \/ fd = Head(queue).id
      BY <2>2, <3>1 DEF OnAcceptNoThread, Mapped, TypeOK
    <3> QED
      BY <2>2, <1>a, <3>2, <3>3, TakeAdmitsNone, FlightFrame DEF OnAcceptNoThread, Into
  <2>3. CASE StoreThread
    <3>1. \A fd : fd \in Mapped' => fd \in Mapped \/ fd = mt.fd
      BY <2>3 DEF StoreThread, TypeOK, Mapped
    <3>2. mt'.pc # "store" /\ mt.pc = "store"
      BY <2>3 DEF StoreThread, Waiting
    <3> QED
      BY <2>3, <3>1, <3>2, <1>b, FlightFrame DEF StoreThread, Into
  <2>4. CASE OnConnectOrAlive
    <3>1. \A fd : fd \in Mapped' => fd \in Mapped
      BY <2>4 DEF OnConnectOrAlive, updateClientAlive, TypeOK, Mapped
    <3> QED
      BY <2>4, <1>a, <3>1, TakeAdmitsNone, FlightFrame DEF OnConnectOrAlive, Into
  <2>5. CASE OnServerReceive
    BY <2>5, <1>a, <1>c, TakeAdmitsNone, FlightFrame DEF OnServerReceive, Into
  <2>6. ASSUME NEW cmd \in Command \ {"accept", "exit", "timer"}, Takes(cmd), UNCHANGED at,
               \/ eraseClient(Head(queue).id) /\ UNCHANGED mt
               \/ UNCHANGED client /\ mt'.pc = "join"
        PROVE  Goal
    <3>1. Head(queue).id \in Fd
      BY <2>6, <1>a, TakeType
    <3>2. \A fd : fd \in Mapped' => fd \in Mapped
      BY <2>6, <1>c, <3>1, EraseAdmitsNone
    <3> QED
      BY <2>6, <1>a, <3>2, TakeAdmitsNone, FlightFrame DEF Into
  <2>7. CASE OnDisconnect
    BY <2>6, <2>7 DEF OnDisconnect, JoinThen, Waiting, Command
  <2>8. CASE OnClientClose
    BY <2>6, <2>8 DEF OnClientClose, JoinThen, Waiting, Command
  <2>9. CASE OnThreadExit
    BY <2>9, <1>a, <1>c, TakeAdmitsNone, FlightFrame DEF OnThreadExit, JoinThen, Waiting, Into
  <2>10. CASE JoinReturns
    <3>1. \A fd : fd \in Mapped' => fd \in Mapped
      BY <2>10, <1>c, EraseAdmitsNone DEF JoinReturns
    <3>2. mt'.pc # "store"
      BY <2>10 DEF JoinReturns, Waiting
    <3> QED
      BY <2>10, <3>1, <3>2, <1>b, FlightFrame DEF JoinReturns, Into
  <2>11. CASE OnIdleTimer
    BY <2>11, <1>a, <1>c, TakeAdmitsNone, FlightFrame DEF OnIdleTimer, Waiting, Into
  <2>12. ASSUME NEW g \in Fd, ScanClosesNext(g) PROVE Goal
    <3>1. mt'.pc # "store"
      BY <2>12 DEF ScanClosesNext, TypeOK, MessageThreadOK, MsgThreadState
    <3> QED
      BY <2>12, <3>1, <1>c, SendAdmitsNone, FlightFrame DEF ScanClosesNext, Into
  <2>13. CASE ScanEnds
    BY <2>13, <1>b, <1>c, FlightFrame DEF ScanEnds, Waiting, Into
  <2>14. CASE ErasesNoThread
    <3>1. mt.fd \in Fd
      BY <2>14 DEF ErasesNoThread, TypeOK, MessageThreadOK
    <3>2. \A fd : fd \in Mapped' => fd \in Mapped
      BY <2>14, <3>1, EraseAdmitsNone DEF ErasesNoThread
    <3>3. mt'.pc # "store"
      BY <2>14 DEF ErasesNoThread, Waiting
    <3> QED
      BY <2>14, <3>2, <3>3, <1>b, FlightFrame DEF ErasesNoThread, Into
  <2> QED
    BY <1>12, <2>1, <2>2, <2>3, <2>4, <2>5, <2>7, <2>8, <2>9, <2>10, <2>11, <2>12, <2>13,
       <2>14
    DEF MessageThread
<1> QED
  BY <1>1, <1>2, <1>3, <1>4, <1>5, <1>6, <1>7, <1>8, <1>9, <1>10, <1>11, <1>12
  DEF Next, Environment, AcceptThread

\* The number of clients passes MAX_CLIENT by no more than the queue holds, and
\* one more: the accept thread compares the limit with a map that lacks the
\* clients it has already let in, however slow the message thread is.
THEOREM AdmissionBoundHolds == Spec => []AdmissionBound
<1>1. Init => FlightBound
  <2> SUFFICES ASSUME Init PROVE FlightBound
    OBVIOUS
  <2>1. Admitted = {}
    BY DEF Init, Admitted, Into, Mapped, AcceptQueued, Waiting
  <2>2. Cardinality(Admitted) = 0
    BY <2>1, FS_EmptySet
  <2> QED
    BY <2>2, ConstantsOK DEF FlightBound, Init
<1>2. FlightBound => AdmissionBound
  <2> SUFFICES ASSUME FlightBound PROVE AdmissionBound
    OBVIOUS
  <2>1. Mapped \in SUBSET Admitted /\ Admitted \in SUBSET Fd /\ Mapped \in SUBSET Fd
    BY DEF Mapped, Admitted, Into
  <2>2. /\ IsFiniteSet(Admitted) /\ Cardinality(Admitted) \in Nat
        /\ Cardinality(Mapped) \in Nat
    BY <2>1, DescriptorsFinite
  <2>3. Cardinality(Mapped) <= Cardinality(Admitted)
    BY <2>1, <2>2, FS_Subset
  <2> QED
    BY <2>2, <2>3, ConstantsOK DEF FlightBound, AdmissionBound
<1> QED
  BY <1>1, <1>2, FlightStep, TypeCorrect, PTL DEF Spec

=============================================================================
