------------------------- MODULE ConnectionsProofs --------------------------
(***************************************************************************)
(* TcpServer keeps the promise of Connections, for every set of descriptors *)
(* and thread ids, every queue capacity and every bound.                    *)
(*                                                                          *)
(* While no message has struck a client it was not sent about, a connection *)
(* is in one place at a time: in the hand of the accept thread, in a queued *)
(* ACCEPT message, in the hand of the message thread, or in the map.  The   *)
(* parts of Undisturbed follow it through these places, with the thread     *)
(* that serves it and the messages that speak of it.                        *)
(***************************************************************************)
EXTENDS TcpServerProofs

IsAccept(i) == queue[i].cmd = "accept"

FromReader(i) == queue[i].cmd \in {"connect", "receive", "alive"}

IsAbout(i) == queue[i].cmd \notin {"accept", "timer"}

Storing(fd) == mt.pc = "store" /\ mt.fd = fd

Active(t) == th[t].pc \notin {"free", "exited"}

\* The kernel gives a connection one descriptor.
OpensOnce ==
    /\ \A fd \in Fd : open[fd] <= used.conn
    /\ \A fd, g \in Fd : open[fd] # 0 /\ open[fd] = open[g] => fd = g

\* A client in the hand of the accept thread is nowhere else.
HandOK ==
    at.pc # "accept" =>
        /\ open[at.fd] = at.conn
        /\ client[at.fd] = Absent
        /\ ~Storing(at.fd)
        /\ \A i \in DOMAIN queue : IsAccept(i) => queue[i].id # at.fd

\* A client named by a queued ACCEPT message is nowhere else.
AcceptsOK ==
    /\ \A i \in DOMAIN queue : IsAccept(i) =>
        /\ open[queue[i].id] = queue[i].conn
        /\ client[queue[i].id] = Absent
        /\ ~Storing(queue[i].id)
    /\ \A i, j \in DOMAIN queue :
        IsAccept(i) /\ IsAccept(j) /\ queue[i].id = queue[j].id => i = j

\* An entry describes its descriptor and names the thread of its connection.
EntriesOK ==
    \A fd \in Fd : client[fd] # Absent =>
        /\ open[fd] = client[fd].conn
        /\ client[fd].thread = NoThread => Storing(fd)
        /\ client[fd].thread # NoThread =>
            /\ th[client[fd].thread].pc # "free"
            /\ th[client[fd].thread].own = client[fd].conn

\* The entry the message thread works on names no thread yet; the thread it is about
\* to store, if there is one, serves what it was made for.
StoreOK ==
    mt.pc = "store" =>
        /\ open[mt.fd] = mt.conn
        /\ client[mt.fd].thread = NoThread
        /\ mt.thread # NoThread =>
            /\ th[mt.thread].pc # "free"
            /\ th[mt.thread].own = mt.conn

\* The thread that is joined is the thread of the client that is closed.
JoinOK ==
    /\ mt.pc = "join" /\ mt.fd # 0 => client[mt.fd].thread = mt.thread
    /\ mt.pc \in {"wait", "scan"} => mt.thread = NoThread

\* A thread that knows its descriptor is the thread of the entry.
ThreadsServe ==
    \A t \in Thread :
        /\ th[t].pc = "free" => th[t] = Free
        /\ th[t].pc \in {"start", "exit"} => th[t].fd = 0
        /\ Active(t) /\ th[t].fd # 0 => client[th[t].fd].thread = t
        /\ th[t].pc = "blocked" => th[t].reads = th[t].own

\* Connection c was given to a thread: no ACCEPT of it is to come.
Settled(c) ==
    /\ c <= used.conn
    /\ at.pc # "accept" => c # at.conn
    /\ \A i \in DOMAIN queue : IsAccept(i) => c # queue[i].conn

\* A connection is given to one thread, after its ACCEPT message was taken.
OwnsOnce ==
    /\ \A t, u \in Thread : th[t].own # 0 /\ th[t].own = th[u].own => t = u
    /\ \A t \in Thread : Settled(th[t].own)

\* Messages speak of clients whose ACCEPT message was taken.
MessagesSettled ==
    /\ \A i \in DOMAIN queue : IsAbout(i) => Settled(queue[i].conn)
    /\ app.pc = "send" => Settled(app.conn)

\* The messages of a receive thread come before the ACCEPT of the next client with
\* the same descriptor.
MessagesOrdered ==
    \A i \in DOMAIN queue : FromReader(i) =>
        /\ client[queue[i].id] # Absent => client[queue[i].id].conn = queue[i].conn
        /\ ~Storing(queue[i].id)
        /\ \A j \in DOMAIN queue :
            IsAccept(j) /\ queue[j].id = queue[i].id => i < j

AllReachable == \A t \in Thread : th[t].pc # "free" => ThreadIsReachable(t)

Undisturbed ==
    /\ OpensOnce
    /\ HandOK
    /\ AcceptsOK
    /\ EntriesOK
    /\ StoreOK
    /\ JoinOK
    /\ ThreadsServe
    /\ OwnsOnce
    /\ MessagesSettled
    /\ MessagesOrdered
    /\ AllReachable

-----------------------------------------------------------------------------
(* What a step does to the queue *)

\* Every ACCEPT message of the next state was k places further back.
AcceptsCarried(k) ==
    \A i \in DOMAIN queue' : queue'[i].cmd = "accept" =>
        i + k \in DOMAIN queue /\ queue'[i] = queue[i + k]

\* Every message of the next state was k places further back.
Carried(k) ==
    \A i \in DOMAIN queue' : i + k \in DOMAIN queue /\ queue'[i] = queue[i + k]

\* The queue has grown by m at its end, or not at all.
Grown(m) ==
    /\ DOMAIN queue \subseteq DOMAIN queue'
    /\ \A i \in DOMAIN queue : queue'[i] = queue[i]
    /\ \A i \in DOMAIN queue' : i \notin DOMAIN queue =>
        /\ queue'[i] = m
        /\ \A j \in DOMAIN queue : j < i

\* A message sent is the last of the queue.
LEMMA SendGrows ==
    ASSUME queue \in Seq(Message), NEW cmd, NEW id, NEW c, sendMessage(cmd, id, c)
    PROVE  /\ Grown(Msg(cmd, id, c))
           /\ cmd # "accept" => AcceptsCarried(0)
           /\ Len(queue) + 1 \in DOMAIN queue'
           /\ queue'[Len(queue) + 1] = Msg(cmd, id, c)
<1>1. /\ DOMAIN queue' = 1..(Len(queue) + 1)
      /\ DOMAIN queue = 1..Len(queue)
      /\ Len(queue) \in Nat
      /\ \A i \in DOMAIN queue' : queue'[i] = IF i \in DOMAIN queue THEN queue[i] ELSE Msg(cmd, id, c)
  BY DEF sendMessage
<1>2. Grown(Msg(cmd, id, c))
  BY <1>1 DEF Grown
<1>3. cmd # "accept" => AcceptsCarried(0)
  BY <1>1 DEF AcceptsCarried, Msg
<1> QED
  BY <1>1, <1>2, <1>3

\* A message taken was the first; the others move one place forward.
LEMMA TakeCarries ==
    ASSUME queue \in Seq(Message), NEW cmd, Takes(cmd)
    PROVE  /\ Carried(1)
           /\ AcceptsCarried(1)
           /\ 1 \in DOMAIN queue
           /\ Head(queue) = queue[1]
           /\ \A i \in DOMAIN queue : i # 1 => i - 1 \in DOMAIN queue' /\ queue'[i - 1] = queue[i]
           /\ DOMAIN queue \subseteq Nat \ {0}
           /\ DOMAIN queue' \subseteq Nat \ {0}
<1>1. /\ DOMAIN queue = 1..Len(queue)
      /\ Len(queue) \in Nat \ {0}
      /\ DOMAIN queue' = 1..(Len(queue) - 1)
      /\ \A i \in DOMAIN queue' : queue'[i] = queue[i + 1]
      /\ Head(queue) = queue[1]
  BY DEF Takes
<1> QED
  BY <1>1 DEF Carried, AcceptsCarried

\* A step that leaves the queue alone carries every message.
LEMMA StillCarries ==
    ASSUME queue \in Seq(Message), UNCHANGED queue
    PROVE  Carried(0) /\ AcceptsCarried(0)
BY DEF Carried, AcceptsCarried

\* The fields of a queued message.
LEMMA MessageFacts ==
    ASSUME queue \in Seq(Message), NEW i \in DOMAIN queue
    PROVE  /\ i \in Nat \ {0}
           /\ queue[i] \in Message
           /\ IsAccept(i) \/ FromReader(i) => queue[i].id \in Fd
           /\ queue[i].cmd # "timer" => queue[i].conn \in Conn
<1>1. queue[i] \in Message /\ i \in Nat \ {0}
  OBVIOUS
<1> QED
  BY <1>1 DEF Message, IsAccept, FromReader, Command

-----------------------------------------------------------------------------
(* What a step leaves alone *)

\* Every thread keeps its connection, and stays free or not free.
SameThreads ==
    \A t \in Thread : th'[t].own = th[t].own /\ (th'[t].pc = "free" <=> th[t].pc = "free")

\* The map holds the same clients, apart from their alive times.
SameClients ==
    \A fd \in Fd :
        /\ client'[fd] = Absent <=> client[fd] = Absent
        /\ client'[fd].thread = client[fd].thread
        /\ client'[fd].conn = client[fd].conn

\* No connection moves: the map, the kernel table and the two hands are the same.
NoneMoves ==
    /\ UNCHANGED <<open, at>>
    /\ SameClients
    /\ used'.conn = used.conn
    /\ mt.pc = "store" \/ mt'.pc = "store" => mt' = mt

\* A connection that no ACCEPT of the next state names stays settled.
LEMMA SettledFrame ==
    ASSUME NEW c, NEW k \in {0, 1}, AcceptsCarried(k), UNCHANGED at,
           used'.conn = used.conn, Settled(c)
    PROVE  Settled(c)'
BY DEF Settled, IsAccept, AcceptsCarried

\* Where no connection moves, every client stays in its place.
LEMMA PlacesFrame ==
    ASSUME queue \in Seq(Message), queue' \in Seq(Message), OpensOnce, HandOK, AcceptsOK,
           EntriesOK, StoreOK, TypeOK,
           NEW k \in {0, 1}, AcceptsCarried(k), NoneMoves, SameThreads
    PROVE  OpensOnce' /\ HandOK' /\ AcceptsOK' /\ EntriesOK' /\ StoreOK'
<1>1. OpensOnce'
  BY DEF OpensOnce, NoneMoves
<1>2. HandOK'
  <2>1. at.pc # "accept" => at.fd \in Fd
    BY DEF TypeOK, AcceptThreadOK
  <2> QED
    BY <2>1 DEF HandOK, NoneMoves, SameClients, AcceptsCarried, IsAccept, Storing
<1>3. AcceptsOK'
  <2>1. \A i \in DOMAIN queue' : i \in Nat
    OBVIOUS
  <2>2. \A i \in DOMAIN queue : IsAccept(i) => queue[i].id \in Fd
    BY MessageFacts
  <2>3. \A i \in DOMAIN queue' : IsAccept(i)' =>
          /\ open'[queue'[i].id] = queue'[i].conn
          /\ client'[queue'[i].id] = Absent
          /\ ~(mt'.pc = "store" /\ mt'.fd = queue'[i].id)
    BY <2>2 DEF AcceptsOK, NoneMoves, SameClients, AcceptsCarried, IsAccept, Storing
  <2> QED
    BY <2>1, <2>3 DEF AcceptsOK, AcceptsCarried, IsAccept, Storing
<1>4. EntriesOK'
  <2> SUFFICES ASSUME NEW fd \in Fd, client'[fd] # Absent
               PROVE  /\ open'[fd] = client'[fd].conn
                      /\ client'[fd].thread = NoThread => mt'.pc = "store" /\ mt'.fd = fd
                      /\ client'[fd].thread # NoThread =>
                           /\ th'[client'[fd].thread].pc # "free"
                           /\ th'[client'[fd].thread].own = client'[fd].conn
    BY DEF EntriesOK, Storing
  <2>1. /\ client[fd] # Absent
        /\ client'[fd].thread = client[fd].thread
        /\ client'[fd].conn = client[fd].conn
    BY DEF NoneMoves, SameClients
  <2>2. client[fd].thread \in Thread \cup {NoThread}
    BY <2>1 DEF TypeOK, Entry
  <2> QED
    BY <2>1, <2>2 DEF EntriesOK, NoneMoves, SameThreads, Storing
<1>5. StoreOK'
  BY DEF StoreOK, NoneMoves, SameClients, SameThreads, TypeOK, MessageThreadOK,
     MsgThreadState
<1> QED
  BY <1>1, <1>2, <1>3, <1>4, <1>5

\* Threads keep what they own while no ACCEPT is sent.
LEMMA OwnsFrame ==
    ASSUME OwnsOnce, SameThreads, NEW k \in {0, 1}, AcceptsCarried(k),
           UNCHANGED at, used'.conn = used.conn
    PROVE  OwnsOnce'
BY SettledFrame DEF OwnsOnce, SameThreads

\* Messages stay settled while no ACCEPT is sent.
LEMMA MessagesSettledFrame ==
    ASSUME MessagesSettled, NEW k \in {0, 1}, AcceptsCarried(k), UNCHANGED at,
           used'.conn = used.conn,
           \A i \in DOMAIN queue' : IsAbout(i)' =>
               \/ \E j \in DOMAIN queue : queue'[i] = queue[j]
               \/ Settled(queue'[i].conn),
           app'.pc = "send" => app' = app \/ Settled(app'.conn)
    PROVE  MessagesSettled'
<1>1. \A i \in DOMAIN queue' : IsAbout(i)' => Settled(queue'[i].conn)
  BY DEF MessagesSettled, IsAbout
<1>2. app'.pc = "send" => Settled(app'.conn)
  BY DEF MessagesSettled
<1> QED
  BY <1>1, <1>2, SettledFrame DEF MessagesSettled

\* The order of messages and clients survives a step in which every message of a
\* receive thread was there before and no client moves in behind it.
LEMMA OrderedFrame ==
    ASSUME queue \in Seq(Message), queue' \in Seq(Message), MessagesOrdered,
           NEW k \in {0, 1}, AcceptsCarried(k),
           \A i \in DOMAIN queue' : FromReader(i)' =>
               /\ i + k \in DOMAIN queue /\ queue'[i] = queue[i + k]
               /\ client'[queue'[i].id] # Absent =>
                      client'[queue'[i].id].conn = queue'[i].conn
               /\ ~(mt'.pc = "store" /\ mt'.fd = queue'[i].id)
    PROVE  MessagesOrdered'
<1>1. \A i \in DOMAIN queue' : i \in Nat
  OBVIOUS
<1>2. \A i, j \in DOMAIN queue' :
        FromReader(i)' /\ IsAccept(j)' /\ queue'[j].id = queue'[i].id => i < j
  BY <1>1 DEF MessagesOrdered, AcceptsCarried, FromReader, IsAccept
<1> QED
  BY <1>2 DEF MessagesOrdered, Storing

\* The same where no connection moves and no message of a receive thread is sent.
LEMMA OrderedStays ==
    ASSUME queue \in Seq(Message), queue' \in Seq(Message), MessagesOrdered, NoneMoves,
           \/ Carried(1) \/ UNCHANGED queue
           \/ \E m : Grown(m) /\ m.cmd \notin {"accept", "connect", "receive", "alive"}
    PROVE  MessagesOrdered'
<1>1. PICK k \in {0, 1} :
        /\ AcceptsCarried(k)
        /\ \A i \in DOMAIN queue' : FromReader(i)' =>
             i + k \in DOMAIN queue /\ queue'[i] = queue[i + k]
  <2>1. CASE Carried(1)
    BY <2>1 DEF Carried, AcceptsCarried
  <2>2. CASE UNCHANGED queue
    BY <2>2 DEF AcceptsCarried
  <2>3. ASSUME NEW m, Grown(m), m.cmd \notin {"accept", "connect", "receive", "alive"}
        PROVE  /\ AcceptsCarried(0)
               /\ \A i \in DOMAIN queue' : FromReader(i)' =>
                    i + 0 \in DOMAIN queue /\ queue'[i] = queue[i + 0]
    <3>1. \A i \in DOMAIN queue' : i \in Nat
      OBVIOUS
    <3> QED
      BY <2>3, <3>1 DEF Grown, AcceptsCarried, FromReader
  <2> QED
    BY <2>1, <2>2, <2>3
<1>2. \A i \in DOMAIN queue' : FromReader(i)' =>
        /\ client'[queue'[i].id] # Absent => client'[queue'[i].id].conn = queue'[i].conn
        /\ ~(mt'.pc = "store" /\ mt'.fd = queue'[i].id)
  <2>1. \A i \in DOMAIN queue : FromReader(i) => queue[i].id \in Fd
    BY MessageFacts
  <2> QED
    BY <1>1, <2>1 DEF MessagesOrdered, FromReader, NoneMoves, SameClients, Storing
<1> QED
  BY <1>1, <1>2, OrderedFrame

\* A message of a receive thread about its own entry is in order.
LEMMA OrderedSend ==
    ASSUME queue \in Seq(Message), queue' \in Seq(Message), MessagesOrdered, AcceptsOK,
           StoreOK, NoneMoves, UNCHANGED mt, NEW m, Grown(m), m.cmd # "accept",
           m.id \in Fd, client[m.id].thread # NoThread, client[m.id].conn = m.conn
    PROVE  MessagesOrdered'
<1>1. client[m.id] # Absent /\ ~Storing(m.id)
  BY DEF Absent, StoreOK, Storing
<1>2. \A j \in DOMAIN queue : IsAccept(j) => queue[j].id # m.id
  BY <1>1 DEF AcceptsOK
<1>3. \A j \in DOMAIN queue' : IsAccept(j)' => j \in DOMAIN queue /\ queue'[j] = queue[j]
  BY DEF Grown, IsAccept
<1>4. \A i \in DOMAIN queue' :
        \/ i \in DOMAIN queue /\ queue'[i] = queue[i]
        \/ queue'[i] = m
  BY DEF Grown
<1>5. \A i \in DOMAIN queue : FromReader(i) => queue[i].id \in Fd
  BY MessageFacts
<1>6. \A i \in DOMAIN queue' : FromReader(i)' =>
        /\ client'[queue'[i].id] # Absent => client'[queue'[i].id].conn = queue'[i].conn
        /\ ~(mt'.pc = "store" /\ mt'.fd = queue'[i].id)
  BY <1>1, <1>4, <1>5 DEF MessagesOrdered, FromReader, NoneMoves, SameClients, Storing
<1>7. \A i, j \in DOMAIN queue' :
        FromReader(i)' /\ IsAccept(j)' /\ queue'[j].id = queue'[i].id => i < j
  BY <1>2, <1>3, <1>4 DEF MessagesOrdered, FromReader, IsAccept
<1> QED
  BY <1>6, <1>7 DEF MessagesOrdered, Storing

\* A thread that could be joined still can, if what led to it still does.
LEMMA ReachFrame ==
    ASSUME TypeOK, NEW t \in Thread, ThreadIsReachable(t),
           \A fd \in Fd : client[fd].thread = t => client'[fd].thread = t,
           mt.thread = t => ThreadIsReachable(t)',
           th[t].pc = "exit" => ThreadIsReachable(t)',
           (\E i \in DOMAIN queue : queue[i].cmd = "exit" /\ queue[i].id = t)
               => ThreadIsReachable(t)'
    PROVE  ThreadIsReachable(t)'
<1>1. CASE EntriesOf(t) # {}
  <2>1. PICK fd \in Fd : client[fd].thread = t
    BY <1>1 DEF EntriesOf, Mapped
  <2>2. client'[fd].thread = t /\ client'[fd] # Absent
    BY <2>1, ConstantsOK DEF Absent
  <2> QED
    BY <2>2 DEF ThreadIsReachable, EntriesOf, Mapped
<1> QED
  BY <1>1 DEF ThreadIsReachable

\* An exit message that is carried still leads to its thread.
LEMMA ReachQueued ==
    ASSUME NEW t \in Thread, NEW i \in DOMAIN queue, queue[i].cmd = "exit", queue[i].id = t,
           NEW j \in DOMAIN queue', queue'[j] = queue[i]
    PROVE  ThreadIsReachable(t)'
BY DEF ThreadIsReachable

\* Every thread stays within reach where no entry, no thread and no message is lost.
LEMMA AllReachableStays ==
    ASSUME TypeOK, AllReachable,
           \A t \in Thread : th'[t].pc # "free" => th[t].pc # "free",
           \A fd \in Fd : client[fd].thread \in Thread => client'[fd].thread = client[fd].thread,
           mt.thread \in Thread => mt'.thread = mt.thread,
           \A t \in Thread : th[t].pc = "exit" => ThreadIsReachable(t)',
           UNCHANGED queue \/ \E m : Grown(m)
    PROVE  AllReachable'
<1> SUFFICES ASSUME NEW t \in Thread, th'[t].pc # "free"
             PROVE  ThreadIsReachable(t)'
  BY DEF AllReachable
<1>1. ThreadIsReachable(t)
  BY DEF AllReachable
<1>2. mt.thread = t => ThreadIsReachable(t)'
  BY DEF ThreadIsReachable
<1>3. (\E i \in DOMAIN queue : queue[i].cmd = "exit" /\ queue[i].id = t)
          => ThreadIsReachable(t)'
  BY DEF Grown, ThreadIsReachable
<1> QED
  BY <1>1, <1>2, <1>3, ReachFrame

-----------------------------------------------------------------------------
(* The receive threads *)

\* A step of a receive thread keeps the invariant, if the thread moves within its
\* loop, speaks of its own client and stays within reach.
LEMMA ReaderMoves ==
    ASSUME TypeOK, TypeOK', Undisturbed, NEW t \in Thread,
           \A u \in Thread : u # t => th'[u] = th[u],
           th[t].pc # "free", th'[t].pc # "free", th'[t].own = th[t].own,
           UNCHANGED <<client, open, at, mt, app>>, used'.conn = used.conn,
           \/ UNCHANGED queue
           \/ \E m : /\ Grown(m)
                     /\ AcceptsCarried(0)
                     /\ m.cmd # "accept"
                     /\ m.conn = th[t].own
                     /\ m.cmd \in {"connect", "receive", "alive"} =>
                            m.id \in Fd /\ client[m.id].thread = t,
           th'[t].pc \in {"start", "exit"} => th'[t].fd = 0,
           th'[t].pc # "exited" /\ th'[t].fd # 0 => client[th'[t].fd].thread = t,
           th'[t].pc = "blocked" => th'[t].reads = th[t].own,
           th[t].pc = "exit" => ThreadIsReachable(t)'
    PROVE  Undisturbed'
<1> USE DEF Undisturbed
<1>1. queue \in Seq(Message) /\ queue' \in Seq(Message)
  BY DEF TypeOK
<1>2. AcceptsCarried(0)
  BY <1>1 DEF AcceptsCarried
<1>3. NoneMoves
  BY DEF NoneMoves, SameClients
<1>4. SameThreads
  BY DEF SameThreads
<1>5. OpensOnce' /\ HandOK' /\ AcceptsOK' /\ EntriesOK' /\ StoreOK'
  BY <1>1, <1>2, <1>3, <1>4, PlacesFrame
<1>6. JoinOK'
  BY DEF JoinOK
<1>7. ThreadsServe'
  BY DEF ThreadsServe, Active
<1>8. OwnsOnce'
  BY <1>2, <1>4, OwnsFrame
<1>9. MessagesSettled'
  <2>1. Settled(th[t].own)
    BY DEF OwnsOnce
  <2>2. \A i \in DOMAIN queue' :
          (\E j \in DOMAIN queue : queue'[i] = queue[j]) \/ Settled(queue'[i].conn)
    BY <2>1 DEF Grown
  <2> QED
    BY <1>2, <2>2, MessagesSettledFrame
<1>10. MessagesOrdered'
  <2>1. CASE UNCHANGED queue
    BY <1>1, <1>3, <2>1, OrderedStays
  <2>2. ASSUME NEW m, Grown(m), m.cmd # "accept", m.conn = th[t].own,
               m.cmd \in {"connect", "receive", "alive"} =>
                   m.id \in Fd /\ client[m.id].thread = t
        PROVE  MessagesOrdered'
    <3>1. CASE m.cmd \in {"connect", "receive", "alive"}
      <4>1. client[m.id] # Absent /\ client[m.id].thread # NoThread
        BY <2>2, <3>1, ConstantsOK DEF Absent
      <4>2. client[m.id].conn = m.conn
        BY <2>2, <3>1, <4>1 DEF EntriesOK
      <4> QED
        BY <1>1, <1>3, <2>2, <3>1, <4>1, <4>2, OrderedSend
    <3>2. CASE m.cmd \notin {"connect", "receive", "alive"}
      BY <1>1, <1>3, <2>2, <3>2, OrderedStays
    <3> QED
      BY <3>1, <3>2
  <2> QED
    BY <2>1, <2>2
<1>11. AllReachable'
  <2>1. \A u \in Thread : th[u].pc = "exit" => ThreadIsReachable(u)'
    BY DEF ThreadIsReachable
  <2> QED
    BY <2>1, AllReachableStays
<1> QED
  BY <1>5, <1>6, <1>7, <1>8, <1>9, <1>10, <1>11

\* The state of a thread that moves, field by field.
LEMMA MovedFields ==
    ASSUME ThreadsOK, NEW t \in Thread, NEW pc, th' = [th EXCEPT ![t].pc = pc]
    PROVE  /\ \A u \in Thread : u # t => th'[u] = th[u]
           /\ th'[t].pc = pc /\ th'[t].fd = th[t].fd
           /\ th'[t].own = th[t].own /\ th'[t].reads = th[t].reads
<1>1. th[t] \in ThreadState /\ th'[t] = [th[t] EXCEPT !.pc = pc]
      /\ \A u \in Thread : u # t => th'[u] = th[u]
  BY DEF ThreadsOK
<1> QED
  BY <1>1 DEF ThreadState

\* An entry that names thread t describes the connection of t.
LEMMA EntryFacts ==
    ASSUME Undisturbed, NEW fd \in Fd, NEW t \in Thread, client[fd].thread = t
    PROVE  /\ client[fd] # Absent /\ t # NoThread
           /\ open[fd] = client[fd].conn
           /\ client[fd].conn = th[t].own
           /\ th[t].pc # "free"
<1>1. client[fd] # Absent /\ t # NoThread
  BY ConstantsOK DEF Absent
<1> QED
  BY <1>1 DEF Undisturbed, EntriesOK

\* A receive thread that serves a client is named by the client's entry.
LEMMA ServingFacts ==
    ASSUME TypeOK, Undisturbed, NEW t \in Thread, th[t].pc \in Serving
    PROVE  th[t].fd \in Fd /\ th[t].fd # 0 /\ client[th[t].fd].thread = t
BY ConstantsOK DEF Undisturbed, TypeOK, ThreadsOK, ThreadsServe, Active, Serving

\* A send of a receive thread keeps the invariant.
LEMMA ThreadSendsKeeps ==
    ASSUME TypeOK, TypeOK', Undisturbed, NEW t \in Thread, NEW from, NEW id, NEW to,
           ThreadSends(t, from, id, to),
           \/ /\ from \in {"connect", "receive", "alive", "disconnect"}
              /\ id = th[t].fd
              /\ to \in {"loop", "alive", "exited"}
           \/ from = "exit" /\ id = t /\ to = "exited"
    PROVE  Undisturbed'
<1>1. queue \in Seq(Message) /\ ThreadsOK
  BY DEF TypeOK
<1>2. /\ th[t].pc = from
      /\ sendMessage(from, id, th[t].own)
      /\ th' = [th EXCEPT ![t].pc = to]
      /\ UNCHANGED <<client, open, at, mt, app, used>>
  BY DEF ThreadSends
<1>3. /\ Grown(Msg(from, id, th[t].own))
      /\ from # "accept" => AcceptsCarried(0)
      /\ Len(queue) + 1 \in DOMAIN queue'
      /\ queue'[Len(queue) + 1] = Msg(from, id, th[t].own)
  BY <1>1, <1>2, SendGrows
<1>4. /\ \A u \in Thread : u # t => th'[u] = th[u]
      /\ th'[t].pc = to /\ th'[t].fd = th[t].fd
      /\ th'[t].own = th[t].own /\ th'[t].reads = th[t].reads
  BY <1>1, <1>2, MovedFields
<1>5. from # "exit" => id \in Fd /\ client[id].thread = t
  BY <1>2, ServingFacts DEF Serving
<1>6. from = "exit" => ThreadIsReachable(t)'
  BY <1>3 DEF ThreadIsReachable, Msg
<1>7. \E m : /\ Grown(m)
             /\ AcceptsCarried(0)
             /\ m.cmd # "accept"
             /\ m.conn = th[t].own
             /\ m.cmd \in {"connect", "receive", "alive"} =>
                    m.id \in Fd /\ client[m.id].thread = t
  <2> DEFINE m == Msg(from, id, th[t].own)
  <2>1. m.cmd = from /\ m.conn = th[t].own /\ m.id = id
    BY DEF Msg
  <2> QED
    BY <1>3, <1>5, <2>1
<1>8. th[t].pc # "free" /\ th'[t].pc # "free" /\ th'[t].pc \notin {"start", "exit", "blocked"}
  BY <1>2, <1>4
<1>9. th'[t].pc # "exited" /\ th'[t].fd # 0 => client[th'[t].fd].thread = t
  BY <1>4, <1>5
<1> QED
  BY <1>2, <1>4, <1>6, <1>7, <1>8, <1>9, ReaderMoves

\* So does a return from recv.
LEMMA ThreadLeavesKeeps ==
    ASSUME TypeOK, TypeOK', Undisturbed, NEW t \in Thread, NEW pc,
           th' = [th EXCEPT ![t].pc = pc],
           \/ pc \in {"disconnect", "receive"} /\ th[t].pc = "blocked"
           \/ pc = "exited" /\ th[t].pc = "cancelled",
           UNCHANGED <<queue, client, open, at, mt, app>>, used'.conn = used.conn
    PROVE  Undisturbed'
<1>1. /\ \A u \in Thread : u # t => th'[u] = th[u]
      /\ th'[t].pc = pc /\ th'[t].fd = th[t].fd
      /\ th'[t].own = th[t].own /\ th'[t].reads = th[t].reads
  BY MovedFields DEF TypeOK
<1>2. pc # "exited" => client[th[t].fd].thread = t
  BY ServingFacts DEF Serving
<1> QED
  BY <1>1, <1>2, ReaderMoves

\* A receive thread keeps the invariant (runTcpReceive).
LEMMA ReceiveThreadKeeps ==
    ASSUME TypeOK, TypeOK', Undisturbed, NEW t \in Thread,
           ReceiveThread(t) \/ RecvReturnsData(t)
    PROVE  Undisturbed'
<1>1. ThreadsOK /\ th[t] \in ThreadState
  BY DEF TypeOK, ThreadsOK
<1>2. CASE LooksUpSelf(t)
  <2>1. PICK fd \in Fd \cup {0} :
          /\ getClientSocketFD(t, fd)
          /\ th' = [th EXCEPT ![t].pc = IF fd = 0 THEN "exit" ELSE "connect", ![t].fd = fd]
    BY <1>2 DEF LooksUpSelf
  <2>2. /\ \A u \in Thread : u # t => th'[u] = th[u]
        /\ th'[t].pc = IF fd = 0 THEN "exit" ELSE "connect"
        /\ th'[t].fd = fd
        /\ th'[t].own = th[t].own
    BY <1>1, <2>1 DEF ThreadsOK, ThreadState
  <2>3. fd # 0 => client[fd].thread = t
    BY <2>1 DEF getClientSocketFD, EntriesOf
  <2>4. th[t].pc = "start" /\ UNCHANGED <<queue, client, open, at, mt, app, used>>
    BY <1>2 DEF LooksUpSelf
  <2> QED
    BY <2>2, <2>3, <2>4, ReaderMoves
<1>3. CASE SendConnect(t)
  BY <1>3, ThreadSendsKeeps DEF SendConnect
<1>4. CASE SendReceive(t)
  BY <1>4, ThreadSendsKeeps DEF SendReceive
<1>5. CASE SendAlive(t)
  BY <1>5, ThreadSendsKeeps DEF SendAlive
<1>6. CASE SendDisconnect(t)
  BY <1>6, ThreadSendsKeeps DEF SendDisconnect
<1>7. CASE SendThreadExit(t)
  BY <1>7, ThreadSendsKeeps DEF SendThreadExit
<1>8. CASE EntersRecv(t)
  <2>1. th[t].pc = "loop" /\ UNCHANGED <<queue, client, open, at, mt, app, used>>
    BY <1>8 DEF EntersRecv
  <2>2. /\ \A u \in Thread : u # t => th'[u] = th[u]
        /\ th'[t].pc = IF open[th[t].fd] = 0 THEN "disconnect" ELSE "blocked"
        /\ th'[t].fd = th[t].fd
        /\ th'[t].own = th[t].own
        /\ th'[t].reads = open[th[t].fd]
    BY <1>1, <1>8 DEF EntersRecv, ThreadsOK, ThreadState
  <2>3. th[t].fd \in Fd /\ client[th[t].fd].thread = t
    BY <2>1, ServingFacts DEF Serving
  <2>4. open[th[t].fd] = th[t].own
    BY <2>3, EntryFacts
  <2> QED
    BY <2>1, <2>2, <2>3, <2>4, ReaderMoves
<1>9. CASE RecvReturnsEnd(t)
  BY <1>9, ThreadLeavesKeeps DEF RecvReturnsEnd
<1>10. CASE RecvReturnsData(t)
  BY <1>10, ThreadLeavesKeeps DEF RecvReturnsData, TypeOK, Spent
<1>11. CASE CancelPoint(t)
  BY <1>11, ThreadLeavesKeeps DEF CancelPoint
<1> QED
  BY <1>2, <1>3, <1>4, <1>5, <1>6, <1>7, <1>8, <1>9, <1>10, <1>11 DEF ReceiveThread

-----------------------------------------------------------------------------
(* Steps in which no client moves *)

\* A step in which no client and no thread moves keeps the invariant, if what it
\* sends is about a settled connection.
LEMMA QuietStep ==
    ASSUME TypeOK, TypeOK', Undisturbed, UNCHANGED <<open, at, th>>, SameClients,
           used'.conn = used.conn,
           \/ mt' = mt
           \/ mt.pc = "scan" /\ mt'.pc \in {"scan", "wait"} /\ mt'.thread = NoThread,
           \/ UNCHANGED queue
           \/ \E m : /\ Grown(m)
                     /\ AcceptsCarried(0)
                     /\ m.cmd \in {"timer", "close"}
                     /\ m.cmd = "close" => Settled(m.conn),
           app'.pc = "send" => app' = app \/ Settled(app'.conn)
    PROVE  Undisturbed'
<1> USE DEF Undisturbed
<1>1. queue \in Seq(Message) /\ queue' \in Seq(Message)
  BY DEF TypeOK
<1>2. AcceptsCarried(0)
  BY <1>1 DEF AcceptsCarried
<1>3. NoneMoves /\ SameThreads
  BY DEF NoneMoves, SameThreads
<1>4. OpensOnce' /\ HandOK' /\ AcceptsOK' /\ EntriesOK' /\ StoreOK'
  BY <1>1, <1>2, <1>3, PlacesFrame
<1>5. JoinOK'
  BY DEF JoinOK, SameClients, TypeOK, MessageThreadOK, MsgThreadState
<1>6. ThreadsServe'
  BY DEF ThreadsServe, Active, SameClients, TypeOK, ThreadsOK, ThreadState
<1>7. OwnsOnce'
  BY <1>2, <1>3, OwnsFrame
<1>8. MessagesSettled'
  <2>1. \A i \in DOMAIN queue' : IsAbout(i)' =>
          \/ \E j \in DOMAIN queue : queue'[i] = queue[j]
          \/ Settled(queue'[i].conn)
    BY DEF Grown, IsAbout
  <2> QED
    BY <1>2, <2>1, MessagesSettledFrame
<1>9. MessagesOrdered'
  BY <1>1, <1>3, OrderedStays
<1>10. AllReachable'
  <2>1. \A t \in Thread : th[t].pc = "exit" => ThreadIsReachable(t)'
    BY DEF ThreadIsReachable
  <2>2. mt.thread \in Thread => mt'.thread = mt.thread
    BY ConstantsOK DEF JoinOK
  <2>3. UNCHANGED queue \/ \E m : Grown(m)
    OBVIOUS
  <2> QED
    BY <2>1, <2>2, <2>3, AllReachableStays DEF SameClients
<1> QED
  BY <1>4, <1>5, <1>6, <1>7, <1>8, <1>9, <1>10

\* The connection of an entry is settled.
LEMMA EntrySettled ==
    ASSUME TypeOK, Undisturbed, NEW fd \in Fd, client[fd] # Absent
    PROVE  Settled(client[fd].conn)
<1> USE DEF Undisturbed
<1>1. open[fd] = client[fd].conn /\ open[fd] # 0 /\ open[fd] <= used.conn
  BY DEF EntriesOK, OpensOnce, TypeOK, Entry, Conn
<1>2. at.pc # "accept" => open[fd] # at.conn
  BY <1>1 DEF HandOK, OpensOnce, TypeOK, AcceptThreadOK
<1>3. \A i \in DOMAIN queue : IsAccept(i) => open[fd] # queue[i].conn
  BY <1>1, MessageFacts DEF AcceptsOK, OpensOnce, TypeOK
<1> QED
  BY <1>1, <1>2, <1>3 DEF Settled

\* A change of the alive time leaves every client where it is.
LEMMA IdleUpdate ==
    ASSUME TypeOK, NEW fd \in Fd, client[fd] # Absent, NEW b,
           client' = [client EXCEPT ![fd].idle = b]
    PROVE  SameClients
<1>1. client[fd] \in Entry /\ client[fd].conn # 0
  BY DEF TypeOK, Entry, Conn
<1>2. /\ \A g \in Fd : g # fd => client'[g] = client[g]
      /\ client'[fd] = [client[fd] EXCEPT !.idle = b]
  BY DEF TypeOK
<1>3. client'[fd].thread = client[fd].thread /\ client'[fd].conn = client[fd].conn
  BY <1>1, <1>2 DEF Entry
<1>4. client'[fd] # Absent
  BY <1>1, <1>3 DEF Absent
<1> QED
  BY <1>2, <1>3, <1>4 DEF SameClients

\* Peers, the clock and the calls of closeClient keep the invariant.
LEMMA QuietKeeps ==
    ASSUME TypeOK, TypeOK', Undisturbed,
           \/ \E c \in Conn : PeerCloses(c)
           \/ \E fd \in Fd : GrowsIdle(fd)
           \/ IdleTimerExpires
           \/ \E fd \in Fd : CloseClientFinds(fd)
           \/ CloseClientSends
           \/ \E fd \in Fd : ScanClosesNext(fd)
           \/ ScanEnds
    PROVE  Undisturbed'
<1>1. queue \in Seq(Message) /\ used \in Spent
  BY DEF TypeOK
<1>2. UNCHANGED client => SameClients
  BY DEF SameClients
<1>3. CASE \E c \in Conn : PeerCloses(c)
  BY <1>2, <1>3, QuietStep DEF PeerCloses
<1>4. ASSUME NEW fd \in Fd, GrowsIdle(fd)
      PROVE  Undisturbed'
  <2>1. SameClients
    BY <1>4, IdleUpdate DEF GrowsIdle, Mapped
  <2> QED
    BY <1>4, <2>1, QuietStep DEF GrowsIdle
<1>5. CASE IdleTimerExpires
  <2>1. /\ sendMessage("timer", 0, 0) /\ used'.conn = used.conn
        /\ UNCHANGED <<client, open, th, at, mt, app>>
    BY <1>1, <1>5 DEF IdleTimerExpires, Spent
  <2>2. Grown(Msg("timer", 0, 0)) /\ AcceptsCarried(0)
    BY <1>1, <2>1, SendGrows
  <2>3. Msg("timer", 0, 0).cmd = "timer"
    BY DEF Msg
  <2> QED
    BY <1>2, <2>1, <2>2, <2>3, QuietStep
<1>6. ASSUME NEW fd \in Fd, CloseClientFinds(fd)
      PROVE  Undisturbed'
  <2>1. /\ client[fd] # Absent /\ used'.conn = used.conn
        /\ app' = [pc |-> "send", fd |-> fd, conn |-> client[fd].conn]
        /\ UNCHANGED <<queue, client, open, th, at, mt>>
    BY <1>1, <1>6 DEF CloseClientFinds, Mapped, Spent
  <2>2. Settled(app'.conn)
    BY <2>1, EntrySettled
  <2> QED
    BY <1>2, <2>1, <2>2, QuietStep
<1>7. CASE CloseClientSends
  <2>1. /\ app.pc = "send" /\ sendMessage("close", app.fd, app.conn)
        /\ app' = [pc |-> "idle", fd |-> 0, conn |-> 0]
        /\ UNCHANGED <<client, open, th, at, mt, used>>
    BY <1>7 DEF CloseClientSends
  <2>2. Grown(Msg("close", app.fd, app.conn)) /\ AcceptsCarried(0)
    BY <1>1, <2>1, SendGrows
  <2>3. /\ Msg("close", app.fd, app.conn).cmd = "close"
        /\ Msg("close", app.fd, app.conn).conn = app.conn
    BY DEF Msg
  <2>4. Settled(app.conn)
    BY <2>1 DEF Undisturbed, MessagesSettled
  <2> QED
    BY <1>2, <2>1, <2>2, <2>3, <2>4, QuietStep
<1>8. ASSUME NEW fd \in Fd, ScanClosesNext(fd)
      PROVE  Undisturbed'
  <2>1. /\ mt.pc = "scan" /\ fd \in mt.todo
        /\ sendMessage("close", fd, client[fd].conn)
        /\ mt' = [mt EXCEPT !.todo = @ \ {fd}]
        /\ UNCHANGED <<client, open, th, at, app, used>>
    BY <1>8 DEF ScanClosesNext
  <2>2. Grown(Msg("close", fd, client[fd].conn)) /\ AcceptsCarried(0)
    BY <1>1, <2>1, SendGrows
  <2>3. /\ Msg("close", fd, client[fd].conn).cmd = "close"
        /\ Msg("close", fd, client[fd].conn).conn = client[fd].conn
    BY DEF Msg
  <2>4. Settled(client[fd].conn)
    BY <2>1, EntrySettled DEF TypeOK, MessageThreadOK, Mapped
  <2>5. mt'.pc = "scan" /\ mt'.thread = NoThread
    BY <2>1 DEF TypeOK, MessageThreadOK, MsgThreadState, Undisturbed, JoinOK
  <2> QED
    BY <1>2, <2>1, <2>2, <2>3, <2>4, <2>5, QuietStep
<1>9. CASE ScanEnds
  <2>1. mt.pc = "scan" /\ mt' = Waiting /\ UNCHANGED <<queue, client, open, th, at, app, used>>
    BY <1>9 DEF ScanEnds
  <2> QED
    BY <1>2, <2>1, QuietStep DEF Waiting
<1> QED
  BY <1>3, <1>4, <1>5, <1>6, <1>7, <1>8, <1>9

\* The message thread takes a message that moves no client: it starts to join or
\* to scan, or has only noted that the client is alive.
LEMMA TakeStep ==
    ASSUME TypeOK, TypeOK', Undisturbed, NEW cmd, Takes(cmd), UNCHANGED <<open, at, app>>,
           SameClients, used'.conn = used.conn, mt'.pc # "store", JoinOK',
           cmd = "exit" => mt'.thread = Head(queue).id,
           \/ UNCHANGED th
           \/ /\ mt'.thread \in Thread
              /\ threadCancel(mt'.thread)
    PROVE  Undisturbed'
<1> USE DEF Undisturbed
<1>1. queue \in Seq(Message) /\ queue' \in Seq(Message)
  BY DEF TypeOK
<1>2. /\ Carried(1) /\ AcceptsCarried(1)
      /\ Head(queue) = queue[1]
      /\ \A i \in DOMAIN queue : i # 1 => i - 1 \in DOMAIN queue' /\ queue'[i - 1] = queue[i]
      /\ Head(queue).cmd = cmd
      /\ mt.pc = "wait"
  BY <1>1, TakeCarries DEF Takes
<1>3. /\ \A t \in Thread : t # mt'.thread => th'[t] = th[t]
      /\ \A t \in Thread : /\ th'[t].own = th[t].own
                           /\ th'[t].fd = th[t].fd
                           /\ th'[t].reads = th[t].reads
                           /\ \/ th'[t] = th[t]
                              \/ /\ th'[t].pc = "cancelled"
                                 /\ th[t].pc \notin {"free", "exited"}
  <2>1. CASE UNCHANGED th
    BY <2>1
  <2>2. CASE mt'.thread \in Thread /\ threadCancel(mt'.thread)
    <3>1. th' = th \/ (/\ th[mt'.thread].pc \notin {"free", "exited"}
                       /\ th' = [th EXCEPT ![mt'.thread].pc = "cancelled"])
      BY <2>2 DEF threadCancel
    <3>2. ThreadsOK
      BY DEF TypeOK
    <3> QED
      BY <2>2, <3>1, <3>2, MovedFields
  <2> QED
    BY <2>1, <2>2
<1>4. NoneMoves /\ SameThreads
  BY <1>2, <1>3 DEF NoneMoves, SameThreads
<1>5. OpensOnce' /\ HandOK' /\ AcceptsOK' /\ EntriesOK' /\ StoreOK'
  BY <1>1, <1>2, <1>4, PlacesFrame
<1>6. ThreadsServe'
  <2>1. \A t \in Thread : th[t].fd \in Fd \cup {0}
    BY DEF TypeOK, ThreadsOK, ThreadState
  <2> QED
    BY <1>3, <2>1 DEF ThreadsServe, Active, SameClients
<1>7. OwnsOnce'
  BY <1>2, <1>4, OwnsFrame
<1>8. MessagesSettled'
  <2>1. \A i \in DOMAIN queue' : \E j \in DOMAIN queue : queue'[i] = queue[j]
    BY <1>2 DEF Carried
  <2> QED
    BY <1>2, <2>1, MessagesSettledFrame
<1>9. MessagesOrdered'
  BY <1>1, <1>2, <1>4, OrderedStays
<1>10. AllReachable'
  <2> SUFFICES ASSUME NEW t \in Thread, th'[t].pc # "free"
               PROVE  ThreadIsReachable(t)'
    BY DEF AllReachable
  <2>1. ThreadIsReachable(t)
    BY <1>4 DEF AllReachable, SameThreads
  <2>2. mt'.thread = t => ThreadIsReachable(t)'
    BY DEF ThreadIsReachable
  <2>3. mt.thread # t
    BY <1>2, ConstantsOK DEF JoinOK
  <2>4. th[t].pc = "exit" => ThreadIsReachable(t)'
    BY <1>3, <2>2 DEF ThreadIsReachable
  <2>5. (\E i \in DOMAIN queue : queue[i].cmd = "exit" /\ queue[i].id = t)
            => ThreadIsReachable(t)'
    BY <1>2, <2>2, ReachQueued
  <2> QED
    BY <2>1, <2>3, <2>4, <2>5, ReachFrame DEF SameClients
<1> QED
  BY <1>5, <1>6, <1>7, <1>8, <1>9, <1>10

\* A disconnect or close message that strikes no other client finds either the
\* client it was sent about or nothing to close.
LEMMA StrikesNothing ==
    ASSUME TypeOK, Undisturbed, NoDescriptorLeak, NEW cmd \in {"disconnect", "close"},
           Takes(cmd), Strikes(Head(queue).id, Head(queue).conn),
           client[Head(queue).id].thread = NoThread, eraseClient(Head(queue).id)
    PROVE  UNCHANGED <<open, client>>
<1> USE DEF Undisturbed
<1> DEFINE fd == Head(queue).id
<1>1. /\ queue \in Seq(Message) /\ open \in [Fd -> Conn \cup {0}]
      /\ client \in [Fd -> Entry \cup {Absent}]
  BY DEF TypeOK
<1>2. /\ fd \in Fd /\ Head(queue).conn \in Conn
      /\ mt.pc = "wait"
      /\ 1 \in DOMAIN queue /\ Head(queue) = queue[1] /\ queue[1].cmd = cmd
  BY <1>1, TakeType, TakeCarries DEF Command
<1>3. client[fd] = Absent
  BY <1>2 DEF EntriesOK, Storing
<1>4. Settled(Head(queue).conn)
  BY <1>2 DEF MessagesSettled, IsAbout
<1>5. open[fd] # Head(queue).conn
  <2> SUFFICES ASSUME open[fd] = Head(queue).conn
               PROVE  FALSE
    OBVIOUS
  <2>1. open[fd] # 0
    BY <1>2 DEF Conn
  <2>2. CASE at.pc # "accept" /\ at.fd = fd
    BY <1>4, <2>2 DEF HandOK, Settled
  <2>3. CASE AcceptQueued(fd)
    BY <1>4, <2>3 DEF AcceptQueued, AcceptsOK, Settled, IsAccept
  <2> QED
    BY <1>2, <1>3, <2>1, <2>2, <2>3 DEF NoDescriptorLeak, Mapped
<1>6. open[fd] = 0
  BY <1>5 DEF Strikes
<1> QED
  BY <1>1, <1>2, <1>3, <1>6 DEF eraseClient

\* The message thread starts to join the thread of a client.
LEMMA JoiningKeeps ==
    ASSUME TypeOK, NEW fd \in Fd \cup {0}, NEW t \in Thread, JoinThen(t, fd),
           fd # 0 => client'[fd].thread = t
    PROVE  mt'.pc # "store" /\ mt'.thread = t /\ JoinOK'
BY DEF JoinThen, Waiting, JoinOK

\* The message thread keeps the invariant while it takes a message that strikes
\* only what it was sent about.
LEMMA TakesKeep ==
    ASSUME TypeOK, TypeOK', Undisturbed, NoDescriptorLeak, clean',
           \/ OnConnectOrAlive
           \/ OnServerReceive
           \/ OnDisconnect
           \/ OnClientClose
           \/ OnThreadExit
           \/ OnIdleTimer
    PROVE  Undisturbed'
<1>1. queue \in Seq(Message) /\ client \in [Fd -> Entry \cup {Absent}]
  BY DEF TypeOK
<1>2. UNCHANGED client => SameClients
  BY DEF SameClients
<1>3. UNCHANGED <<mt, client>> /\ mt.pc = "wait" => mt'.pc # "store" /\ JoinOK'
  BY DEF Undisturbed, JoinOK
<1>4. ASSUME NEW cmd \in {"connect", "alive"}, Takes(cmd), updateClientAlive(Head(queue).id),
             UNCHANGED <<open, th, at, mt, app, used>>
      PROVE  Undisturbed'
  <2>1. Head(queue).id \in Fd /\ mt.pc = "wait"
    BY <1>1, <1>4, TakeType DEF Command
  <2>2. SameClients
    <3>1. CASE Head(queue).id \in Mapped
      BY <1>4, <2>1, <3>1, IdleUpdate DEF updateClientAlive, Mapped
    <3>2. CASE Head(queue).id \notin Mapped
      BY <1>2, <1>4, <3>2 DEF updateClientAlive
    <3> QED
      BY <3>1, <3>2
  <2>3. mt'.pc # "store" /\ JoinOK'
    BY <1>4, <2>1 DEF Undisturbed, JoinOK
  <2> QED
    BY <1>4, <2>2, <2>3, TakeStep
<1>5. CASE OnConnectOrAlive
  BY <1>4, <1>5 DEF OnConnectOrAlive
<1>6. CASE OnServerReceive
  <2>1. Takes("receive") /\ UNCHANGED <<client, open, th, at, mt, app, used>>
    BY <1>6 DEF OnServerReceive
  <2>2. mt.pc = "wait"
    BY <2>1 DEF Takes
  <2> QED
    BY <1>2, <1>3, <2>1, <2>2, TakeStep
<1>7. ASSUME NEW cmd \in {"disconnect", "close"}, Takes(cmd),
             Strikes(Head(queue).id, Head(queue).conn),
             UNCHANGED <<at, app, used>>,
             \/ /\ client[Head(queue).id].thread = NoThread
                /\ eraseClient(Head(queue).id)
                /\ UNCHANGED <<mt, th>>
             \/ /\ client[Head(queue).id].thread # NoThread
                /\ UNCHANGED th \/ threadCancel(client[Head(queue).id].thread)
                /\ JoinThen(client[Head(queue).id].thread, Head(queue).id)
                /\ UNCHANGED <<client, open>>
      PROVE  Undisturbed'
  <2>1. Head(queue).id \in Fd /\ mt.pc = "wait"
    BY <1>1, <1>7, TakeType DEF Command
  <2>2. CASE client[Head(queue).id].thread = NoThread
    <3>1. UNCHANGED <<open, client, mt, th>>
      BY <1>7, <2>2, StrikesNothing
    <3> QED
      BY <1>2, <1>3, <1>7, <2>1, <3>1, TakeStep
  <2>3. CASE client[Head(queue).id].thread # NoThread
    <3>1. client[Head(queue).id].thread \in Thread
      BY <1>1, <2>1, <2>3 DEF Entry, Absent
    <3>2. mt'.pc # "store" /\ mt'.thread = client[Head(queue).id].thread /\ JoinOK'
      BY <1>7, <2>1, <2>3, <3>1, JoiningKeeps
    <3> QED
      BY <1>2, <1>7, <2>3, <3>1, <3>2, TakeStep
  <2> QED
    BY <2>2, <2>3
<1>8. CASE OnDisconnect
  <2>1. /\ Takes("disconnect") /\ Strikes(Head(queue).id, Head(queue).conn)
        /\ UNCHANGED <<th, at, app, used>>
        /\ \/ /\ client[Head(queue).id].thread = NoThread
              /\ eraseClient(Head(queue).id)
              /\ UNCHANGED mt
           \/ /\ client[Head(queue).id].thread # NoThread
              /\ JoinThen(client[Head(queue).id].thread, Head(queue).id)
              /\ UNCHANGED <<client, open>>
    BY <1>8 DEF OnDisconnect
  <2> QED
    BY <1>7, <2>1
<1>9. CASE OnClientClose
  <2>1. /\ Takes("close") /\ Strikes(Head(queue).id, Head(queue).conn)
        /\ UNCHANGED <<at, app, used>>
        /\ \/ /\ client[Head(queue).id].thread = NoThread
              /\ eraseClient(Head(queue).id)
              /\ UNCHANGED <<mt, th>>
           \/ /\ client[Head(queue).id].thread # NoThread
              /\ threadCancel(client[Head(queue).id].thread)
              /\ JoinThen(client[Head(queue).id].thread, Head(queue).id)
              /\ UNCHANGED <<client, open>>
    BY <1>9 DEF OnClientClose
  <2> QED
    BY <1>7, <2>1
<1>10. CASE OnThreadExit
  <2>1. /\ Takes("exit") /\ JoinThen(Head(queue).id, 0)
        /\ UNCHANGED <<client, open, th, at, app, used>>
    BY <1>10 DEF OnThreadExit
  <2>2. Head(queue).id \in Thread
    BY <1>1, <2>1, TakeType
  <2>3. mt'.pc # "store" /\ mt'.thread = Head(queue).id /\ JoinOK'
    BY <2>1, <2>2, JoiningKeeps
  <2> QED
    BY <1>2, <2>1, <2>3, TakeStep
<1>11. CASE OnIdleTimer
  <2>1. /\ Takes("timer") /\ UNCHANGED <<client, open, th, at, app, used>>
        /\ mt' = [Waiting EXCEPT !.pc = "scan", !.todo = {fd \in Mapped : client[fd].idle}]
    BY <1>11 DEF OnIdleTimer
  <2>2. mt'.pc = "scan" /\ mt'.thread = NoThread
    BY <2>1 DEF Waiting
  <2>3. JoinOK'
    BY <2>2 DEF JoinOK
  <2> QED
    BY <1>2, <2>1, <2>2, <2>3, TakeStep
<1> QED
  BY <1>5, <1>6, <1>8, <1>9, <1>10, <1>11

-----------------------------------------------------------------------------
(* The accept thread *)

\* What the accept thread leaves alone stays in order.
LEMMA AcceptThreadFrame ==
    ASSUME TypeOK, Undisturbed, UNCHANGED <<client, th, mt, app>>,
           UNCHANGED queue \/ \E m : Grown(m)
    PROVE  JoinOK' /\ ThreadsServe' /\ AllReachable'
<1> USE DEF Undisturbed
<1>1. JoinOK'
  BY DEF JoinOK
<1>2. ThreadsServe'
  BY DEF ThreadsServe, Active
<1>3. AllReachable'
  <2>1. \A t \in Thread : th[t].pc = "exit" => ThreadIsReachable(t)'
    BY DEF ThreadIsReachable
  <2> QED
    BY <2>1, AllReachableStays
<1> QED
  BY <1>1, <1>2, <1>3

\* A settled connection stays so while the hand of the accept thread is given away.
LEMMA OwnsAndMessages ==
    ASSUME Undisturbed, UNCHANGED <<queue, th, app>>, \A c : Settled(c) => Settled(c)'
    PROVE  OwnsOnce' /\ MessagesSettled'
BY DEF Undisturbed, OwnsOnce, MessagesSettled, IsAbout

\* accept returns a descriptor that was closed and so is nowhere.
LEMMA SocketAcceptKeeps ==
    ASSUME TypeOK, TypeOK', Undisturbed, NEW fd \in Fd, socketAccept(fd)
    PROVE  Undisturbed'
<1> USE DEF Undisturbed
<1> DEFINE c == used.conn + 1
<1>1. /\ queue \in Seq(Message) /\ open \in [Fd -> Conn \cup {0}]
      /\ client \in [Fd -> Entry \cup {Absent}]
      /\ used \in Spent
  BY DEF TypeOK
<1>2. /\ open[fd] = 0
      /\ open' = [open EXCEPT ![fd] = c]
      /\ at' = [pc |-> "check", fd |-> fd, conn |-> c]
      /\ UNCHANGED <<queue, client, th, mt, app>>
      /\ used'.conn = c
      /\ used.conn \in Nat
  BY <1>1 DEF socketAccept, Spent
<1>3. open'[fd] = c /\ \A g \in Fd : g # fd => open'[g] = open[g]
  BY <1>1, <1>2
<1>4. client[fd] = Absent
  BY <1>1, <1>2 DEF EntriesOK, Entry, Conn
<1>5. ~Storing(fd)
  BY <1>2 DEF StoreOK, Storing, TypeOK, MessageThreadOK, Conn
<1>6. \A i \in DOMAIN queue : IsAccept(i) => queue[i].id # fd /\ queue[i].id \in Fd
  <2> SUFFICES ASSUME NEW i \in DOMAIN queue, IsAccept(i)
               PROVE  queue[i].id # fd /\ queue[i].id \in Fd
    OBVIOUS
  <2>1. queue[i].id \in Fd /\ queue[i].conn \in Conn
    BY <1>1, MessageFacts DEF IsAccept
  <2> QED
    BY <1>2, <2>1 DEF AcceptsOK, Conn
<1>7. OpensOnce'
  <2>1. \A g \in Fd : open[g] <= used.conn /\ open[g] \in Nat
    BY <1>1 DEF OpensOnce, Conn
  <2> QED
    BY <1>2, <1>3, <2>1 DEF OpensOnce
<1>8. HandOK'
  BY <1>2, <1>3, <1>4, <1>5, <1>6 DEF HandOK, IsAccept, Storing
<1>9. AcceptsOK'
  BY <1>2, <1>3, <1>6 DEF AcceptsOK, IsAccept, Storing
<1>10. EntriesOK'
  BY <1>2, <1>3, <1>4 DEF EntriesOK, Storing
<1>11. StoreOK'
  BY <1>2, <1>3, <1>5 DEF StoreOK, Storing, TypeOK, MessageThreadOK
<1>12. OwnsOnce' /\ MessagesSettled'
  <2>1. \A d \in Nat : Settled(d) => Settled(d)'
    BY <1>2 DEF Settled, IsAccept
  <2>2. \A t \in Thread : th[t].own \in Nat
    BY DEF TypeOK, ThreadsOK, ThreadState, Conn
  <2>3. \A i \in DOMAIN queue : IsAbout(i) => queue[i].conn \in Nat
    BY <1>1, MessageFacts DEF IsAbout, Conn
  <2>4. app.pc = "send" => app.conn \in Nat
    BY DEF TypeOK, AppOK, Conn
  <2> QED
    BY <1>2, <2>1, <2>2, <2>3, <2>4 DEF OwnsOnce, MessagesSettled, IsAbout
<1>13. MessagesOrdered'
  BY <1>2 DEF MessagesOrdered, FromReader, IsAccept, Storing
<1> QED
  BY <1>2, <1>7, <1>8, <1>9, <1>10, <1>11, <1>12, <1>13, AcceptThreadFrame

\* The accept thread closes a client at the limit, or passes it on.
LEMMA CheckLimitKeeps ==
    ASSUME TypeOK, TypeOK', Undisturbed, CheckLimit
    PROVE  Undisturbed'
<1> USE DEF Undisturbed
<1>1. /\ queue \in Seq(Message) /\ open \in [Fd -> Conn \cup {0}]
      /\ at.fd \in Fd /\ at.pc = "check"
      /\ UNCHANGED <<queue, client, th, mt, app, used>>
  BY DEF CheckLimit, TypeOK, AcceptThreadOK
<1>2. /\ at'.pc # "accept" => at'.fd = at.fd /\ at'.conn = at.conn /\ UNCHANGED open
      /\ \A g \in Fd : g # at.fd => open'[g] = open[g]
      /\ open'[at.fd] \in {0, open[at.fd]}
  <2>1. CASE /\ open' = [open EXCEPT ![at.fd] = 0]
             /\ at' = [pc |-> "accept", fd |-> 0, conn |-> 0]
    BY <1>1, <2>1
  <2>2. CASE at' = [at EXCEPT !.pc = "send"] /\ UNCHANGED open
    BY <2>2 DEF TypeOK, AcceptThreadOK
  <2> QED
    BY <2>1, <2>2 DEF CheckLimit
<1>3. OpensOnce'
  BY <1>1, <1>2 DEF OpensOnce, TypeOK, Spent
<1>4. HandOK'
  BY <1>1, <1>2 DEF HandOK, IsAccept, Storing
<1>5. AcceptsOK'
  <2>1. \A i \in DOMAIN queue : IsAccept(i) => queue[i].id # at.fd /\ queue[i].id \in Fd
    BY <1>1, MessageFacts DEF HandOK
  <2> QED
    BY <1>1, <1>2, <2>1 DEF AcceptsOK, IsAccept, Storing
<1>6. EntriesOK'
  BY <1>1, <1>2 DEF EntriesOK, HandOK, Storing
<1>7. StoreOK'
  BY <1>1, <1>2 DEF StoreOK, HandOK, Storing, TypeOK, MessageThreadOK
<1>8. OwnsOnce' /\ MessagesSettled'
  <2>1. \A c : Settled(c) => Settled(c)'
    BY <1>1, <1>2 DEF Settled, IsAccept
  <2> QED
    BY <1>1, <2>1, OwnsAndMessages
<1>9. MessagesOrdered'
  BY <1>1 DEF MessagesOrdered, FromReader, IsAccept, Storing
<1> QED
  BY <1>1, <1>3, <1>4, <1>5, <1>6, <1>7, <1>8, <1>9, AcceptThreadFrame

\* The client in the hand of the accept thread goes to the end of the queue.
LEMMA SendAcceptKeeps ==
    ASSUME TypeOK, TypeOK', Undisturbed, SendAccept
    PROVE  Undisturbed'
<1> USE DEF Undisturbed
<1> DEFINE m == Msg("accept", at.fd, at.conn)
<1>1. /\ queue \in Seq(Message) /\ queue' \in Seq(Message)
      /\ at.pc = "send" /\ at.fd \in Fd
      /\ sendMessage("accept", at.fd, at.conn)
      /\ at'.pc = "accept"
      /\ UNCHANGED <<client, open, th, mt, app, used>>
  BY DEF SendAccept, TypeOK, AcceptThreadOK
<1>2. Grown(m)
  BY <1>1, SendGrows
<1>3. m.cmd = "accept" /\ m.id = at.fd /\ m.conn = at.conn
  BY DEF Msg
<1>4. /\ open[at.fd] = at.conn /\ client[at.fd] = Absent /\ ~Storing(at.fd)
      /\ \A i \in DOMAIN queue : IsAccept(i) => queue[i].id # at.fd
  BY <1>1 DEF HandOK
<1>5. \A i \in DOMAIN queue' :
        \/ i \in DOMAIN queue /\ queue'[i] = queue[i]
        \/ /\ i \notin DOMAIN queue /\ queue'[i] = m
           /\ \A j \in DOMAIN queue : j < i
  BY <1>2 DEF Grown
<1>6. \A i, j \in DOMAIN queue' : i \notin DOMAIN queue /\ j \notin DOMAIN queue => i = j
  <2>1. DOMAIN queue = 1..Len(queue) /\ DOMAIN queue' = 1..(Len(queue) + 1) /\ Len(queue) \in Nat
    BY <1>1 DEF sendMessage
  <2> QED
    BY <2>1
<1>7. OpensOnce'
  BY <1>1 DEF OpensOnce
<1>8. HandOK'
  BY <1>1 DEF HandOK
<1>9. AcceptsOK'
  <2>1. \A i \in DOMAIN queue' : IsAccept(i)' =>
          /\ open'[queue'[i].id] = queue'[i].conn
          /\ client'[queue'[i].id] = Absent
          /\ ~(mt'.pc = "store" /\ mt'.fd = queue'[i].id)
    BY <1>1, <1>3, <1>4, <1>5 DEF AcceptsOK, IsAccept, Storing
  <2>2. \A i, j \in DOMAIN queue' :
          IsAccept(i)' /\ IsAccept(j)' /\ queue'[i].id = queue'[j].id => i = j
    BY <1>3, <1>4, <1>5, <1>6 DEF AcceptsOK, IsAccept
  <2> QED
    BY <2>1, <2>2 DEF AcceptsOK, Storing
<1>10. EntriesOK'
  BY <1>1 DEF EntriesOK, Storing
<1>11. StoreOK'
  BY <1>1 DEF StoreOK
<1>12. \A c : Settled(c) => Settled(c)'
  BY <1>1, <1>3, <1>5 DEF Settled, IsAccept
<1>13. OwnsOnce'
  BY <1>1, <1>12 DEF OwnsOnce
<1>14. MessagesSettled'
  BY <1>1, <1>3, <1>5, <1>12 DEF MessagesSettled, IsAbout
<1>15. MessagesOrdered'
  BY <1>1, <1>3, <1>5 DEF MessagesOrdered, FromReader, IsAccept, Storing
<1> QED
  BY <1>1, <1>2, <1>7, <1>8, <1>9, <1>10, <1>11, <1>13, <1>14, <1>15, AcceptThreadFrame

-----------------------------------------------------------------------------
(* The message thread moves a client *)

\* The first message of the queue, when it is an ACCEPT: its client is nowhere else
\* and no message behind it comes from a receive thread of the same descriptor.
LEMMA FirstAccept ==
    ASSUME TypeOK, TypeOK', Undisturbed, Takes("accept")
    PROVE  LET m == Head(queue) IN
           /\ m.id \in Fd /\ m.conn \in Conn /\ mt.pc = "wait"
           /\ open[m.id] = m.conn /\ client[m.id] = Absent
           /\ at.pc # "accept" => at.fd # m.id
           /\ \A i \in DOMAIN queue' : IsAccept(i)' \/ FromReader(i)' => queue'[i].id # m.id
           /\ \A c : Settled(c) => c # m.conn
           /\ UNCHANGED at /\ used'.conn = used.conn
                => \A c : c = m.conn => Settled(c)'
<1> USE DEF Undisturbed
<1> DEFINE m == Head(queue)
<1>1. queue \in Seq(Message) /\ queue' \in Seq(Message) /\ open \in [Fd -> Conn \cup {0}]
  BY DEF TypeOK
<1>2. /\ Carried(1) /\ AcceptsCarried(1)
      /\ 1 \in DOMAIN queue /\ m = queue[1] /\ m.cmd = "accept"
      /\ \A i \in DOMAIN queue' : i + 1 # 1 /\ i \in Nat
  <2>1. DOMAIN queue' \subseteq Nat \ {0}
    BY <1>1, TakeCarries
  <2> QED
    BY <1>1, <2>1, TakeCarries DEF Takes
<1>3. m.id \in Fd /\ m.conn \in Conn /\ mt.pc = "wait"
  BY <1>1, TakeType DEF Command
<1>4. open[m.id] = m.conn /\ client[m.id] = Absent
  BY <1>2 DEF AcceptsOK, IsAccept
<1>5. at.pc # "accept" => at.fd # m.id
  BY <1>2 DEF HandOK, IsAccept
<1>6. \A i \in DOMAIN queue' : IsAccept(i)' => queue'[i].id # m.id
  BY <1>2 DEF AcceptsOK, IsAccept, AcceptsCarried
<1>7. \A i \in DOMAIN queue' : FromReader(i)' => queue'[i].id # m.id
  <2> SUFFICES ASSUME NEW i \in DOMAIN queue', FromReader(i)', queue'[i].id = m.id
               PROVE  FALSE
    OBVIOUS
  <2>1. i + 1 \in DOMAIN queue /\ FromReader(i + 1) /\ queue[i + 1].id = m.id
    BY <1>2 DEF Carried, FromReader
  <2>2. i + 1 < 1
    BY <1>2, <2>1 DEF MessagesOrdered, IsAccept
  <2> QED
    BY <1>2, <2>2
<1>8. \A c : Settled(c) => c # m.conn
  BY <1>2 DEF Settled, IsAccept
<1>9. ASSUME UNCHANGED at, used'.conn = used.conn, NEW c, c = m.conn
      PROVE  Settled(c)'
  <2>1. m.conn <= used.conn
    BY <1>3, <1>4 DEF OpensOnce
  <2>2. at.pc # "accept" => m.conn # at.conn
    <3>1. at.pc # "accept" => at.fd \in Fd /\ open[at.fd] = at.conn
      BY DEF TypeOK, AcceptThreadOK, HandOK
    <3> QED
      BY <1>3, <1>4, <1>5, <3>1 DEF OpensOnce, Conn
  <2>3. \A i \in DOMAIN queue' : IsAccept(i)' => m.conn # queue'[i].conn
    <3> SUFFICES ASSUME NEW i \in DOMAIN queue', IsAccept(i)', m.conn = queue'[i].conn
                 PROVE  FALSE
      OBVIOUS
    <3>1. i + 1 \in DOMAIN queue /\ queue'[i] = queue[i + 1] /\ IsAccept(i + 1)
      BY <1>2 DEF AcceptsCarried, IsAccept
    <3>2. queue[i + 1].id \in Fd /\ open[queue[i + 1].id] = queue[i + 1].conn
      BY <1>1, <3>1, MessageFacts DEF AcceptsOK
    <3> QED
      BY <1>3, <1>4, <1>6, <3>1, <3>2 DEF OpensOnce, Conn
  <2> QED
    BY <1>9, <2>1, <2>2, <2>3 DEF Settled
<1> QED
  BY <1>3, <1>4, <1>5, <1>6, <1>7, <1>8, <1>9

\* While the message thread takes a message, what leads to a thread by another way
\* still does.
LEMMA TakeKeepsReach ==
    ASSUME TypeOK, Undisturbed, NEW cmd, Takes(cmd), NEW t \in Thread, ThreadIsReachable(t),
           \A fd \in Fd : client[fd].thread = t => client'[fd].thread = t,
           th'[t] = th[t],
           cmd # "exit"
    PROVE  ThreadIsReachable(t)'
<1>1. mt.thread # t
  BY ConstantsOK DEF Undisturbed, JoinOK, Takes
<1>2. th[t].pc = "exit" => ThreadIsReachable(t)'
  BY DEF ThreadIsReachable
<1>3. (\E i \in DOMAIN queue : queue[i].cmd = "exit" /\ queue[i].id = t)
          => ThreadIsReachable(t)'
  <2>1. /\ Head(queue) = queue[1] /\ queue[1].cmd # "exit"
        /\ \A i \in DOMAIN queue : i # 1 => i - 1 \in DOMAIN queue' /\ queue'[i - 1] = queue[i]
    <3>1. queue \in Seq(Message)
      BY DEF TypeOK
    <3> QED
      BY <3>1, TakeCarries DEF Takes
  <2> QED
    BY <2>1, ReachQueued
<1> QED
  BY <1>1, <1>2, <1>3, ReachFrame

\* A new client gets a thread, which the entry does not name yet.
LEMMA OnAcceptKeeps ==
    ASSUME TypeOK, TypeOK', Undisturbed, NEW t \in Thread, OnAccept(t)
    PROVE  Undisturbed'
<1> USE DEF Undisturbed
<1> DEFINE m == Head(queue)
<1>1. /\ queue \in Seq(Message) /\ queue' \in Seq(Message)
      /\ client \in [Fd -> Entry \cup {Absent}] /\ th \in [Thread -> ThreadState]
  BY DEF TypeOK, ThreadsOK
<1>2. /\ Takes("accept") /\ th[t].pc = "free"
      /\ th' = [th EXCEPT ![t] = [Free EXCEPT !.pc = "start", !.own = m.conn]]
      /\ mt' = [Waiting EXCEPT !.pc = "store", !.thread = t, !.fd = m.id, !.conn = m.conn]
      /\ \/ UNCHANGED client
         \/ client' = [client EXCEPT
                ![m.id] = [thread |-> NoThread, idle |-> TRUE, conn |-> m.conn]]
      /\ UNCHANGED <<open, at, app, used>>
  BY DEF OnAccept
<1>3. /\ m.id \in Fd /\ m.conn \in Conn /\ mt.pc = "wait"
      /\ open[m.id] = m.conn /\ client[m.id] = Absent
      /\ at.pc # "accept" => at.fd # m.id
      /\ \A i \in DOMAIN queue' : IsAccept(i)' \/ FromReader(i)' => queue'[i].id # m.id
      /\ \A c : Settled(c) => c # m.conn
      /\ \A c : c = m.conn => Settled(c)'
  BY <1>2, FirstAccept
<1>4. AcceptsCarried(1) /\ Carried(1) /\ \A i \in DOMAIN queue' : i \in Nat
  BY <1>1, <1>2, TakeCarries
<1>5. mt'.pc = "store" /\ mt'.thread = t /\ mt'.fd = m.id /\ mt'.conn = m.conn
  BY <1>2 DEF Waiting
<1>6. /\ \A g \in Fd : g # m.id => client'[g] = client[g]
      /\ client'[m.id].thread = NoThread
      /\ client'[m.id] # Absent => client'[m.id].conn = m.conn
  BY <1>1, <1>2, <1>3 DEF Absent
<1>7. /\ \A u \in Thread : u # t => th'[u] = th[u]
      /\ th'[t].pc = "start" /\ th'[t].fd = 0 /\ th'[t].own = m.conn
  BY <1>1, <1>2 DEF Free
<1>8. th[t].fd = 0 /\ th[t].own = 0
  BY <1>2 DEF ThreadsServe, Free
<1>9. OpensOnce'
  BY <1>2 DEF OpensOnce
<1>10. HandOK'
  <2>1. at.pc # "accept" => at.fd \in Fd /\ client'[at.fd] = Absent
    BY <1>3, <1>6 DEF TypeOK, AcceptThreadOK, HandOK
  <2> QED
    BY <1>2, <1>3, <1>4, <1>5, <2>1 DEF HandOK, AcceptsCarried, IsAccept, Storing
<1>11. AcceptsOK'
  <2>1. \A i \in DOMAIN queue' : IsAccept(i)' =>
          /\ i + 1 \in DOMAIN queue /\ queue'[i] = queue[i + 1] /\ IsAccept(i + 1)
          /\ queue[i + 1].id \in Fd
    BY <1>1, <1>4, MessageFacts DEF AcceptsCarried, IsAccept
  <2>2. \A i \in DOMAIN queue' : IsAccept(i)' =>
          /\ open'[queue'[i].id] = queue'[i].conn
          /\ client'[queue'[i].id] = Absent
          /\ ~(mt'.pc = "store" /\ mt'.fd = queue'[i].id)
    BY <1>2, <1>3, <1>5, <1>6, <2>1 DEF AcceptsOK
  <2> QED
    BY <1>4, <2>1, <2>2 DEF AcceptsOK, Storing
<1>12. EntriesOK'
  <2> SUFFICES ASSUME NEW fd \in Fd, client'[fd] # Absent
               PROVE  /\ open'[fd] = client'[fd].conn
                      /\ client'[fd].thread = NoThread => mt'.pc = "store" /\ mt'.fd = fd
                      /\ client'[fd].thread # NoThread =>
                           /\ th'[client'[fd].thread].pc # "free"
                           /\ th'[client'[fd].thread].own = client'[fd].conn
    BY DEF EntriesOK, Storing
  <2>1. CASE fd = m.id
    BY <1>2, <1>3, <1>5, <1>6, <2>1
  <2>2. CASE fd # m.id
    <3>1. /\ client'[fd] = client[fd] /\ client[fd] # Absent
          /\ client[fd].thread # NoThread /\ client[fd].thread \in Thread
      BY <1>1, <1>3, <1>6, <2>2 DEF EntriesOK, Storing, Entry
    <3>2. client[fd].thread # t
      BY <1>2, <3>1 DEF EntriesOK
    <3> QED
      BY <1>2, <1>7, <3>1, <3>2 DEF EntriesOK
  <2> QED
    BY <2>1, <2>2
<1>13. StoreOK'
  BY <1>2, <1>3, <1>5, <1>6, <1>7 DEF StoreOK
<1>14. JoinOK'
  BY <1>5 DEF JoinOK
<1>15. ThreadsServe'
  <2> SUFFICES ASSUME NEW u \in Thread
               PROVE  /\ th'[u].pc = "free" => th'[u] = Free
                      /\ th'[u].pc \in {"start", "exit"} => th'[u].fd = 0
                      /\ th'[u].pc \notin {"free", "exited"} /\ th'[u].fd # 0
                           => client'[th'[u].fd].thread = u
                      /\ th'[u].pc = "blocked" => th'[u].reads = th'[u].own
    BY DEF ThreadsServe, Active
  <2>1. CASE u = t
    BY <1>7, <2>1
  <2>2. CASE u # t
    <3>1. th'[u] = th[u] /\ th[u].fd \in Fd \cup {0}
      BY <1>1, <1>7, <2>2 DEF ThreadState
    <3>2. client[m.id].thread # u
      BY <1>3, ConstantsOK DEF Absent
    <3> QED
      BY <1>6, <3>1, <3>2 DEF ThreadsServe, Active
  <2> QED
    BY <2>1, <2>2
<1>16. OwnsOnce'
  <2>1. \A c : Settled(c) => Settled(c)'
    BY <1>2, <1>4, SettledFrame
  <2>2. \A u \in Thread : Settled(th[u].own) /\ th[u].own # m.conn
    BY <1>3 DEF OwnsOnce
  <2>3. \A u, v \in Thread : th'[u].own # 0 /\ th'[u].own = th'[v].own => u = v
    BY <1>7, <2>2 DEF OwnsOnce
  <2>4. ASSUME NEW u \in Thread, NEW c, c = th'[u].own
        PROVE  Settled(c)'
    BY <1>3, <1>7, <2>1, <2>2, <2>4
  <2> QED
    BY <2>3, <2>4 DEF OwnsOnce
<1>17. MessagesSettled'
  <2>1. \A i \in DOMAIN queue' : \E j \in DOMAIN queue : queue'[i] = queue[j]
    BY <1>4 DEF Carried
  <2> QED
    BY <1>2, <1>4, <2>1, MessagesSettledFrame
<1>18. MessagesOrdered'
  <2>1. \A i \in DOMAIN queue' : FromReader(i)' =>
          /\ i + 1 \in DOMAIN queue /\ queue'[i] = queue[i + 1]
          /\ FromReader(i + 1) /\ queue[i + 1].id \in Fd
    BY <1>1, <1>4, MessageFacts DEF Carried, FromReader
  <2>2. \A i \in DOMAIN queue' : FromReader(i)' =>
          /\ client'[queue'[i].id] # Absent => client'[queue'[i].id].conn = queue'[i].conn
          /\ ~(mt'.pc = "store" /\ mt'.fd = queue'[i].id)
    BY <1>3, <1>5, <1>6, <2>1 DEF MessagesOrdered
  <2> QED
    BY <1>1, <1>4, <2>1, <2>2, OrderedFrame
<1>19. AllReachable'
  <2> SUFFICES ASSUME NEW u \in Thread, th'[u].pc # "free"
               PROVE  ThreadIsReachable(u)'
    BY DEF AllReachable
  <2>1. CASE u = t
    BY <1>5, <2>1 DEF ThreadIsReachable
  <2>2. CASE u # t
    <3>1. th'[u] = th[u] /\ ThreadIsReachable(u)
      BY <1>7, <2>2 DEF AllReachable
    <3>2. \A fd \in Fd : client[fd].thread = u => client'[fd].thread = u
      BY <1>3, <1>6, ConstantsOK DEF Absent
    <3> QED
      BY <1>2, <3>1, <3>2, TakeKeepsReach
  <2> QED
    BY <2>1, <2>2
<1> QED
  BY <1>9, <1>10, <1>11, <1>12, <1>13, <1>14, <1>15, <1>16, <1>17, <1>18, <1>19

\* The entry of a new client names its thread from now on.
LEMMA StoreThreadKeeps ==
    ASSUME TypeOK, TypeOK', Undisturbed, StoreThread
    PROVE  Undisturbed'
<1> USE DEF Undisturbed
<1>1. /\ queue \in Seq(Message) /\ client \in [Fd -> Entry \cup {Absent}]
      /\ th \in [Thread -> ThreadState]
      /\ mt.fd \in Fd /\ mt.thread \in Thread /\ mt.conn \in Conn
      /\ mt.thread # NoThread
  BY DEF TypeOK, ThreadsOK, MessageThreadOK, MsgThreadState, StoreThread
<1>2. /\ mt.pc = "store" /\ mt' = Waiting
      /\ client' = [client EXCEPT
             ![mt.fd] = [thread |-> mt.thread, idle |-> FALSE, conn |-> mt.conn]]
      /\ UNCHANGED <<queue, open, th, at, app, used>>
  BY DEF StoreThread
<1>3. /\ mt'.pc = "wait" /\ mt'.thread = NoThread
  BY <1>2 DEF Waiting
<1>4. /\ \A g \in Fd : g # mt.fd => client'[g] = client[g]
      /\ client'[mt.fd].thread = mt.thread /\ client'[mt.fd].conn = mt.conn
  BY <1>1, <1>2
<1>5. /\ open[mt.fd] = mt.conn /\ client[mt.fd].thread = NoThread
      /\ th[mt.thread].pc # "free" /\ th[mt.thread].own = mt.conn
  BY <1>1, <1>2 DEF StoreOK
<1>6. OpensOnce' /\ StoreOK' /\ JoinOK'
  BY <1>2, <1>3 DEF OpensOnce, StoreOK, JoinOK
<1>7. HandOK'
  <2>1. at.pc # "accept" => at.fd \in Fd /\ at.fd # mt.fd
    BY <1>2 DEF HandOK, Storing, TypeOK, AcceptThreadOK
  <2> QED
    BY <1>2, <1>3, <1>4, <2>1 DEF HandOK, IsAccept, Storing
<1>8. AcceptsOK'
  <2>1. \A i \in DOMAIN queue : IsAccept(i) => queue[i].id \in Fd /\ queue[i].id # mt.fd
    BY <1>1, <1>2, MessageFacts DEF AcceptsOK, Storing
  <2> QED
    BY <1>2, <1>3, <1>4, <2>1 DEF AcceptsOK, IsAccept, Storing
<1>9. EntriesOK'
  <2> SUFFICES ASSUME NEW fd \in Fd, client'[fd] # Absent
               PROVE  /\ open'[fd] = client'[fd].conn
                      /\ client'[fd].thread # NoThread
                      /\ th'[client'[fd].thread].pc # "free"
                      /\ th'[client'[fd].thread].own = client'[fd].conn
    BY DEF EntriesOK
  <2>1. CASE fd = mt.fd
    BY <1>1, <1>2, <1>4, <1>5, <2>1, ConstantsOK
  <2>2. CASE fd # mt.fd
    BY <1>2, <1>4, <2>2 DEF EntriesOK, Storing
  <2> QED
    BY <2>1, <2>2
<1>10. ThreadsServe'
  <2>1. \A u \in Thread : th[u].fd \in Fd \cup {0} /\ client[mt.fd].thread # u
    BY <1>1, <1>5, ConstantsOK DEF ThreadState
  <2> QED
    BY <1>2, <1>4, <2>1 DEF ThreadsServe, Active
<1>11. OwnsOnce' /\ MessagesSettled'
  <2>1. \A c : Settled(c) => Settled(c)'
    BY <1>2 DEF Settled, IsAccept
  <2> QED
    BY <1>2, <2>1, OwnsAndMessages
<1>12. MessagesOrdered'
  <2>1. \A i \in DOMAIN queue : FromReader(i) => queue[i].id \in Fd /\ queue[i].id # mt.fd
    BY <1>1, <1>2, MessageFacts DEF MessagesOrdered, Storing
  <2> QED
    BY <1>2, <1>3, <1>4, <2>1 DEF MessagesOrdered, FromReader, IsAccept, Storing
<1>13. AllReachable'
  <2> SUFFICES ASSUME NEW u \in Thread, th[u].pc # "free"
               PROVE  ThreadIsReachable(u)'
    BY <1>2 DEF AllReachable
  <2>1. CASE u = mt.thread
    <3>1. client'[mt.fd].thread = u /\ client'[mt.fd] # Absent
      BY <1>1, <1>4, <2>1, ConstantsOK DEF Absent
    <3> QED
      BY <1>1, <3>1 DEF ThreadIsReachable, EntriesOf, Mapped
  <2>2. CASE u # mt.thread
    <3>1. \A fd \in Fd : client[fd].thread = u => client'[fd].thread = u
      BY <1>4, <1>5, ConstantsOK
    <3>2. th[u].pc = "exit" => ThreadIsReachable(u)'
      BY <1>2 DEF ThreadIsReachable
    <3>3. (\E i \in DOMAIN queue : queue[i].cmd = "exit" /\ queue[i].id = u)
              => ThreadIsReachable(u)'
      BY <1>2 DEF ThreadIsReachable
    <3> QED
      BY <2>2, <3>1, <3>2, <3>3, ReachFrame DEF AllReachable
  <2> QED
    BY <2>1, <2>2
<1> QED
  BY <1>6, <1>7, <1>8, <1>9, <1>10, <1>11, <1>12, <1>13

\* A client that gets no thread has an entry all the same, for the moment.
LEMMA OnAcceptNoThreadKeeps ==
    ASSUME TypeOK, TypeOK', Undisturbed, OnAcceptNoThread
    PROVE  Undisturbed'
<1> USE DEF Undisturbed
<1> DEFINE m == Head(queue)
<1>1. /\ queue \in Seq(Message) /\ queue' \in Seq(Message)
      /\ client \in [Fd -> Entry \cup {Absent}] /\ th \in [Thread -> ThreadState]
  BY DEF TypeOK, ThreadsOK
<1>2. /\ Takes("accept")
      /\ client' = [client EXCEPT
             ![m.id] = [thread |-> NoThread, idle |-> FALSE, conn |-> m.conn]]
      /\ mt' = [Waiting EXCEPT !.pc = "store", !.fd = m.id, !.conn = m.conn]
      /\ UNCHANGED <<open, th, at, app, used>>
  BY DEF OnAcceptNoThread
<1>3. /\ m.id \in Fd /\ m.conn \in Conn /\ mt.pc = "wait"
      /\ open[m.id] = m.conn /\ client[m.id] = Absent
      /\ at.pc # "accept" => at.fd # m.id
      /\ \A i \in DOMAIN queue' : IsAccept(i)' \/ FromReader(i)' => queue'[i].id # m.id
      /\ \A c : Settled(c) => c # m.conn
      /\ \A c : c = m.conn => Settled(c)'
  BY <1>2, FirstAccept
<1>4. AcceptsCarried(1) /\ Carried(1) /\ \A i \in DOMAIN queue' : i \in Nat
  BY <1>1, <1>2, TakeCarries
<1>5. mt'.pc = "store" /\ mt'.thread = NoThread /\ mt'.fd = m.id /\ mt'.conn = m.conn
  BY <1>2 DEF Waiting
<1>6. /\ \A g \in Fd : g # m.id => client'[g] = client[g]
      /\ client'[m.id].thread = NoThread
      /\ client'[m.id].conn = m.conn
  BY <1>1, <1>2, <1>3
<1>7. OpensOnce'
  BY <1>2 DEF OpensOnce
<1>8. HandOK'
  <2>1. at.pc # "accept" => at.fd \in Fd /\ client'[at.fd] = Absent
    BY <1>3, <1>6 DEF TypeOK, AcceptThreadOK, HandOK
  <2> QED
    BY <1>2, <1>3, <1>4, <1>5, <2>1 DEF HandOK, AcceptsCarried, IsAccept, Storing
<1>9. AcceptsOK'
  <2>1. \A i \in DOMAIN queue' : IsAccept(i)' =>
          /\ i + 1 \in DOMAIN queue /\ queue'[i] = queue[i + 1] /\ IsAccept(i + 1)
          /\ queue[i + 1].id \in Fd
    BY <1>1, <1>4, MessageFacts DEF AcceptsCarried, IsAccept
  <2>2. \A i \in DOMAIN queue' : IsAccept(i)' =>
          /\ open'[queue'[i].id] = queue'[i].conn
          /\ client'[queue'[i].id] = Absent
          /\ ~(mt'.pc = "store" /\ mt'.fd = queue'[i].id)
    BY <1>2, <1>3, <1>5, <1>6, <2>1 DEF AcceptsOK
  <2> QED
    BY <1>4, <2>1, <2>2 DEF AcceptsOK, Storing
<1>10. EntriesOK'
  <2> SUFFICES ASSUME NEW fd \in Fd, client'[fd] # Absent
               PROVE  /\ open'[fd] = client'[fd].conn
                      /\ client'[fd].thread = NoThread => mt'.pc = "store" /\ mt'.fd = fd
                      /\ client'[fd].thread # NoThread =>
                           /\ th'[client'[fd].thread].pc # "free"
                           /\ th'[client'[fd].thread].own = client'[fd].conn
    BY DEF EntriesOK, Storing
  <2>1. CASE fd = m.id
    BY <1>2, <1>3, <1>5, <1>6, <2>1
  <2>2. CASE fd # m.id
    <3>1. /\ client'[fd] = client[fd] /\ client[fd] # Absent
          /\ client[fd].thread # NoThread
      BY <1>3, <1>6, <2>2 DEF EntriesOK, Storing
    <3> QED
      BY <1>2, <3>1 DEF EntriesOK
  <2> QED
    BY <2>1, <2>2
<1>11. StoreOK'
  BY <1>2, <1>3, <1>5, <1>6 DEF StoreOK
<1>12. JoinOK'
  BY <1>5 DEF JoinOK
<1>13. ThreadsServe'
  <2>1. \A u \in Thread : th[u].fd \in Fd \cup {0} /\ client[m.id].thread # u
    BY <1>1, <1>3, ConstantsOK DEF ThreadState, Absent
  <2> QED
    BY <1>2, <1>6, <2>1 DEF ThreadsServe, Active
<1>14. OwnsOnce'
  BY <1>2, <1>4, OwnsFrame DEF SameThreads
<1>15. MessagesSettled'
  <2>1. \A i \in DOMAIN queue' : \E j \in DOMAIN queue : queue'[i] = queue[j]
    BY <1>4 DEF Carried
  <2> QED
    BY <1>2, <1>4, <2>1, MessagesSettledFrame
<1>16. MessagesOrdered'
  <2>1. \A i \in DOMAIN queue' : FromReader(i)' =>
          /\ i + 1 \in DOMAIN queue /\ queue'[i] = queue[i + 1]
          /\ FromReader(i + 1) /\ queue[i + 1].id \in Fd
    BY <1>1, <1>4, MessageFacts DEF Carried, FromReader
  <2>2. \A i \in DOMAIN queue' : FromReader(i)' =>
          /\ client'[queue'[i].id] # Absent => client'[queue'[i].id].conn = queue'[i].conn
          /\ ~(mt'.pc = "store" /\ mt'.fd = queue'[i].id)
    BY <1>3, <1>5, <1>6, <2>1 DEF MessagesOrdered
  <2> QED
    BY <1>1, <1>4, <2>1, <2>2, OrderedFrame
<1>17. AllReachable'
  <2>1. ASSUME NEW u \in Thread
        PROVE  \A fd \in Fd : client[fd].thread = u => client'[fd].thread = u
    BY <1>3, <1>6, ConstantsOK DEF Absent
  <2> QED
    BY <1>2, <2>1, TakeKeepsReach DEF AllReachable
<1> QED
  BY <1>7, <1>8, <1>9, <1>10, <1>11, <1>12, <1>13, <1>14, <1>15, <1>16, <1>17

\* A client that got no thread is closed, and leaves the map.
LEMMA ErasesNoThreadKeeps ==
    ASSUME TypeOK, TypeOK', Undisturbed, ErasesNoThread
    PROVE  Undisturbed'
<1> USE DEF Undisturbed
<1>1. /\ queue \in Seq(Message) /\ client \in [Fd -> Entry \cup {Absent}]
      /\ open \in [Fd -> Conn \cup {0}] /\ th \in [Thread -> ThreadState]
      /\ mt.fd \in Fd
  BY DEF TypeOK, ThreadsOK, MessageThreadOK, ErasesNoThread
<1>2. /\ mt.pc = "store" /\ mt.thread = NoThread /\ mt' = Waiting /\ eraseClient(mt.fd)
      /\ UNCHANGED <<queue, th, at, app, used>>
  BY DEF ErasesNoThread
<1>3. /\ mt'.pc = "wait" /\ mt'.thread = NoThread
  BY <1>2 DEF Waiting
<1>4. /\ \A g \in Fd : g # mt.fd => client'[g] = client[g] /\ open'[g] = open[g]
      /\ client'[mt.fd] = Absent /\ open'[mt.fd] = 0
  BY <1>1, <1>2 DEF eraseClient
<1>5. client[mt.fd].thread = NoThread
  BY <1>2 DEF StoreOK
<1>6. StoreOK' /\ JoinOK'
  BY <1>3 DEF StoreOK, JoinOK
<1>7. OpensOnce'
  BY <1>2, <1>4 DEF OpensOnce, TypeOK, Spent
<1>8. HandOK'
  <2>1. at.pc # "accept" => at.fd \in Fd /\ at.fd # mt.fd
    BY <1>2 DEF HandOK, Storing, TypeOK, AcceptThreadOK
  <2> QED
    BY <1>2, <1>3, <1>4, <2>1 DEF HandOK, IsAccept, Storing
<1>9. AcceptsOK'
  <2>1. \A i \in DOMAIN queue : IsAccept(i) => queue[i].id \in Fd /\ queue[i].id # mt.fd
    BY <1>1, <1>2, MessageFacts DEF AcceptsOK, Storing
  <2> QED
    BY <1>2, <1>3, <1>4, <2>1 DEF AcceptsOK, IsAccept, Storing
<1>10. EntriesOK'
  <2> SUFFICES ASSUME NEW fd \in Fd, client'[fd] # Absent
               PROVE  /\ open'[fd] = client'[fd].conn
                      /\ client'[fd].thread # NoThread
                      /\ th'[client'[fd].thread].pc # "free"
                      /\ th'[client'[fd].thread].own = client'[fd].conn
    BY DEF EntriesOK
  <2>1. fd # mt.fd
    BY <1>4
  <2> QED
    BY <1>2, <1>4, <2>1 DEF EntriesOK, Storing
<1>11. ThreadsServe'
  <2>1. \A u \in Thread : th[u].fd \in Fd \cup {0} /\ client[mt.fd].thread # u
    BY <1>1, <1>5, ConstantsOK DEF ThreadState
  <2> QED
    BY <1>2, <1>4, <2>1 DEF ThreadsServe, Active
<1>12. OwnsOnce' /\ MessagesSettled'
  <2>1. \A c : Settled(c) => Settled(c)'
    BY <1>2 DEF Settled, IsAccept
  <2> QED
    BY <1>2, <2>1, OwnsAndMessages
<1>13. MessagesOrdered'
  <2>1. \A i \in DOMAIN queue : FromReader(i) => queue[i].id \in Fd /\ queue[i].id # mt.fd
    BY <1>1, <1>2, MessageFacts DEF MessagesOrdered, Storing
  <2> QED
    BY <1>2, <1>3, <1>4, <2>1 DEF MessagesOrdered, FromReader, IsAccept, Storing
<1>14. AllReachable'
  <2> SUFFICES ASSUME NEW u \in Thread, th[u].pc # "free"
               PROVE  ThreadIsReachable(u)'
    BY <1>2 DEF AllReachable
  <2>1. \A fd \in Fd : client[fd].thread = u => client'[fd].thread = u
    BY <1>4, <1>5, ConstantsOK
  <2>2. mt.thread # u
    BY <1>2, ConstantsOK
  <2>3. th[u].pc = "exit" => ThreadIsReachable(u)'
    BY <1>2 DEF ThreadIsReachable
  <2>4. (\E i \in DOMAIN queue : queue[i].cmd = "exit" /\ queue[i].id = u)
            => ThreadIsReachable(u)'
    BY <1>2 DEF ThreadIsReachable
  <2> QED
    BY <2>1, <2>2, <2>3, <2>4, ReachFrame DEF AllReachable
<1> QED
  BY <1>6, <1>7, <1>8, <1>9, <1>10, <1>11, <1>12, <1>13, <1>14

\* What the end of a join closes is the client of the thread that has ended.
LEMMA JoinCloses ==
    ASSUME TypeOK, Undisturbed, JoinReturns
    PROVE  /\ mt.pc = "join" /\ mt.thread \in Thread
           /\ th[mt.thread].pc \in {"exited", "free"}
           /\ mt' = Waiting
           /\ th' = [th EXCEPT ![mt.thread] = Free]
           /\ UNCHANGED <<queue, at, app, used>>
           /\ \A g \in Fd : client[g].thread # mt.thread
                => client'[g] = client[g] /\ open'[g] = open[g]
           /\ \A g \in Fd : client[g].thread = mt.thread
                => client'[g] = Absent /\ open'[g] = 0
<1> USE DEF Undisturbed
<1>1. /\ open \in [Fd -> Conn \cup {0}] /\ client \in [Fd -> Entry \cup {Absent}]
  BY DEF TypeOK
<1>2. /\ mt.pc = "join" /\ mt.thread \in Thread
      /\ th[mt.thread].pc \in {"exited", "free"}
      /\ mt' = Waiting
      /\ th' = [th EXCEPT ![mt.thread] = Free]
      /\ UNCHANGED <<queue, at, app, used>>
  BY DEF JoinReturns, TypeOK, MessageThreadOK
<1>3. PICK fd \in Fd \cup {0} :
        /\ IF mt.fd # 0 THEN fd = mt.fd ELSE getClientSocketFD(mt.thread, fd)
        /\ \/ fd # 0 /\ eraseClient(fd)
           \/ fd = 0 /\ UNCHANGED <<client, open>>
  BY DEF JoinReturns
<1>4. \A g \in Fd : g # 0
  BY ConstantsOK
<1>5. fd # 0 => client[fd].thread = mt.thread
  BY <1>2, <1>3 DEF JoinOK, getClientSocketFD, EntriesOf
<1>6. \A g \in Fd : client[g].thread = mt.thread => fd # 0
  <2> SUFFICES ASSUME NEW g \in Fd, client[g].thread = mt.thread, fd = 0
               PROVE  FALSE
    OBVIOUS
  <2>1. client[g] # Absent
    BY <1>2, ConstantsOK DEF Absent
  <2>2. g \in EntriesOf(mt.thread)
    BY <2>1 DEF EntriesOf, Mapped
  <2>3. mt.fd = 0
    BY <1>3
  <2> QED
    BY <1>3, <1>4, <2>2, <2>3 DEF getClientSocketFD, EntriesOf, Mapped
<1>7. \A g \in Fd : client[g].thread = mt.thread => g = fd
  <2> SUFFICES ASSUME NEW g \in Fd, client[g].thread = mt.thread
               PROVE  g = fd
    OBVIOUS
  <2>1. fd \in Fd /\ client[fd].thread = mt.thread
    BY <1>3, <1>5, <1>6
  <2>2. open[g] = th[mt.thread].own /\ open[fd] = th[mt.thread].own /\ open[g] = client[g].conn
    BY <1>2, <2>1, EntryFacts
  <2>3. open[g] # 0
    BY <1>1, <1>2, <2>2, EntryFacts DEF Entry, Conn
  <2> QED
    BY <2>1, <2>2, <2>3 DEF OpensOnce
<1> QED
  BY <1>1, <1>2, <1>3, <1>5, <1>6, <1>7 DEF eraseClient

\* The end of a join releases the thread together with its client.
LEMMA JoinReturnsKeeps ==
    ASSUME TypeOK, TypeOK', Undisturbed, JoinReturns
    PROVE  Undisturbed'
<1> USE DEF Undisturbed
<1> DEFINE j == mt.thread
<1>1. /\ queue \in Seq(Message) /\ open \in [Fd -> Conn \cup {0}]
      /\ client \in [Fd -> Entry \cup {Absent}] /\ th \in [Thread -> ThreadState]
  BY DEF TypeOK, ThreadsOK
<1>2. /\ mt.pc = "join" /\ j \in Thread /\ j # NoThread
      /\ th[j].pc \in {"exited", "free"}
      /\ mt' = Waiting
      /\ th' = [th EXCEPT ![j] = Free]
      /\ UNCHANGED <<queue, at, app, used>>
  BY JoinCloses, ConstantsOK
<1>3. /\ \A g \in Fd : client[g].thread # j => client'[g] = client[g] /\ open'[g] = open[g]
      /\ \A g \in Fd : client[g].thread = j => client'[g] = Absent /\ open'[g] = 0
  BY JoinCloses
<1>4. /\ \A u \in Thread : u # j => th'[u] = th[u]
      /\ th'[j].pc = "free" /\ th'[j] = Free /\ th'[j].fd = 0 /\ th'[j].own = 0
  BY <1>1, <1>2 DEF Free
<1>5. mt'.pc = "wait" /\ mt'.thread = NoThread
  BY <1>2 DEF Waiting
<1>6. \A g \in Fd : client[g] = Absent => client[g].thread # j
  BY <1>2 DEF Absent
<1>7. OpensOnce'
  <2>1. \A g \in Fd : open'[g] \in {0, open[g]}
    BY <1>3
  <2> QED
    BY <1>2, <2>1 DEF OpensOnce, TypeOK, Spent
<1>8. HandOK'
  <2>1. at.pc # "accept" => at.fd \in Fd
    BY DEF TypeOK, AcceptThreadOK
  <2> QED
    BY <1>2, <1>3, <1>5, <1>6, <2>1 DEF HandOK, IsAccept, Storing
<1>9. AcceptsOK'
  <2>1. \A i \in DOMAIN queue : IsAccept(i) => queue[i].id \in Fd
    BY <1>1, MessageFacts
  <2> QED
    BY <1>2, <1>3, <1>5, <1>6, <2>1 DEF AcceptsOK, IsAccept, Storing
<1>10. EntriesOK'
  <2> SUFFICES ASSUME NEW fd \in Fd, client'[fd] # Absent
               PROVE  /\ open'[fd] = client'[fd].conn
                      /\ client'[fd].thread # NoThread
                      /\ th'[client'[fd].thread].pc # "free"
                      /\ th'[client'[fd].thread].own = client'[fd].conn
    BY DEF EntriesOK
  <2>1. /\ client'[fd] = client[fd] /\ open'[fd] = open[fd]
        /\ client[fd] # Absent /\ client[fd].thread # j
    BY <1>3
  <2>2. client[fd].thread \in Thread \cup {NoThread}
    BY <1>1, <2>1 DEF Entry
  <2> QED
    BY <1>2, <1>4, <2>1, <2>2 DEF EntriesOK, Storing
<1>11. StoreOK' /\ JoinOK'
  BY <1>5 DEF StoreOK, JoinOK
<1>12. ThreadsServe'
  <2> SUFFICES ASSUME NEW u \in Thread, u # j
               PROVE  /\ th[u].pc = "free" => th[u] = Free
                      /\ th[u].pc \in {"start", "exit"} => th[u].fd = 0
                      /\ Active(u) /\ th[u].fd # 0 => client'[th[u].fd].thread = u
                      /\ th[u].pc = "blocked" => th[u].reads = th[u].own
    BY <1>4 DEF ThreadsServe, Active
  <2>1. th[u].fd \in Fd \cup {0}
    BY <1>1 DEF ThreadState
  <2> QED
    BY <1>3, <2>1 DEF ThreadsServe
<1>13. \A c : Settled(c) => Settled(c)'
  BY <1>2 DEF Settled, IsAccept
<1>14. OwnsOnce'
  <2>1. \A u, v \in Thread : th'[u].own # 0 /\ th'[u].own = th'[v].own => u = v
    BY <1>4 DEF OwnsOnce
  <2>2. Settled(0)
    <3>1. 0 <= used.conn
      BY DEF TypeOK, Spent
    <3>2. at.pc # "accept" => 0 # at.conn
      BY DEF TypeOK, AcceptThreadOK, Conn
    <3>3. \A i \in DOMAIN queue : IsAccept(i) => 0 # queue[i].conn
      BY <1>1, MessageFacts DEF IsAccept, Conn
    <3> QED
      BY <3>1, <3>2, <3>3 DEF Settled
  <2>3. ASSUME NEW u \in Thread, NEW c, c = th'[u].own
        PROVE  Settled(c)'
    BY <1>4, <1>13, <2>2, <2>3 DEF OwnsOnce
  <2> QED
    BY <2>1, <2>3 DEF OwnsOnce
<1>15. MessagesSettled'
  BY <1>2, <1>13 DEF MessagesSettled, IsAbout
<1>16. MessagesOrdered'
  <2>1. \A i \in DOMAIN queue : FromReader(i) => queue[i].id \in Fd
    BY <1>1, MessageFacts
  <2>2. \A i \in DOMAIN queue : FromReader(i) =>
          (client'[queue[i].id] # Absent => client'[queue[i].id].conn = queue[i].conn)
    BY <1>3, <2>1 DEF MessagesOrdered
  <2> QED
    BY <1>2, <1>5, <2>2 DEF MessagesOrdered, FromReader, IsAccept, Storing
<1>17. AllReachable'
  <2> SUFFICES ASSUME NEW u \in Thread, u # j, th[u].pc # "free"
               PROVE  ThreadIsReachable(u)'
    BY <1>4 DEF AllReachable
  <2>1. \A fd \in Fd : client[fd].thread = u => client'[fd].thread = u
    BY <1>3
  <2>2. th[u].pc = "exit" => ThreadIsReachable(u)'
    BY <1>4 DEF ThreadIsReachable
  <2>3. (\E i \in DOMAIN queue : queue[i].cmd = "exit" /\ queue[i].id = u)
            => ThreadIsReachable(u)'
    BY <1>2 DEF ThreadIsReachable
  <2> QED
    BY <2>1, <2>2, <2>3, ReachFrame DEF AllReachable
<1> QED
  BY <1>7, <1>8, <1>9, <1>10, <1>11, <1>12, <1>14, <1>15, <1>16, <1>17

-----------------------------------------------------------------------------
(* The results *)

\* A step after which no message has struck a wrong client comes from a state in
\* which none had.
LEMMA CleanBefore == TypeOK /\ clean' /\ [Next]_vars => clean
<1> SUFFICES ASSUME TypeOK, clean', [Next]_vars
             PROVE  clean
  OBVIOUS
<1>1. CASE UNCHANGED vars
  BY <1>1 DEF vars
<1>2. CASE Environment
  BY <1>2 DEF Environment, PeerCloses, GrowsIdle, IdleTimerExpires, socketAccept,
              RecvReturnsData, CloseClientFinds
<1>3. CASE AcceptThread \/ CloseClientSends
  BY <1>3 DEF AcceptThread, CheckLimit, SendAccept, CloseClientSends
<1>4. CASE \E t \in Thread : ReceiveThread(t)
  BY <1>4 DEF ReceiveThread, LooksUpSelf, SendConnect, SendReceive, SendAlive,
              SendDisconnect, SendThreadExit, ThreadSends, EntersRecv, RecvReturnsEnd,
              CancelPoint
<1>5. CASE MessageThread
  BY <1>5 DEF MessageThread, OnAccept, OnAcceptNoThread, ErasesNoThread, StoreThread,
              OnConnectOrAlive, OnServerReceive, OnDisconnect, OnClientClose, OnThreadExit, JoinReturns,
              OnIdleTimer, ScanClosesNext, ScanEnds
<1> QED
  BY <1>1, <1>2, <1>3, <1>4, <1>5 DEF Next

\* Undisturbed holds at the start.
LEMMA UndisturbedInit == Init => Undisturbed
<1> SUFFICES ASSUME Init
             PROVE  Undisturbed
  OBVIOUS
<1>1. /\ queue = <<>> /\ DOMAIN queue = {}
      /\ \A fd \in Fd : client[fd] = Absent /\ open[fd] = 0
      /\ \A t \in Thread : th[t] = Free
      /\ at.pc = "accept" /\ mt = Waiting /\ app.pc = "idle" /\ used.conn = 0
  BY DEF Init
<1>2. /\ Free.pc = "free" /\ Free.fd = 0 /\ Free.own = 0
      /\ Waiting.pc = "wait" /\ Waiting.thread = NoThread
  BY DEF Free, Waiting
<1>3. OpensOnce /\ HandOK /\ AcceptsOK /\ EntriesOK /\ StoreOK /\ JoinOK
  BY <1>1, <1>2 DEF OpensOnce, HandOK, AcceptsOK, EntriesOK, StoreOK, JoinOK
<1>4. ThreadsServe /\ OwnsOnce
  BY <1>1, <1>2 DEF ThreadsServe, OwnsOnce, Settled, Active
<1>5. MessagesSettled /\ MessagesOrdered /\ AllReachable
  BY <1>1, <1>2 DEF MessagesSettled, MessagesOrdered, AllReachable
<1> QED
  BY <1>3, <1>4, <1>5 DEF Undisturbed

\* Every step that strikes no wrong client keeps Undisturbed.
LEMMA UndisturbedStep ==
    TypeOK /\ TypeOK' /\ NoDescriptorLeak /\ (clean => Undisturbed) /\ [Next]_vars
        => (clean' => Undisturbed')
<1> SUFFICES ASSUME TypeOK, TypeOK', NoDescriptorLeak, clean => Undisturbed, [Next]_vars, clean'
             PROVE  Undisturbed'
  OBVIOUS
<1>1. Undisturbed
  BY CleanBefore
<1>2. CASE UNCHANGED vars
  <2>1. SameClients
    BY <1>2 DEF SameClients, vars
  <2> QED
    BY <1>1, <1>2, <2>1, QuietStep DEF vars
<1>3. CASE Environment
  BY <1>1, <1>3, QuietKeeps, SocketAcceptKeeps, ReceiveThreadKeeps DEF Environment
<1>4. CASE AcceptThread
  BY <1>1, <1>4, CheckLimitKeeps, SendAcceptKeeps DEF AcceptThread
<1>5. CASE \E t \in Thread : ReceiveThread(t)
  BY <1>1, <1>5, ReceiveThreadKeeps
<1>6. CASE CloseClientSends
  BY <1>1, <1>6, QuietKeeps
<1>7. CASE MessageThread
  BY <1>1, <1>7, OnAcceptKeeps, OnAcceptNoThreadKeeps, ErasesNoThreadKeeps,
     StoreThreadKeeps, TakesKeep, JoinReturnsKeeps, QuietKeeps DEF MessageThread
<1> QED
  BY <1>2, <1>3, <1>4, <1>5, <1>6, <1>7 DEF Next

\* The invariant of every run: well typed, nothing leaks, and each connection is in
\* one place until a message strikes a wrong client.
Inv == TypeOK /\ NoDescriptorLeak /\ (clean => Undisturbed)

\* Inv is an invariant of the server.
LEMMA InvHolds == Spec => []Inv
<1>1. Init => (clean => Undisturbed)
  BY UndisturbedInit
<1>2. TypeOK /\ TypeOK' /\ NoDescriptorLeak /\ (clean => Undisturbed) /\ [Next]_vars
        => (clean => Undisturbed)'
  BY UndisturbedStep
<1> QED
  BY <1>1, <1>2, TypeCorrect, NoLeak, PTL DEF Spec, Inv

\* Until a message strikes a client it was not sent about, an entry of mapClient
\* describes the connection its descriptor refers to.
THEOREM EntryOwnsDescriptorHolds == Spec => []EntryOwnsDescriptor
<1>1. Inv => EntryOwnsDescriptor
  BY DEF Inv, Undisturbed, EntriesOK, EntryOwnsDescriptor, Mapped
<1> QED
  BY <1>1, InvHolds, PTL

\* Until then every receive thread can still be joined, and the entry that names a
\* thread is the only one and describes the connection the thread serves.
THEOREM ThreadsMatchEntriesHolds == Spec => []ThreadsMatchEntries
<1>1. ASSUME Inv, clean
      PROVE  ThreadsMatchEntries
  <2> USE DEF Inv, Undisturbed
  <2>1. \A t \in Thread : th[t].pc # "free" => ThreadIsReachable(t)
    BY <1>1 DEF AllReachable
  <2>2. ASSUME NEW fd \in Mapped, client[fd].thread # NoThread
        PROVE  /\ EntriesOf(client[fd].thread) = {fd}
               /\ th[client[fd].thread].pc # "free"
               /\ th[client[fd].thread].own = client[fd].conn
    <3> DEFINE t == client[fd].thread
    <3>1. fd \in Fd /\ client[fd] # Absent /\ t \in Thread /\ client[fd].conn # 0
      BY <1>1, <2>2 DEF Mapped, TypeOK, Entry, Conn
    <3>2. open[fd] = client[fd].conn /\ client[fd].conn = th[t].own /\ th[t].pc # "free"
      BY <1>1, <3>1, EntryFacts
    <3>3. ASSUME NEW g \in EntriesOf(t)
          PROVE  g = fd
      <4>1. g \in Fd /\ client[g].thread = t
        BY <3>3 DEF EntriesOf, Mapped
      <4>2. open[g] = th[t].own
        BY <1>1, <3>1, <4>1, EntryFacts
      <4> QED
        BY <1>1, <3>1, <3>2, <4>1, <4>2 DEF OpensOnce
    <3>4. fd \in EntriesOf(t)
      BY DEF EntriesOf
    <3> QED
      BY <3>2, <3>3, <3>4
  <2> QED
    BY <2>1, <2>2 DEF ThreadsMatchEntries
<1>2. Inv => ThreadsMatchEntries
  BY <1>1 DEF ThreadsMatchEntries
<1> QED
  BY <1>2, InvHolds, PTL

\* Until then a receive thread that waits in recv reads the connection it was
\* created for, although it looked its descriptor number up only once.
THEOREM ReadsOwnConnectionHolds == Spec => []ReadsOwnConnection
<1>1. Inv => ReadsOwnConnection
  BY DEF Inv, Undisturbed, ThreadsServe, ReadsOwnConnection
<1> QED
  BY <1>1, InvHolds, PTL

\* Until then no message of a receive thread reaches a later client that was given
\* the same descriptor.
THEOREM NoLateMessagesHolds == Spec => []NoLateMessages
<1>1. Inv => NoLateMessages
  BY DEF Inv, Undisturbed, MessagesOrdered, FromReader, NoLateMessages, Mapped
<1> QED
  BY <1>1, InvHolds, PTL

-----------------------------------------------------------------------------
(* The promise of Connections *)

\* Thread t may be in a handler of its connection.
Runs(t) == th[t].fd # 0 /\ Active(t)

\* The handlers that run are the threads that run.
LEMMA RunningIs ==
    /\ \A h : h \in Running <=> \E t \in Thread : Runs(t) /\ h = <<th[t].fd, th[t].own>>
    /\ \A h : h \in Running' <=> \E t \in Thread : Runs(t)' /\ h = <<th'[t].fd, th'[t].own>>
BY DEF Running, Runs, Active

\* No handler starts or ends when no thread starts or ends.
LEMMA RunningStays ==
    ASSUME \A t \in Thread :
               /\ Runs(t)' <=> Runs(t)
               /\ Runs(t) => th'[t].fd = th[t].fd /\ th'[t].own = th[t].own
    PROVE  UNCHANGED Running
<1>1. \A h : h \in Running' <=> h \in Running
  BY RunningIs
<1> QED
  BY <1>1

\* The handlers of a descriptor are run by the thread its entry names.
LEMMA RunningNamed ==
    ASSUME TypeOK, Undisturbed, NEW h \in Running
    PROVE  \E t \in Thread : /\ Runs(t) /\ h[1] = th[t].fd
                             /\ h[1] \in Fd /\ client[h[1]].thread = t
<1>1. PICK t \in Thread : Runs(t) /\ h = <<th[t].fd, th[t].own>>
  BY RunningIs
<1>2. th[t].fd \in Fd
  BY <1>1 DEF Runs, TypeOK, ThreadsOK, ThreadState
<1> QED
  BY <1>1, <1>2 DEF Undisturbed, ThreadsServe, Runs

\* What the promise says of one step: it opens, enters, closes or leaves, or it does
\* not touch what the promise is about.
Serves == Contract!Serves \/ UNCHANGED <<open, used.conn, Running>>

\* A descriptor that no entry names is closed under no handler.
LEMMA ClosesUnmapped ==
    ASSUME TypeOK, Undisturbed, NEW fd \in Fd,
           client[fd].thread = NoThread \/ ~Runs(client[fd].thread),
           open' = [open EXCEPT ![fd] = 0], UNCHANGED Running, used'.conn = used.conn
    PROVE  Serves
<1>1. ASSUME NEW h \in Running
      PROVE  h[1] # fd
  BY RunningNamed, ConstantsOK
<1>2. Contract!Closes(fd)
  BY <1>1 DEF Contract!Closes
<1> QED
  BY <1>2 DEF Serves, Contract!Serves

\* A thread that ends leaves its handler.
LEMMA EndingLeaves ==
    ASSUME TypeOK, Undisturbed, NEW t \in Thread, th[t].pc \notin {"free", "exited"},
           \A u \in Thread : u # t => th'[u] = th[u],
           th'[t].pc = "exited", UNCHANGED <<open, used>>
    PROVE  Serves
<1>1. CASE th[t].fd = 0
  <2>1. ~Runs(t) /\ ~Runs(t)'
    BY <1>1 DEF Runs, Active
  <2>2. UNCHANGED Running
    BY <2>1, RunningStays DEF Runs, Active
  <2> QED
    BY <2>2 DEF Serves
<1>2. CASE th[t].fd # 0
  <2> DEFINE h == <<th[t].fd, th[t].own>>
  <2>1. Runs(t) /\ ~Runs(t)' /\ \A u \in Thread : u # t => (Runs(u)' <=> Runs(u))
    BY <1>2 DEF Runs, Active
  <2>2. th[t].own # 0
    BY DEF TypeOK, ThreadsOK, Conn
  <2>3. \A u \in Thread : u # t => th[u].own # th[t].own
    BY <2>2 DEF Undisturbed, OwnsOnce
  <2>4. h \in Running
    BY <2>1, RunningIs
  <2>5. \A x : x \in Running' <=> x \in Running /\ x # h
    BY <2>1, <2>3, RunningIs
  <2>6. Running' = Running \ {h}
    BY <2>5
  <2>7. Contract!Leaves(h)
    BY <2>6 DEF Contract!Leaves
  <2> QED
    BY <2>4, <2>7 DEF Serves, Contract!Serves
<1> QED
  BY <1>1, <1>2

\* A receive thread enters and leaves handlers as promised.
LEMMA ReceiveThreadServes ==
    ASSUME TypeOK, Undisturbed, NEW t \in Thread, ReceiveThread(t) \/ RecvReturnsData(t)
    PROVE  Serves
<1>1. ThreadsOK /\ th[t] \in ThreadState
  BY DEF TypeOK, ThreadsOK
<1>2. CASE LooksUpSelf(t)
  <2>1. PICK fd \in Fd \cup {0} :
          /\ getClientSocketFD(t, fd)
          /\ th' = [th EXCEPT ![t].pc = IF fd = 0 THEN "exit" ELSE "connect", ![t].fd = fd]
    BY <1>2 DEF LooksUpSelf
  <2>2. /\ \A u \in Thread : u # t => th'[u] = th[u]
        /\ th'[t].pc = IF fd = 0 THEN "exit" ELSE "connect"
        /\ th'[t].fd = fd
        /\ th'[t].own = th[t].own
    BY <1>1, <2>1 DEF ThreadsOK, ThreadState
  <2>3. th[t].pc = "start" /\ th[t].fd = 0 /\ UNCHANGED <<open, used>>
    BY <1>2 DEF LooksUpSelf, Undisturbed, ThreadsServe
  <2>4. \A u \in Thread : u # t => (Runs(u)' <=> Runs(u))
    BY <2>2 DEF Runs, Active
  <2>5. ~Runs(t) /\ (Runs(t)' <=> fd # 0)
    BY <2>2, <2>3 DEF Runs, Active
  <2>6. CASE fd = 0
    <3>1. UNCHANGED Running
      BY <2>2, <2>4, <2>5, <2>6, RunningStays
    <3> QED
      BY <2>3, <3>1 DEF Serves
  <2>7. CASE fd # 0
    <3>1. fd \in Fd /\ client[fd].thread = t
      BY <2>1, <2>7 DEF getClientSocketFD, EntriesOf, Mapped
    <3>2. open[fd] = th[t].own /\ th[t].pc # "free"
      BY <3>1, EntryFacts
    <3>3. open[fd] # 0
      BY <3>2 DEF TypeOK, ThreadsOK, Conn
    <3>4. \A h : h \in Running' <=> h \in Running \/ h = <<fd, open[fd]>>
      BY <2>2, <2>4, <2>5, <2>7, <3>2, RunningIs
    <3>5. Running' = Running \cup {<<fd, open[fd]>>}
      BY <3>4
    <3>6. Contract!Enters(fd)
      BY <2>3, <3>3, <3>5 DEF Contract!Enters
    <3> QED
      BY <3>1, <3>6 DEF Serves, Contract!Serves
  <2> QED
    BY <2>6, <2>7
<1>3. ASSUME NEW from, NEW id, NEW to, ThreadSends(t, from, id, to), id = th[t].fd \/ from = "exit",
             from \in {"connect", "receive", "alive", "disconnect", "exit"},
             to \in {"loop", "alive", "exited"}
      PROVE  Serves
  <2>1. /\ th[t].pc = from /\ th' = [th EXCEPT ![t].pc = to]
        /\ UNCHANGED <<open, used>>
    BY <1>3 DEF ThreadSends
  <2>2. /\ \A u \in Thread : u # t => th'[u] = th[u]
        /\ th'[t].pc = to /\ th'[t].fd = th[t].fd /\ th'[t].own = th[t].own
    BY <1>1, <2>1, MovedFields
  <2>3. CASE to = "exited"
    BY <1>3, <2>1, <2>2, <2>3, EndingLeaves
  <2>4. CASE to # "exited"
    <3>1. UNCHANGED Running
      BY <1>3, <2>1, <2>2, <2>4, RunningStays DEF Runs, Active
    <3> QED
      BY <2>1, <3>1 DEF Serves
  <2> QED
    BY <2>3, <2>4
<1>4. CASE SendConnect(t) \/ SendReceive(t) \/ SendAlive(t) \/ SendDisconnect(t) \/ SendThreadExit(t)
  BY <1>3, <1>4 DEF SendConnect, SendReceive, SendAlive, SendDisconnect, SendThreadExit
<1>5. CASE EntersRecv(t)
  <2>1. th[t].pc = "loop" /\ UNCHANGED <<open, used>>
    BY <1>5 DEF EntersRecv
  <2>2. /\ \A u \in Thread : u # t => th'[u] = th[u]
        /\ th'[t].pc \in {"disconnect", "blocked"}
        /\ th'[t].fd = th[t].fd
        /\ th'[t].own = th[t].own
    BY <1>1, <1>5 DEF EntersRecv, ThreadsOK, ThreadState
  <2>3. UNCHANGED Running
    BY <2>1, <2>2, RunningStays DEF Runs, Active
  <2> QED
    BY <2>1, <2>3 DEF Serves
<1>6. ASSUME NEW pc \in {"disconnect", "receive"}, th[t].pc = "blocked",
             th' = [th EXCEPT ![t].pc = pc], UNCHANGED open, used'.conn = used.conn
      PROVE  Serves
  <2>1. UNCHANGED Running
    BY <1>1, <1>6, MovedFields, RunningStays DEF Runs, Active
  <2> QED
    BY <1>6, <2>1 DEF Serves
<1>7. CASE RecvReturnsEnd(t)
  BY <1>6, <1>7 DEF RecvReturnsEnd
<1>8. CASE RecvReturnsData(t)
  BY <1>6, <1>8 DEF RecvReturnsData, TypeOK, Spent
<1>9. CASE CancelPoint(t)
  BY <1>1, <1>9, MovedFields, EndingLeaves DEF CancelPoint
<1> QED
  BY <1>2, <1>4, <1>5, <1>7, <1>8, <1>9 DEF ReceiveThread

\* The steps of the other threads that touch no descriptor and no handler.
LEMMA OthersServe ==
    ASSUME TypeOK, Undisturbed, UNCHANGED <<th, open>>, used'.conn = used.conn
    PROVE  Serves
BY RunningStays DEF Serves, Runs, Active

\* A client that is closed on a message has no handler any more.
LEMMA TakesServe ==
    ASSUME TypeOK, Undisturbed, NoDescriptorLeak, clean', OnDisconnect \/ OnClientClose
    PROVE  Serves
<1>1. PICK cmd \in {"disconnect", "close"} :
        /\ Takes(cmd) /\ Strikes(Head(queue).id, Head(queue).conn)
        /\ UNCHANGED used
        /\ \/ /\ client[Head(queue).id].thread = NoThread
              /\ eraseClient(Head(queue).id)
              /\ UNCHANGED th
           \/ UNCHANGED open /\ \E t : UNCHANGED th \/ (client[Head(queue).id].thread = t
                                                      /\ t # NoThread /\ threadCancel(t))
  BY DEF OnDisconnect, OnClientClose
<1>2. CASE UNCHANGED th
  BY <1>1, <1>2, StrikesNothing, OthersServe
<1>3. ASSUME UNCHANGED open, NEW t, client[Head(queue).id].thread = t, t # NoThread,
             threadCancel(t)
      PROVE  Serves
  <2>1. queue \in Seq(Message) /\ ThreadsOK
    BY DEF TypeOK
  <2>2. Head(queue).id \in Fd
    BY <1>1, <2>1, TakeType DEF Command
  <2>3. t \in Thread
    BY <1>3, <2>2 DEF TypeOK, Entry, Absent
  <2>4. UNCHANGED th \/ (/\ th[t].pc \notin {"free", "exited"}
                         /\ th' = [th EXCEPT ![t].pc = "cancelled"])
    BY <1>3 DEF threadCancel
  <2>5. UNCHANGED Running
    <3>1. CASE UNCHANGED th
      BY <3>1, RunningStays DEF Runs, Active
    <3>2. CASE th[t].pc \notin {"free", "exited"} /\ th' = [th EXCEPT ![t].pc = "cancelled"]
      <4>1. /\ \A u \in Thread : u # t => th'[u] = th[u]
            /\ th'[t].pc = "cancelled" /\ th'[t].fd = th[t].fd /\ th'[t].own = th[t].own
        BY <2>1, <2>3, <3>2, MovedFields
      <4> QED
        BY <3>2, <4>1, RunningStays DEF Runs, Active
    <3> QED
      BY <2>4, <3>1, <3>2
  <2> QED
    BY <1>1, <1>3, <2>5 DEF Serves
<1> QED
  BY <1>1, <1>2, <1>3

\* Each step of the server that strikes no wrong client keeps the promise.
LEMMA ServesStep ==
    ASSUME TypeOK, TypeOK', Undisturbed, NoDescriptorLeak, clean', Next
    PROVE  Serves
<1>1. used \in Spent
  BY DEF TypeOK
<1>2. ASSUME NEW fd \in Fd, socketAccept(fd)
      PROVE  Serves
  <2>1. UNCHANGED Running
    BY <1>2, RunningStays DEF socketAccept, Runs, Active
  <2>2. Contract!Opens(fd)
    BY <1>1, <1>2, <2>1 DEF socketAccept, Contract!Opens, Spent
  <2> QED
    BY <2>2 DEF Serves, Contract!Serves
<1>3. CASE CheckLimit
  <2>1. CASE open' = [open EXCEPT ![at.fd] = 0]
    <3>1. at.fd \in Fd /\ client[at.fd].thread = NoThread
      BY <1>3 DEF CheckLimit, TypeOK, AcceptThreadOK, Undisturbed, HandOK, Absent
    <3>2. UNCHANGED Running
      BY <1>3, RunningStays DEF CheckLimit, Runs, Active
    <3> QED
      BY <1>3, <2>1, <3>1, <3>2, ClosesUnmapped DEF CheckLimit
  <2>2. CASE UNCHANGED open
    BY <1>3, <2>2, OthersServe DEF CheckLimit
  <2> QED
    BY <1>3, <2>1, <2>2 DEF CheckLimit
<1>4. CASE ErasesNoThread
  <2>1. mt.fd \in Fd /\ client[mt.fd].thread = NoThread
    BY <1>4 DEF ErasesNoThread, TypeOK, MessageThreadOK, Undisturbed, StoreOK
  <2>2. UNCHANGED Running
    BY <1>4, RunningStays DEF ErasesNoThread, Runs, Active
  <2> QED
    BY <1>4, <2>1, <2>2, ClosesUnmapped DEF ErasesNoThread, eraseClient
<1>5. ASSUME NEW t \in Thread, OnAccept(t)
      PROVE  Serves
  <2>1. /\ \A u \in Thread : u # t => th'[u] = th[u]
        /\ th[t].pc = "free" /\ th'[t].fd = 0
    BY <1>5 DEF OnAccept, Free, TypeOK, ThreadsOK
  <2>2. UNCHANGED Running
    BY <2>1, RunningStays DEF Runs, Active
  <2> QED
    BY <1>5, <2>2 DEF Serves, OnAccept
<1>6. CASE JoinReturns
  <2> DEFINE j == mt.thread
  <2>1. /\ j \in Thread /\ ~Runs(j) /\ j # NoThread
        /\ th' = [th EXCEPT ![j] = Free]
        /\ UNCHANGED used
        /\ \A g \in Fd : client[g].thread # j => open'[g] = open[g]
        /\ \A g \in Fd : client[g].thread = j => open'[g] = 0
    BY <1>6, JoinCloses, ConstantsOK DEF Runs, Active
  <2>2. /\ \A u \in Thread : u # j => th'[u] = th[u]
        /\ th'[j].fd = 0
    BY <2>1 DEF Free, TypeOK, ThreadsOK
  <2>3. UNCHANGED Running
    BY <2>1, <2>2, RunningStays DEF Runs, Active
  <2>4. PICK fd \in Fd \cup {0} :
          \/ fd # 0 /\ open' = [open EXCEPT ![fd] = 0]
          \/ fd = 0 /\ UNCHANGED open
    BY <1>6 DEF JoinReturns, eraseClient
  <2>5. CASE fd = 0
    BY <2>1, <2>3, <2>4, <2>5, ConstantsOK DEF Serves
  <2>6. CASE fd # 0 /\ client[fd].thread = j
    BY <2>1, <2>3, <2>4, <2>6, ClosesUnmapped
  <2>7. CASE fd # 0 /\ client[fd].thread # j
    <3>1. open'[fd] = 0 /\ open'[fd] = open[fd]
      BY <2>1, <2>4, <2>7 DEF TypeOK
    <3>2. UNCHANGED open
      BY <2>4, <2>7, <3>1 DEF TypeOK
    <3> QED
      BY <2>1, <2>3, <3>2 DEF Serves
  <2> QED
    BY <2>5, <2>6, <2>7
<1>7. CASE Environment
  <2>1. CASE \/ \E c \in Conn : PeerCloses(c)
             \/ \E fd \in Fd : GrowsIdle(fd)
             \/ IdleTimerExpires
             \/ \E fd \in Fd : CloseClientFinds(fd)
    BY <1>1, <2>1, OthersServe
    DEF PeerCloses, GrowsIdle, IdleTimerExpires, CloseClientFinds, Spent
  <2> QED
    BY <1>2, <1>7, <2>1, ReceiveThreadServes DEF Environment
<1>8. CASE AcceptThread
  BY <1>3, <1>8, OthersServe DEF AcceptThread, SendAccept
<1>9. CASE CloseClientSends
  BY <1>9, OthersServe DEF CloseClientSends
<1>10. CASE MessageThread
  <2>1. CASE \/ StoreThread \/ OnConnectOrAlive \/ OnServerReceive \/ OnThreadExit
             \/ OnIdleTimer \/ (\E fd \in Fd : ScanClosesNext(fd)) \/ ScanEnds
             \/ OnAcceptNoThread
    BY <2>1, OthersServe
    DEF OnAcceptNoThread, StoreThread, OnConnectOrAlive, OnServerReceive, OnThreadExit, OnIdleTimer,
        ScanClosesNext, ScanEnds
  <2> QED
    BY <1>4, <1>5, <1>6, <1>10, <2>1, TakesServe DEF MessageThread
<1> QED
  BY <1>7, <1>8, <1>9, <1>10, ReceiveThreadServes DEF Next

\* CATcpServer implements Connections: until a message strikes a client it was not
\* sent about, no descriptor is closed under a handler of its connection and no
\* handler starts with the descriptor of another connection.
THEOREM KeepsPromiseHolds == Spec => KeepsPromise
<1>1. Init => Contract!NothingYet
  <2> SUFFICES ASSUME Init
               PROVE  Contract!NothingYet
    OBVIOUS
  <2>1. \A t \in Thread : ~Runs(t)
    BY DEF Init, Runs, Free
  <2>2. Running = {}
    BY <2>1, RunningIs
  <2> QED
    BY <2>2 DEF Init, Contract!NothingYet
<1>2. Inv /\ Inv' /\ [Next]_vars
        => [clean' => clean /\ Contract!Serves]_<<open, used.conn, Running, clean>>
  <2> SUFFICES ASSUME Inv, Inv', [Next]_vars, clean'
               PROVE  \/ clean /\ Contract!Serves
                      \/ UNCHANGED <<open, used.conn, Running, clean>>
    OBVIOUS
  <2>1. clean /\ Undisturbed /\ TypeOK /\ TypeOK' /\ NoDescriptorLeak
    BY CleanBefore DEF Inv
  <2>2. CASE UNCHANGED vars
    <3>1. UNCHANGED Running
      BY <2>2, RunningStays DEF vars, Runs, Active
    <3> QED
      BY <2>2, <3>1 DEF vars
  <2>3. CASE Next
    BY <2>1, <2>3, ServesStep DEF Serves
  <2> QED
    BY <2>2, <2>3
<1> QED
  BY <1>1, <1>2, InvHolds, PTL DEF Spec, KeepsPromise, Contract!Promise,
     Contract!connectionVars

=============================================================================
