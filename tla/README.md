# ControllerPlatform: TLA+ verification

ControllerPlatform is a set of Linux processes ("controllers") written in C++.
`Global/` is the framework: message queues, threads, timers, TCP servers and
clients, a packet protocol and a supervisor.  Every `Controller-*` directory is
one process built on it.  This directory models the parts whose correctness
depends on the order in which threads, messages and connections meet, checks the
models with TLC and proves theorems about them with TLAPS.

Paths below are relative to the root of the repository.

## 1. Inventory

### 1.1 The framework (`Global/`)

| Part | State | Operations | What makes it hard |
|---|---|---|---|
| Message queue (`messageHandler/CMessageHandler.cpp`, `objectHandler/CObject.cpp`, `Handler.cpp`) | a System V queue per process, shared by all its objects; an object reads only its own filter (message type) | `initMessage`, `sendMessage` (blocks while the queue is full), `recvMessage`, `run`, `closeMsg` | several senders, a bounded buffer, receivers that also send to themselves |
| Threads and timers (`objectHandler/CThread.cpp`, `CTimer.cpp`) | pthread ids; maps of timers by number, global to the process | create, join, cancel, `setTimer`, `killTimer` | join on an id that is stale, cancellation is deferred, a timer both posts a message and calls `onTimer` in its own thread |
| `CATcpServer` (`socketHandler/CATcpServer.cpp`) | `mapClient`: descriptor to receive thread and time of last sign of life | `start`, `stop`, `closeClient`, accept thread, message thread, one receive thread per client, idle timer | see 1.3 |
| `CATcpClient` (`socketHandler/CATcpClient.cpp`) | one descriptor, the id of the message thread, the message filter | `connect`, `stop`, `closeServer`, message thread, receive thread | `stop` does not join the receive thread; its messages outlive the connection |
| `CSocketServer`, `CSocketClient` (older server and client) | descriptor, a mutex used to hand a descriptor to a new thread | `start`, `stop`, data and packet handlers | the mutex is locked by one thread and unlocked by another |
| Packet protocol (`protocolHandler/CCmpServer.cpp`, `CCmpClient.cpp`, `CAMXServer.cpp`) | no state of its own | split the byte stream into packets, answer, dispatch to handlers, send | partial headers, bodies read once, unknown commands, order of inline and queued packets |
| Supervisor (`processHandler/CProcessHandler.cpp`, `application/CApplication.cpp`) | flags written by signal handlers | fork a child, wait, fork again, stop on a signal | child deaths, stops, continues and signals at any moment |
| Concurrent queue (`queueHandler/CConcurrentQueue.cpp`) | a list and a mutex | `push`, `pop`, `empty`, `size` | each call is atomic, their combination is not |
| Data handlers (`mysqlHandler`, `psqlHandler`, `mongoDBHandler`, `sqliteHandler`), JSON, HTTP, strings, log, configuration | connections and documents | pure I/O and conversions | left out: no interaction between threads of their own |

### 1.2 The controllers

| Process | What it does | Interaction |
|---|---|---|
| `Controller-AMX` | three servers (AMX box, devices, authentication) and a `CController` that forwards a command to the box once the user is authenticated | three message threads and one controller thread; a table of pending authentications |
| `Controller-Meeting` | client of the meeting agent and of the AMX controller; watches each link with `EnquireLinkYo` and reconnects | controller thread, connect threads, enquire-link threads, message and receive threads of the clients |
| `Controller-MeetingAgent`, `-MeetingAgent2` | relays requests of mobile devices to `Controller-Meeting` and back | two servers over one map |
| `Controller-Center`, `-Dispatcher`, `-DataExchange`, `-Signin`, `-Semantic`, `-TTS` | servers that answer one kind of packet | bind tables, one request at a time |
| `Controller-Tracker2` | writes access logs; closes idle clients | the only process that runs the idle timer |
| `Controller-SyncData`, `-TransferMySQL`, `-Transfer` | copy rows from one database to another, resuming after the newest row already copied | timer re-entrance, failure between two rows |
| `Controller-Manager` | checks that the other processes are alive and records it | `/proc`, a database |
| `Controller-GCM`, `-MDM` | older processes with their own copies of `Global` | superseded by the framework |
| `Controller-Windows64`, `-AMX-Simulator`, `-Simulator`, `-Meeting-Skeleton`, `Evaluation`, `Script` | clients, simulators, scripts, templates | not part of the platform's logic |
| `Controller-Mongodb`, `-Mongodb-20170405`, `-WheelPies`, `-AMX_20170522` | database front ends and dated copies | vendored driver or older copies of modelled code |

### 1.3 Behaviours that are hard to test

`CATcpServer` is the core: every server of the platform derives from it.

- A message names a client by its descriptor and a thread by its pthread id.
  Both numbers are reused, so a message can arrive after the thing it names has
  ended and another one has taken its number.
- `mapClient` is written by the message thread and read by the accept thread,
  the receive threads and every caller of `closeClient`, without a lock.
- The message thread joins receive threads that send to its own queue, and
  sends to that queue itself when it closes idle clients.
- An `ACCEPT` message in the queue carries a client that is in no map yet: the
  limit `MAX_CLIENT`, `stop()` and the search for clients do not see it.

`Controller-AMX`:

- A command is sent to the controller in two messages, and the answer of the
  authentication server is matched with it by user only.
- The authentication server may be replaced, leave, or fall silent in the middle;
  a timer thread and receive threads change the same variables.
- Every packet sent adds a message to the queue that all servers of the process
  share, so threads that empty the queue also fill it.

`Controller-Meeting`:

- Four kinds of threads notice that a link is broken, tear it down, and build it;
  what they report can be late, double, or about a connection that has been
  replaced.
- `close` does not wake the thread that is blocked in `recv`.

`Controller-MeetingAgent2`:

- A request is kept under a number that two threads can draw at the same time,
  and its answer is sent to a descriptor that may have a new owner.
- The controller that is asked is whichever bound last; the end of the one it
  replaced is handled later, and in several steps while its thread may still run.

`Controller-SyncData`:

- Where a copy resumes is read off the rows it has copied, so a copy that ends in
  the middle, or rows that come late, can put a row behind that mark.
- The timer runs its handler in a new thread each time; a plain flag keeps the
  copies apart.

The full list, line by line, is under `hazards` in `PROJECT.json`, each with the
properties that cover it or the reason why none does.

### 1.4 What makes each part correct

| Part | Safety | Liveness |
|---|---|---|
| `CATcpServer` | no open descriptor is forgotten; an entry, its thread and its descriptor belong to one connection; nothing of an earlier client reaches a later one; no descriptor is closed under a handler of its connection; the limit holds up to the clients in flight | a client that has gone is released; `closeClient` is honoured |
| Control commands of `Controller-AMX` | a command goes to the box at most once, is overwritten by no other unless a number was given twice, and is never lost without a trace; answers and pending commands of a user balance | a pending command is decided |
| Links of `Controller-Meeting` | one thread connects at a time; no socket is lost; the end of a connection always has a witness | a broken link is rebuilt; a silent peer is noticed |
| Supervisor | one child at a time; no child outlives the parent | a child that has died is replaced; a stop signal stops both |
| Relay of `Controller-MeetingAgent2` | an answer goes to the descriptor of the device that asked, under its own number; an answered request is forgotten; a descriptor in `mapClient` is that of the connection that bound, late binds apart | a request is answered |
| Packet protocol | the packets handled are those sent, whatever the reads; a working connection is given up for three reasons only | an enquire link request is answered |
| Data synchronisation | one copy at a time, but for an overtaken expiry; until then no row is passed over, but for rows that come late or that a failure or a restart costs | rows arrive in the end, where the names of the fields can be columns |

## 2. Modules

| Module | Models | Extends |
|---|---|---|
| `TcpServer` | `CATcpServer`: accept thread, message thread, receive threads, `closeClient`, idle timer | standard modules |
| `MCTcpServer` | the symmetry of thread ids for TLC | `TcpServer` |
| `TcpServerProofs` | type correctness, the absence of descriptor leaks and the bound on clients, proved | `TcpServer`, `TLAPS` |
| `Connections` | what `CATcpServer` promises the servers derived from it | standard modules |
| `ConnectionsProofs` | the properties under `clean`, and that `TcpServer` implements `Connections`, proved | `TcpServerProofs` |
| `CmpStream` | one connection of the packet protocol: `CCmpServer` at one end, `CCmpClient` at the other | standard modules |
| `MCCmpStream` | the commands each end knows and sends, for TLC | `CmpStream` |
| `CmpStreamProofs` | type correctness and both safety properties, proved | `CmpStream`, `TLAPS` |
| `AmxControl` | a control command through `Controller-AMX` | standard modules |
| `MCAmxControl` | the symmetry of devices and users | `AmxControl` |
| `AmxControlProofs` | type correctness and all its safety properties, proved | `AmxControl`, `TLAPS` |
| `MeetingLink` | one link of `Controller-Meeting`, with the `CATcpClient` and `EnquireLinkYo` behind it | standard modules |
| `MCMeetingLink` | the symmetry of threads | `MeetingLink` |
| `MeetingLinkProofs` | type correctness and its safety properties, proved | `MeetingLink`, `TLAPS` |
| `Supervisor` | `process()` with its signal handlers, and the children it forks | standard modules |
| `MCSupervisor` | an instance for TLC | `Supervisor` |
| `SupervisorProofs` | type correctness, one child, no orphan, proved | `Supervisor`, `TLAPS` |
| `MeetingRelay` | the relay of requests and answers in `Controller-MeetingAgent2` | standard modules; instances of `Connections` |
| `MCMeetingRelay` | an instance for TLC | `MeetingRelay` |
| `MeetingRelayProofs` | all its safety properties, and the refinement of `Connections`, proved | `MeetingRelay`, `TLAPS` |
| `SyncTracker` | the copy of the trackers in `Controller-SyncData`, with its timer | standard modules |
| `MCSyncTracker` | rows and their tables for TLC | `SyncTracker` |
| `SyncTrackerProofs` | type correctness, one copy at a time, no row passed over, proved | `SyncTracker`, `TLAPS` |

Operators named `...Unchecked`, `...KeepsKey`, `...Silently` and the like, each
under a comment that starts with "Mutant", are not part of a specification: they
are plausible bugs, one for each property, that show that the property can fail.

### 2.1 `TcpServer`

| Variable | In the code |
|---|---|
| `queue` | the System V queue of the server, as its filter sees it; a send waits while it is full |
| `client` | `mapClient`; `idle` stands for an `ulAliveTime` older than `IDLE_TIMEOUT` |
| `open` | the kernel's table: which connection a descriptor number refers to |
| `th`, `at`, `mt`, `app` | where each receive thread, the accept thread, the message thread and a caller of `closeClient` stand |
| `gone` | connections whose peer has closed |
| `used` | what has been spent of the bounds |

Each case of `onReceiveMessage` is an action (`OnAccept`, `OnDisconnect`,
`OnClientClose`, `OnThreadExit`, ...).  The creation of a thread is one step, the
store of its id in the map another (`StoreThread`), because the new thread reads
the map in between.  A creation that fails takes two steps as well: the entry with
thread id 0 is in the map (`OnAcceptNoThread`) until the test of the id erases it
(`ErasesNoThread`), and `closeClient` can find it there.  `threadJoin` is an action that waits for the thread
(`JoinReturns`).  A cancelled thread ends at its next `recv` or `msgsnd`.  The
kernel gives out any descriptor that is closed and the library any thread id that
was joined: reuse is the point of the model.

`clean` is history.  It becomes false when a `DISCONNECT`, `CLIENT_CLOSE` or
`THREAD_EXIT` message strikes a connection it was not sent about.  The code does
not prevent this; it takes two messages for one client (the peer closes and
`closeClient` is called) and a new client that gets the same number.  The
properties that follow from "messages mean what they say" are stated under
`clean`; `NoDescriptorLeak` holds without it.

`ScanIsStuck` is the deadlock of `checkIdle`: the message thread sends to the
queue that only it empties.  The code does nothing against it, so the liveness
properties name it as the one state in which a client may wait for ever.

`Connections` is the abstract specification behind all servers: what a derived
server, which knows a client only by its descriptor, may rely on.  A connection
opens on a descriptor that is free, handlers of it enter and leave, and it closes
only when none of its handlers runs; `kept` says that the promise still binds.
`KeepsPromise` says that `TcpServer` implements it, with `open` for the
connections, the receive threads for the handlers and `clean` for `kept`.
`MeetingRelay` is written over the same promise: `WithinPromise` says that what
it assumes of its two servers is no more than that.

### 2.2 `AmxControl`

`dev` are the receive threads of the device server inside `onAmxControl`, `mq`
the messages that wait for the controller, `mapCtrlAuth` its table, `asked` what
the authentication server has been asked, `mAuthServer` whether one is bound, and
`mAmxBox` the box.  `alive` counts the `CONNECT_ALIVE` messages of `sendPacket`,
which take room in the same queue.  The increment of `getSequence`, the second read
of the counter that it returns (`Draws`), and the sending of each message, which may
have to wait for room, are steps of their own.  `onTimer` tells the controller in one step and forgets the server
in the next.

The request is a JSON text put together without escaping (`CServerCMP.cpp:98`).  A
token or an id that the device escaped can make the controller read another one or
none: a user in the model is the id as the controller reads it back, and
`CannotRead` is the text it cannot parse, or that lacks a member.  Such a request
leaves no entry and asks nobody; `unread` counts them by user.

Three more variables are history.  `shared`: a receive thread was returned a number
that is not its own.  `lost`: the commands that were overwritten in the table.
`regular`: the server has been bound throughout, every request reached it and no
number was given twice.  `EntriesAwaitAnswers`, `AnsweredFirst` and `HeldIsDecided`
are stated under `regular`, because an entry that was stored while the link was down
is never asked for and can swallow the answer of a later one; `CommandInOnePlace`
holds always.

Two of these properties are weaker than a reader might expect, because the code
is.  An answer that is handled between the two messages of a command erases the
entry, and `onHandleMessage` sends a command without an entry to the box at once: a
"no" that arrives early does not hold its command back.  A command whose request
could not be read finds no entry either, and goes to the box unasked.
`AnsweredFirst` says what remains true: no more commands of a user go to the box
than answers for the user were handled and requests of the user were not read.
`CommandInOnePlace` counts a command that was refused, overwritten, cleared by
`reboot_request` or sent while there was no box as dropped; beyond the count it says
that a command is overwritten only after `shared`.

### 2.3 `MeetingLink`

A connection attempt is a number; `conn` says whether our end is open and what
the peer has done, `fd` is the attempt the client's descriptor refers to, and
`reads` the attempt a receive thread is blocked on.  `CATCP_MSQ_EVENT_FILTER` is
also the number of the last attempt, so `lq[k]` is the queue of the message
thread of attempt `k`.  `ctl` walks the controller through `stopClient` and the
start of a connect thread, `ct` are the connect threads, `ely` the threads of
`EnquireLinkYo::run`.

A receive thread that outlives its connection stays in `recv` until the peer
closes or sends.  When it then calls `recv` again, its descriptor number is
closed, or belongs to the new socket (`ReceivesOn`).

`missed` is history: a report of a broken link was ignored because a connect
thread was registered (`CController.cpp:173`, `189`).  Such a report is lost for
good, which is why `EndIsNoticed` and `SilenceIsNoticed` exclude it.

`Prompt` says whether a new thread starts within the pauses of the controller
(`usleep(200)`, "wait thread to be created").  With it only one thread connects
at a time; without it `link_race` shows two.  `CreatesSocket` assumes in both
cases that threads created by an earlier attempt have started, because a connect
thread sleeps at least four seconds before each attempt.

### 2.4 `Supervisor`

`parent` walks through the loop of `process()`: `fork`, `assign` (the child runs
before `child_pid` is stored), `install`, `wait`, `close`.  `handling` says that
the parent is inside `PSigHander`, which suspends the main line.  `child` and
`stopped` describe every child forked so far; `report` is a stop or continue that
`waitpid` will report.  Signals to the parent and to a child are actions of their
own and come at any moment.

What a signal does to a child depends on when it comes.  After `CSigHander` is
installed it ends the message loop, but only if it interrupts `msgrcv`, since
nobody else reads the flag.  Before that, the first child dies of it; a later
child has inherited `PSigHander`, finds `child_pid` 0 and kills its process
group, the parent with it (`DoomedKillsAll`).

`regular` is history: no stop signal to the parent came while it had no child of
its own (lines 106 and 171: the loop condition has been passed, the new child is
not yet in `child_pid`), and `waitpid` reported no stop.  In the first case the
parent waits for a child that nobody tells to stop, in the second it forks beside
a living one; `NoOrphan` and `StopIsHonoured` say that these are the only ways.

### 2.5 `MeetingRelay`

`device` and `meeting` give the connection each descriptor belongs to.  `pc`,
`req` and `target` are the receive threads of devices inside `onMeetingCommand`:
draw a number (`Counts` and `Reads`, since `++msnSequence` and `return
msnSequence` are two accesses), keep the request (`Stores`), pick a controller
(`Picks`), send (`Sends`).  `found` is what `onDeviceCommand` has copied out of
`deviceMapData` in the receive thread of a controller, between `Finds` and
`Responds`.  Connections of both servers come and go as `Connections`
allows, so the relay stands on the promise of `TcpServer` while `clean` holds:
stale messages, `TcpServer`'s subject, do not occur here.

`mapClient` is the vector of `CServerMeeting`.  Each element is the descriptor, with
two histories: the connection that bound, and whether its end was being handled
already (`late`).  `addClient` is two steps, `Clears` and `Pushes`: between them
`sendCommand` finds no controller, and two threads that bind at once leave two
elements.  `deleteClient` takes out the first element with the descriptor.

The end of a controller's connection is in the pieces the code has it in:
`MeetingLeaves` (the peer goes), `ReceiveEnds` (`recv` returns, the `DISCONNECT`
message), `onClientDisconnect` (the message thread calls it first), `eraseClient`
(after the join).  A send to a peer that has gone may fail, and `closeClient` is
then called with the receive thread still running (`Fails`, `closing`).  After
such a `CLIENT_CLOSE` the thread may read another bind, or be cancelled in `recv`
(`ReceiveEnds`) or where it would respond (`CancelsResponse`).
`BoundIsConnected` names the bind that is read after `onClientDisconnect` as its
exception: the code leaves that descriptor in `mapClient`.

The code treats a device whose answer fails in the same way; in the model its
thread is not cancelled, and it leaves when its thread is idle.  `Lowest` is what POSIX says of `accept`: the lowest
free number, among those this server sees.

Accesses to `deviceMapData` and `mapClient` are atomic in the model; the code has
no lock, so this is an assumption.  `shared` is history: a number was drawn while
a request, an entry, a packet or an answer still went by it, because two threads
drew it at once or the counter wrapped around.  The code excludes neither.  After
that an answer can go to the wrong device, and `AnswersGoHome` and
`NoEntryAfterAnswer` promise nothing.

### 2.6 `SyncTracker`

A thread of the timer walks through `onTimer`: `checked` between the read and the
write of `mnBusy`, then `syncTrackerData` table by table (`guard`, `columns`,
`alter`, `fields`, `since`, `query`, `insert`, `end`).  `date` and `wanted` are the
source, `copied` and `columns` the destination.  A date is a number, 0 the empty
string that `max(create_date)` of an empty table becomes in `CMysqlHandler::query`;
the default of `getMysqlLastDate` is overwritten by it.  `ColumnOf` is what
`syncColume` and `syncData` make of the name of a field, in small letters and
without the spaces around it, and `Legal` the names MySQL takes for a new column:
not a word it reserves, no space or sign within, and none of the four columns every
INSERT names already.  The rows of a query are
inserted in any order, since the query asks for none, and a copied row is a
duplicate key, which the code ignores.  A fault is a connection that cannot be
made, a statement that fails, or a crash; after a crash the process starts again
with `mnBusy` cleared and the tables as they are.

Two histories say what the code does not protect.  `excused` holds the rows whose
own INSERT failed, those a crash left in a batch with a newer row copied already,
and those that reached the source with a date older than rows copied or about to
be; any of them may be passed over.  `overtaken` says that an expiry read
`mnBusy` between the read and the write of another.  Two copies then share one
`MYSQL` handle, which each closes under the other: what follows is undefined, and
the model stops there (`Undefined`).

A field that appears between `syncColume` and the INSERT is not among the
exceptions: its column is missing for every row of the batch, so the whole batch
fails and the next copy finds it again.

The first table decides for all: while it is empty in the destination nothing is
ever copied.  `RowsAreCopied` states this as its condition.

`device_field` holds whatever keys the JSON of a device had, with their capitals.
An ALTER of a name that is not `Legal` fails, and so does every INSERT that names
it; two fields that differ in capitals or spaces only are one column, which an
INSERT would name twice.  Either way no row of that table is copied any more while
nothing else has gone wrong.  The code does this: `StatementFits` and `Alters` say
so, and `RowsAreCopied` exempts such a table by name (`NamesFit`).

### 2.7 `CmpStream`

| Variable | In the code |
|---|---|
| `sent` | the packets an end has sent (`sendPacket`: one `send` for each) |
| `arrived` | how far the stream has come: whole packets, and a part of the next |
| `pc` | what the receive thread reads next: a header, the body of the packet it is at, or a body it has left unread |
| `count` | the packets it is done with |
| `given` | history: what was handed to a handler of `mapFunc` or to `onResponse` |
| `asked`, `up` | requests made; whether the network holds |

TCP brings the stream up to any point (`Arrives`), so a header or a body can be
cut where a packet is long enough to be cut.  Each outcome of `onTcpReceive` is
an action: the header is short (`ShortHeader`), the length in it is not accepted
(`InvalidLength`, the other actions have a `ValidHeader`), the packet is an enquire link
request (`EnquireLink`) or a request without a handler (`UnknownRequest`), it has
no body or one to wait for (`WholeHeader`), and the body is whole or short
(`RecvBody`).  What the function returns decides whether the loop of
`runTcpReceive` goes on: the result of the last `recv`, or of the `send` of the
answer.  The two ends have the same code; they differ in `mapFunc`.

`UnknownRequest` answers before the body is read.  The next header is then read
out of the text of that body (`RecvStray`), and of the packet behind it when the
text is shorter than a header.  A text begins with a character that makes the length
negative or far above `MAX_SOCKET_READ`, so the connection ends: the refusal of one
request costs the link.  The text of a body is taken to have such a character: that
of an empty string is a zero byte, which can make a length that is accepted with
the first bytes of the next packet, and is left out.

`sendPacket` sends texts of any length, and `onTcpReceive` refuses a packet of more
than `MAX_SOCKET_READ` bytes when it has read its header: such a packet, request or
answer, is sent like any other and ends the connection at the other end (`"large"`).
`EndHasCause` names this, an unread body and a packet cut in two as the only reasons,
apart from the network, for which an end gives up; `EnquiryIsAnswered` ends with
them too.

A body is a text or none, as all callers of `sendPacket` pass; enquire link
requests have none (`StreamAssumption`).  The sends of several threads on one
socket do not mix, since `send` puts a short packet into the stream at once; what is
mixed into the body of a large one is not read.

## 3. Runs

| Run | Question | Bounds |
|---|---|---|
| `tcp_safety` | are messages, entries and threads well formed, does anything of an earlier client touch a later one, does the server keep its promise? | 2 descriptors, 2 threads, 2 connections, queue of 4, 1 read, 1 idle timer, 1 `closeClient` |
| `tcp_live` | are clients released and calls of `closeClient` honoured? | 1 descriptor for 3 connections, 2 threads, queue of 1, 3 peers that close, 1 read, 1 idle timer, 1 `closeClient` |
| `amx_safety` | is a command ever lost, doubled, or left without its answer; do answers and commands of a user balance? | 2 devices, 2 users, 2 commands, queue of 2, 1 rebinding, 1 box |
| `amx_live` | is a waiting command decided? | 1 device, 2 commands, queue of 6, no box |
| `link_safety` | one connector, no lost socket, no unnoticed end? | 3 attempts, 1 failure, 1 break, 2 connect and 2 enquire-link threads, queue of 2 |
| `link_live` | is the link rebuilt, is a silent peer noticed? | 3 attempts, 1 failure, 1 break, 1 connect and 1 enquire-link thread |
| `sup_control` | how many children live at once, does one outlive the parent, is a stop honoured, a crash repaired? | 4 children, 3 signals, 3 deaths, 2 job-control signals |
| `sup_stop` | is a child that the log calls terminated gone? Expected: no | 2 children, 1 of everything |
| `relay_answers` | do answers find the device that asked, are they forgotten, is a descriptor in `mapClient` that of the connection that bound, is every request answered? | 2 device and 2 controller connections on 2 descriptors each, 1 controller that leaves, 1 thread at a time in `addClient`, 2 requests, numbers 1 and 2 |
| `sync_copy` | do copies overlap, is a row passed over, do rows arrive? | 2 threads, 2 tables with 1 and 2 rows, 2 dates, 3 fields (one is another in capitals, one is no name of a column), 1 fault |
| `cmp_packets` | are packets handled as they were sent, what ends a connection, is an enquire link request answered? | 2 requests of the client, 1 of the server, out of 2 known ones and 1 unknown, answers short and large; every cut of the stream |
| `link_race` | do two threads get past the check "failed on race, quit"? Expected: yes | 2 attempts, `Prompt = FALSE` |

Why these bounds reach the cases that matter: in `tcp_safety` each connection can
get either number, and the second one the number, or the thread id, of the first,
while messages about the first are still in the queue of four; two threads are
enough for one that ends while another starts.  `tcp_live` gives three
connections one number after the other and uses a queue of one message, so that
every sender waits and liveness does not rest on room in the queue.  Two commands
of one user are the least for an answer to meet an entry that is not the one it
was asked for; three attempts of a link are a connection, the one that replaces
it and the one that a late report causes.  In `relay_answers` two numbers for two
requests make the counter wrap with the first answer on its way; two controllers
are the one that was replaced and its successor, on another number or on the
same one; the second one does not leave in the run (`MaxBreak`), nor do two threads
meet in `addClient` (`MaxAdds`), and the proofs have neither bound.  In `cmp_packets` the client can put a
request with an unread body before or after one that is known, each end asks while
it is asked, answers travel among the requests, and those of the handlers may
be too long.  In `sync_copy` the first table
decides for the second: its one row is there or nothing is ever copied, so its
application needs no fields, while that of the second can have each kind of field
alone and together.  Two rows of the second are an older and a newer one
in every order of arrival; a third row finds nothing new, since the properties
compare two rows.

Deadlock is not checked (`CHECK_DEADLOCK FALSE`): every model stops when its
bounds are spent, `SyncTracker` where two copies meet.  In `amx_*` a small queue can also stop the system for real:
the controller waits for room to send to a client while the device threads wait
for room to send to the controller.  In `CATcpServer` the message thread waits
for itself when `checkIdle` meets a full queue.  The code takes no precaution
against either, so no property claims their absence; the liveness properties of
`tcp_live` say that the second is the only way a client is left waiting.

### 3.1 Fairness

Only threads and processes of the platform are fair: the scheduler runs every thread that can
run, and `msgsnd`, `recv` and `pthread_join` return when their condition holds.
Peers, devices, boxes, timers and callers promise nothing, with one exception:
in `AmxControl` an authentication server that was asked and is still connected
answers in the end; and in `MeetingRelay` a controller that stays connected
answers what it has read.  In `SyncTracker` the timer is fair, as a periodic timer
of the kernel is: an expiry that finds `mnBusy` set changes nothing, and there is
always a next one.  Its faults are bounded, so that copies succeed in the end.
In `CmpStream` TCP is fair, while the network holds: bytes that were
sent arrive.  Fairness is weak but for the receive thread of a controller in
`MeetingRelay`: it takes packets in their order, so that an answer is enabled again
and again between the binds of its peer, and is taken (strong fairness).  In `link_live` a connect that
fails is limited by `MaxFail`, and `LinkIsRebuilt` ends with the bound on
attempts.

### 3.2 What `link_race` shows

`CController.cpp:248` and `302` log "failed on race, quit" in a connect thread
that finds another one registered, and `CController.cpp:180` and `195` call the
pause after the creation of the thread "wait thread to be created".  The check
(line 300) and the registration (line 306) are two steps without a lock, and the
pause is 200 microseconds whatever the thread does.  Two reports of a broken link
in a row (the receive thread sends one, the enquire link two) can start two
threads that both find no one registered.

### 3.3 What `sup_stop` shows

`CProcessHandler.cpp:137` waits with `WUNTRACED | WCONTINUED`, so `waitpid` also
returns when a child is stopped or continued.  Lines 153 to 160 log it as such,
and line 165 then logs "Child process terminated signal" as after a death; the
loop closes the message queue and forks again.  The run finds the child alive at
that point.  `OneChild` says how far this can go: one more child for each report.

## 4. Proofs

Every invariant, action property and refinement that a passing run checks is also
a theorem.  The runs show it on a small instance, the theorem for every value of
the constants that the named assumptions allow.  `Prompt` is the only hypothesis
beyond these; it is an assumption about the scheduler and stands in the theorems
that need it (4.4).

### 4.1 `TcpServerProofs`

`TcpServerProofs` proves for every set of descriptors and threads, every queue
capacity and every bound, from `ConstantsOK` alone:

- `TypeCorrect`: `Spec => []TypeOK`.
- `NoLeak`: `Spec => []NoDescriptorLeak`.
- `AdmissionBoundHolds`: `Spec => []AdmissionBound`.

`TypeOK` is inductive as it stands, because it says of each thread what it carries
in each of its states: a serving thread a descriptor, the message thread an id and
a descriptor while it stores or joins, the scan only descriptors of the map.  It
is shown action by action (`EnvironmentType`, `AcceptThreadType`,
`CloseClientType`, `ReceiveThreadType`, `MessageThreadType`).  `Frame` disposes of
the variables a step leaves alone, so that every step proves only the parts it
disturbs.

`NoDescriptorLeak` is inductive relative to `TypeOK`.  The argument follows a
descriptor from hand to hand: `socketAccept` puts it in the hands of the accept
thread, `SendAccept` in a message (`SendQueuesAccept`), `OnAccept` takes that
message and holds it in `mt`, `StoreThread` leaves it in the map, and every step
that takes it out of the map closes it (`eraseClient`), `ErasesNoThread` among
them.  Messages are kept by
sends (`SendKeepsAccept`) and by the taking of another message
(`TakeKeepsAccept`); `LeakFrame` covers the steps that touch none of this.
`clean` is not used: the theorem holds even after a stale message has struck the
wrong client.

`AdmissionBound` says how far the clients can pass `MAX_CLIENT`: by the messages
the queue holds and one more.  It is not inductive, since `StoreThread` adds to
the map without looking at the limit.  `FlightBound` bounds the clients that are
in the map or on their way into it (`Admitted`); only the check of the limit adds
to these (`FlightFrame` covers all other steps), and at that moment the map has
room for one more, the queue names no more clients than it holds messages
(`QueuedCount`), and the accept and the message thread hold one each
(`CheckAdmits`).  No run repeats it: the theorem holds for every `MaxClient` and
`QCap`, and TLC needs four descriptors to come near the bound of the smallest.

### 4.2 `ConnectionsProofs`

From `ConstantsOK` alone as well:

- `EntryOwnsDescriptorHolds`, `ThreadsMatchEntriesHolds`,
  `ReadsOwnConnectionHolds`, `NoLateMessagesHolds`: `Spec => []` of each property.
- `KeepsPromiseHolds`: `Spec => KeepsPromise`, that `TcpServer` implements
  `Connections`.

None of these is inductive, not even with the others.  The invariant is
`TypeOK /\ NoDescriptorLeak /\ (clean => Undisturbed)`, and `Undisturbed` follows a
connection through the places it can be in.  The hand of the accept thread
(`HandOK`), a queued `ACCEPT` (`AcceptsOK`), the hand of the message thread
(`StoreOK`) and the map (`EntriesOK`) exclude each other.  The thread of a
connection is the one its entry names (`ThreadsServe`) and no other is given to it
(`OwnsOnce`).  The hard part is the queue: messages speak only of connections whose
`ACCEPT` was taken (`MessagesSettled`), and those that a receive thread sent stand
in front of the `ACCEPT` of the next client with its descriptor
(`MessagesOrdered`).  That holds because a descriptor is closed only after its
thread was joined, so that its messages are queued before the number can be
given out again.  A message of a kind that another thread can send (`DISCONNECT`,
`CLIENT_CLOSE`, `THREAD_EXIT`) has no such place, and there `clean` is needed.

For the refinement, each step is shown to open, close, enter or leave a connection
as `Connections` allows, or to change nothing it sees.  A connection is closed
only when its thread has been joined, so no handler of it runs; that is
`ThreadsServe` once more.

### 4.3 `AmxControlProofs`

For every set of users, every capacity and every bound, from `AmxConstantsOK`,
which takes the devices to be finitely many (they are connections of one server):

- `AmxTypeOK`: `Spec => []TypeOK`.
- `CommandInOnePlaceHolds`: `Spec => []CommandInOnePlace`.
- `EntriesAwaitAnswersHolds`: `Spec => []EntriesAwaitAnswers`.
- `AnsweredFirstHolds`: `Spec => []AnsweredFirst`.

The properties count messages, threads and entries, so the proof begins with what
sending and taking a message does to a count (`CountAppend`,
`CountTail`).  The invariant `AmxInv` has three layers.  Two parts always hold:
`OnePlace` (the places of a command add up to one) and `RequestsCounted` (questions,
answers on their way, answers handled and requests not read of a user are no more
than the user's commands), which is what bounds `asked`, `handled` and `unread` in
`TypeOK`.  `Unshared` holds while no number was returned twice, whatever becomes of
the link: a command has a number of its own (`OwnNumber`), is asked for once
(`AsksOnce`), and its request is in front of it on the one queue (`AsksFirst`).  From
this it follows that an entry is overwritten neither by a request, since it is the
first under its number, nor by a command, since it is the only one (`lost` stays
empty).  `Regular` holds while the link was up (`LinkUp`) as well.  `EntriesMatch`
needs the two above; `AnsweredFirst` needs that a command of which nothing is waiting
any more was let pass, which only an answer of the user, or a request of the user
that was not read, can do (`ApprovedByAnswers`), and that a command that has been
sent was no longer waiting (`SentDecided`).

### 4.4 `MeetingLinkProofs`

For every set of connect and enquire-link threads, every capacity and every bound:

- `LinkTypeOK`: `Spec => []TypeOK`, from `LinkConstantsOK` alone.
- `OneConnectorHolds`, `NoLostSocketHolds`, `EndIsNoticedHolds`: `Spec => []` of each
  property, if `Prompt` holds.

`TypeOK` bounds the `SOCKET_DISCONNECT` messages that wait for a message thread.  It
is inductive with `ReportsBounded`: an attempt is good for one such message, and
while a thread connects or the receive thread lives that message is still to come.
This does not depend on `Prompt`.

The other properties follow from `LinkInv`.  `ConnectorAlone`: there is one connect
thread, it is registered once it has passed the check of the id, the controller
waits while it starts, and tears down only when there is none.  This is where
`Prompt` is used, and the only place: without it the second of two reports finds
no one registered while the thread started for the first has not come that far,
and `link_race` shows what follows.  `SocketCurrent`: the descriptor is that of the
last attempt or closed, and no other socket of ours is open.  `SocketWatched`: a
connected socket is read by its receive thread, or the end was told, and then the
report is at one of the places that `EndIsNoticed` lists, unless it was ignored
(`missed`).  `NothingYet` is needed for the first connect thread, which the
controller does not wait for.

### 4.5 `SupervisorProofs`

For every value of the bounds, from `SupervisorConstantsOK` alone:

- `SupervisorTypeCorrect`: `Spec => []TypeOK`.
- `NoOrphanHolds`: `Spec => []NoOrphan`.
- `OneChildHolds`: `Spec => []OneChild`.

`NoOrphan` needs a strengthening: `OnlyLastAlive` says that under `regular` only
the child forked last can be alive, and none while the parent is about to fork or
has ended; with `TypeOK` (the parent waits for the last child) it is inductive.
`OneChild` follows from `UnwaitedCounted`: the children alive that the parent
does not wait for are no more than the job-control reports, since a fork comes
only after such a report or a death.  `NoFurther` covers every step that leaves
nobody behind.

### 4.6 `MeetingRelayProofs`

For every set of descriptors, every number range and every bound, from
`RelayAssumption` alone:

- `RelayTypeCorrect`: `Spec => []TypeOK`.
- `BoundIsConnectedHolds`: `Spec => []BoundIsConnected`.
- `RelayWithinPromise`: `Spec => WithinPromise`.
- `AnswersGoHomeHolds`: `Spec => []AnswersGoHome`.
- `NoEntryAfterAnswerHolds`: `Spec => []NoEntryAfterAnswer`.
- `BoundUntilItLeavesHolds`: `Spec => BoundUntilItLeaves`.

`BoundIsConnected` rests on `BoundsAtHome`: no descriptor is in `mapClient` twice, or
while the thread of its connection is in `addClient`; and an element that is not
late belongs to a connection whose end has not been handled.  So what
`deleteClient` takes out is all there was of a connection, and `eraseClient` closes
no descriptor that is still in `mapClient`, late ones apart.

The refinement maps every step to one of `Connections` or a stutter, for each
server in turn: a device that asks is `Enters`, the last step of its thread is
`Leaves`, a device that leaves is `Closes`, and the guard of `DeviceLeaves` (the
thread is idle) gives the guard of `Closes` (no handler on the descriptor).  It
rests on `DevicesAtHome` and `LinksAtHome`: a busy thread's connection still holds
the descriptor its request came in on, and a thread that has ended has nothing
left to handle.

The invariant behind the answers has one part that always holds (a thread's
number, entry and packets belong to requests that were made) and one under
`~shared`: `NumbersUsedOnce` (two requests that go by one number are the same),
`EntriesMatch` and `AnswersMatch` (an entry, and an answer on its way, that go by
the number of a request carry what that request carried) and `EntriesAreOpen` (an
entry whose request was answered is no entry).  A number that is drawn is not in
use, or `shared` becomes true: that is what makes the part inductive.

`ForgottenStep` shows `BoundUntilItLeaves` action by action: outside a bind only
`deleteClient` shortens `mapClient`, and it takes out the descriptor it is given.

### 4.7 `SyncTrackerProofs`

For all threads, rows, tables, fields and bounds, from `SyncConstantsOK` alone:

- `SyncTypeCorrect`: `Spec => []TypeOK`.
- `OneSyncHolds`: `Spec => []OneSync`.
- `NothingSkippedHolds`: `Spec => []NothingSkipped`.

`NothingSkipped` promises nothing about the rows in `excused` (2.6), the rows that
come late without any failure among them, nor anything once an expiry was overtaken.

Until an expiry is overtaken, one thread at most is inside `onTimer` and `mnBusy`
is set while it copies (`OneInside`, `BusyWhileCopying`).  On top of this,
`NothingSkipped` needs to know what each stage of a copy carries: the date read is
that of a copied row (`SinceOfCopied`), so a query leaves no pending row of its
table outside the batch; rows about to be copied pass no pending row
(`BatchPassesNone`), so each INSERT keeps the invariant whatever the order; and a
batch that will fail as a whole was not passed when it was selected
(`BatchNotPassed`), so its rows stay to be found.  `NoRowMoves` covers the steps
that move no row.

### 4.8 `CmpStreamProofs`

For every set of commands, handlers and requests, from `StreamAssumption` alone:

- `StreamTypeCorrect`: `Spec => []TypeOK`.
- `GivenAsSentHolds`: `Spec => []GivenAsSent`.
- `EndHasCauseHolds`: `Spec => []EndHasCause`.

The invariant `Inv` adds two facts to `TypeOK`.  `Plain`: enquire link requests
have no body, so that the parser may answer one without reading on.  `Reading`: a
thread that waits for a body is at a packet that has one and passes, and one that
reads a stray body is at a request without a handler.  `GivenAsSent` then follows
step by step, because a thread is done with a packet (`count`) exactly when it
has handed it over or answered it itself.  `EndHasCause` needs that what an end
has met, a piece, an unread body or a packet too long, is still there after it has given up: nothing
arrives at an end that reads no more.  `Frame(e)` sums up what any step of the
receive thread of `e` may do; it is shown once, action by action
(`ReceiveFrame`), and is all that the preservation lemmas use.

### 4.9 Only model-checked

- The liveness properties: `GoneIsReleased`, `CloseIsHonoured`, `HeldIsDecided`,
  `LinkIsRebuilt`, `SilenceIsNoticed`, `StopIsHonoured`, `CrashIsRepaired`,
  `RequestIsAnswered`, `RowsAreCopied` and `EnquiryIsAnswered`.  They rest on
  fairness, that is on `ENABLED`, which the prover does not reason about.
- The two runs that find a violation.

## 5. Not modelled

- `start()` and `stop()` of `CATcpServer`, and the initialisation of
  `munRunThreadId`.
- Data races on `std::map` and `std::set`: each access is atomic in the models.
- In `CmpStream`: the queue receive mode (`bUseQueueReceive`), which no controller
  switches on, an empty text as the body of a refused request, a full socket buffer, and the `CONNECT_ALIVE` message of each packet
  (it is in `AmxControl`).  What the derived servers do with a packet is modelled
  for control commands and the relay only.
- In `AmxControl`: the status request and its broadcast, the set of bound
  devices, and the steps within `CServerAuth` (`AmxControl` lets the server bind,
  leave and be forgotten at any time, which covers what the controller can see).
- In `MeetingLink`: the requests carried by the links, `AppVersionHandler`,
  `DoorAccessControl`, and the count of outstanding enquire links (a peer that
  does not answer is reported sooner or later).
- In `MeetingRelay`: a receive thread of a device that is cancelled by `closeClient`
  inside `onMeetingCommand`, requests that `CServerDevice` answers on the
  spot, and the messages to the controller that report an FCM id or a Facebook token.
  `Controller-MeetingAgent`, the older relay, keeps every bound controller, asks
  the first of them and handles all packets under one lock.
- In `SyncTracker`: `syncTrackerUser`, which has the steps of `syncData` without
  the fields, and the transfer programs, which copy once in the same way.
- Databases, JSON, HTTP, logs, configuration: pure I/O and conversions.
- Almost all lines of the repository are not the platform's: several copies of the
  MongoDB driver and of its tests (`extLibs`), older copies of controllers, scripts
  and data.  Of the platform's own code what is left holds little state between
  two calls.

## 6. Plan

What a next extension would take, in this order:

1. `TcpServer`: `start` and `stop`.
2. `AuthLink`: the steps inside `CServerAuth` (`onBind` with its deferred
   `closeClient`, `onTimer` in its own thread, `onClientDisconnect`), over
   `Connections`; then `AmxControl` over `AuthLink`.
3. `MessageQueue`: several filters over one bounded buffer, shown to implement
   one queue for each filter.
