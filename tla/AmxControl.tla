----------------------------- MODULE AmxControl -----------------------------
(***************************************************************************)
(* The path of a control command through Controller-AMX:                    *)
(*   - a receive thread of the device server (CServerCMP::onAmxControl)     *)
(*     asks the controller to authenticate a user and then hands it the     *)
(*     command, in two messages;                                            *)
(*   - the controller thread (CController::onHandleMessage) asks the        *)
(*     authentication server and keeps the command in mapCtrlAuth;          *)
(*   - a receive thread of CServerAuth turns the answer into a message;     *)
(*   - the box server (CServerAMX) sends the command to mAmxBox.            *)
(* All of them share one System V message queue and its capacity.           *)
(*                                                                          *)
(* An answer carries the user's id only.  The device server writes the id   *)
(* and the token into a text without escaping them, and the controller      *)
(* parses that text: a user is the id as the controller reads it back, and  *)
(* a text it cannot read is a case of its own.  A command is an abstract    *)
(* number.                                                                  *)
(***************************************************************************)
EXTENDS Naturals, Sequences, FiniteSets

CONSTANTS
    Device,     \* connections of the device server
    User,       \* user ids
    NoUser,     \* no user
    MaxCmd,     \* bound: commands issued in a behaviour
    QCap,       \* messages the shared queue holds before msgsnd blocks
    MaxLink,    \* bound: bindings of an authentication server
    MaxBox      \* bound: AMX boxes connected at a time

ASSUME AmxConstantsOK ==
    /\ IsFiniteSet(Device)
    /\ NoUser \notin User
    /\ MaxCmd \in Nat
    /\ QCap \in Nat \ {0}
    /\ MaxLink \in Nat
    /\ MaxBox \in Nat

VARIABLES
    mq,         \* messages waiting for the controller
    alive,      \* CONNECT_ALIVE messages waiting for the servers in the same queue
    seq,        \* msnSequence of CServerCMP.cpp
    dev,        \* device receive threads
    mapCtrlAuth,\* pending authentications, by sequence number
    ctl,        \* the controller thread: "idle", or "alive": inside sendPacket
    mAuthServer,\* is an authentication server bound? (its descriptor in the code)
    asked,      \* authentication requests the server has not answered
    drops,      \* CServerAuth::onTimer has told the controller and drops the server next
    link,       \* bound: bindings so far
    mAmxBox,    \* the box commands go to, 0 if none
    boxes,      \* boxes that are connected
    owner,      \* history: the user of each command issued
    shared,     \* history: a receive thread was returned a number that is not its own
    sent,       \* history: how often each command went to a box
    dropped,    \* history: commands refused, overwritten, cleared or sent to no box
    lost,       \* history: those of them that were overwritten in the table
    handled,    \* history: answers the controller has handled, by user
    unread,     \* history: requests whose text the controller could not read, by user
    regular     \* history: the link was up throughout and no number was given twice

vars == <<mq, alive, seq, dev, mapCtrlAuth, ctl, mAuthServer, asked, drops, link, mAmxBox,
          boxes, owner, shared, sent, dropped, lost, handled, unread, regular>>
deviceVars == <<seq, dev, owner, shared>>
authVars == <<mAuthServer, asked, drops, link>>
boxVars == <<mAmxBox, boxes>>
fateVars == <<sent, dropped, lost>>
answerVars == <<handled, unread>>

Cmd == 1..MaxCmd

NoEntry == [user |-> NoUser, cmd |-> 0]

Message ==
    [what : {"authentication_request"}, id : Cmd, user : User]
    \cup [what : {"amx_control_request"}, id : Cmd, cmd : Cmd]
    \cup [what : {"authentication_response"}, user : User, yes : BOOLEAN]
    \cup {[what |-> "reboot_request"]}

DeviceState ==
    [pc : {"idle", "counted", "drawn", "control", "respond"}, cmd : 0..MaxCmd, id : 0..MaxCmd,
     user : User \cup {NoUser}]

Idle == [pc |-> "idle", cmd |-> 0, id |-> 0, user |-> NoUser]

Issued == Cardinality({c \in Cmd : owner[c] # NoUser})

TypeOK ==
    /\ mq \in Seq(Message)
    /\ alive \in Nat /\ Len(mq) + alive <= QCap
    /\ seq \in 0..MaxCmd
    /\ dev \in [Device -> DeviceState]
    /\ mapCtrlAuth \in [Cmd -> [user : User \cup {NoUser}, cmd : 0..MaxCmd]]
    /\ ctl \in {"idle", "alive"}
    /\ mAuthServer \in BOOLEAN
    /\ asked \in [User -> 0..MaxCmd]
    /\ drops \in BOOLEAN
    /\ link \in 0..MaxLink
    /\ mAmxBox \in 0..MaxBox
    /\ boxes \subseteq 1..MaxBox
    /\ owner \in [Cmd -> User \cup {NoUser}]
    /\ shared \in BOOLEAN
    /\ sent \in [Cmd -> 0..2]
    /\ dropped \subseteq Cmd
    /\ lost \subseteq dropped
    /\ handled \in [User -> 0..MaxCmd]
    /\ unread \in [User -> 0..MaxCmd]
    /\ regular \in BOOLEAN

\* A controller whose authentication server has bound, or has not yet.
Init ==
    /\ mq = <<>> /\ alive = 0
    /\ seq = 0
    /\ dev = [d \in Device |-> Idle]
    /\ mapCtrlAuth = [n \in Cmd |-> NoEntry]
    /\ ctl = "idle"
    /\ mAuthServer \in BOOLEAN
    /\ asked = [u \in User |-> 0]
    /\ drops = FALSE
    /\ link = 0
    /\ mAmxBox = 0 /\ boxes = {}
    /\ owner = [c \in Cmd |-> NoUser]
    /\ shared = FALSE
    /\ sent = [c \in Cmd |-> 0]
    /\ dropped = {} /\ lost = {}
    /\ handled = [u \in User |-> 0]
    /\ unread = [u \in User |-> 0]
    /\ regular = mAuthServer

-----------------------------------------------------------------------------
(* The shared queue *)

Room == Len(mq) + alive < QCap

sendMessage(m) == Room /\ mq' = Append(mq, m)

\* Mutant: a full queue is not waited for.
sendAliveAnyway == alive' = alive + 1

\* sendPacket has sent a packet: a CONNECT_ALIVE message to the server's thread.
sendAlive == Room /\ alive' = alive + 1

\* A message thread of one of the servers takes a CONNECT_ALIVE message.
TakeAlive ==
    /\ alive > 0
    /\ alive' = alive - 1
    /\ UNCHANGED <<mq, deviceVars, mapCtrlAuth, ctl, authVars, boxVars, fateVars,
                   answerVars, regular>>

Takes(what) ==
    /\ ctl = "idle"
    /\ mq # <<>>
    /\ Head(mq).what = what
    /\ mq' = Tail(mq)

-----------------------------------------------------------------------------
(* What becomes of the commands of set S (none or one) *)

Discards(S) == dropped' = dropped \cup S /\ UNCHANGED <<sent, lost>>

\* Another command takes their place in the table.
Overwrites(S) == dropped' = dropped \cup S /\ lost' = lost \cup S /\ UNCHANGED sent

\* CServerAMX::requestAMX sends them, if there is a box to send them to.
requestAMX(S) ==
    \/ /\ mAmxBox # 0
       /\ sent' = [c \in Cmd |-> IF c \in S THEN sent[c] + 1 ELSE sent[c]]
       /\ UNCHANGED <<dropped, lost>>
    \/ mAmxBox = 0 /\ Discards(S)

-----------------------------------------------------------------------------
(* CServerCMP::onAmxControl, in the receive thread of device d *)

\* getSequence increments a counter that every receive thread shares ...
Increments(d, u) ==
    /\ dev[d].pc = "idle"
    /\ Issued < MaxCmd
    /\ seq' = seq + 1
    /\ owner' = [owner EXCEPT ![Issued + 1] = u]
    /\ dev' = [dev EXCEPT ![d] = [pc |-> "counted", cmd |-> Issued + 1, id |-> 0, user |-> u]]
    /\ UNCHANGED <<mq, alive, shared, mapCtrlAuth, ctl, authVars, boxVars, fateVars, answerVars,
                   regular>>

\* ... and reads it again to return it: two threads may get the same number.
Draws(d) ==
    /\ dev[d].pc = "counted"
    /\ dev' = [dev EXCEPT ![d].pc = "drawn", ![d].id = seq]
    /\ shared' = (shared \/ seq # dev[d].cmd)
    /\ regular' = (regular /\ seq = dev[d].cmd)
    /\ UNCHANGED <<mq, alive, seq, owner, mapCtrlAuth, ctl, authVars, boxVars, fateVars,
                   answerVars>>

\* The request to authenticate the user goes first; the queue may be full.
SendAuthentication(d) ==
    /\ dev[d].pc = "drawn"
    /\ sendMessage([what |-> "authentication_request", id |-> dev[d].id, user |-> dev[d].user])
    /\ dev' = [dev EXCEPT ![d].pc = "control"]
    /\ UNCHANGED <<alive, seq, owner, shared, mapCtrlAuth, ctl, authVars, boxVars, fateVars,
                   answerVars, regular>>

\* The command is sent in a second message, unless there is no such command.
SendControl(d) ==
    /\ dev[d].pc = "control"
    /\ sendMessage([what |-> "amx_control_request", id |-> dev[d].id, cmd |-> dev[d].cmd])
    /\ dev' = [dev EXCEPT ![d].pc = "respond"]
    /\ UNCHANGED <<alive, seq, owner, shared, mapCtrlAuth, ctl, authVars, boxVars, fateVars,
                   answerVars, regular>>

\* No token or id in the packet: nothing is sent.  No such command: one message.
NoCommand(d) ==
    /\ dev[d].pc \in {"drawn", "control"}
    /\ dev' = [dev EXCEPT ![d].pc = "respond"]
    /\ Discards({dev[d].cmd})
    /\ UNCHANGED <<mq, alive, seq, owner, shared, mapCtrlAuth, ctl, authVars, boxVars,
                   answerVars, regular>>

Respond(d) ==
    /\ dev[d].pc = "respond"
    /\ sendAlive
    /\ dev' = [dev EXCEPT ![d] = Idle]
    /\ UNCHANGED <<mq, seq, owner, shared, mapCtrlAuth, ctl, authVars, boxVars, fateVars,
                   answerVars, regular>>

DeviceThread(d) ==
    Draws(d) \/ SendAuthentication(d) \/ SendControl(d) \/ NoCommand(d) \/ Respond(d)

-----------------------------------------------------------------------------
(* CController::onHandleMessage *)

\* The command an entry holds, as a set.
Held(n) == {c \in Cmd : mapCtrlAuth[n].cmd = c}

\* The text of a request is not JSON, or has no token or id: nothing is stored and
\* nobody is asked.
CannotRead(m) ==
    /\ unread' = [unread EXCEPT ![m.user] = @ + 1]
    /\ UNCHANGED <<mapCtrlAuth, ctl, asked, fateVars, regular>>

\* A new entry, and a request if a server is bound.  Sending it may fail: then the
\* server is closed, and the entry stays.
Asks(m) ==
    /\ mapCtrlAuth' = [mapCtrlAuth EXCEPT ![m.id] = [user |-> m.user, cmd |-> 0]]
    /\ Overwrites(Held(m.id))
    /\ \/ /\ mAuthServer
          /\ ctl' = "alive"
          /\ \/ asked' = [asked EXCEPT ![m.user] = @ + 1] /\ UNCHANGED regular
             \/ regular' = FALSE /\ UNCHANGED asked
       \/ /\ ~mAuthServer
          /\ regular' = FALSE
          /\ UNCHANGED <<asked, ctl>>
    /\ UNCHANGED unread

OnAuthenticationRequest ==
    /\ Takes("authentication_request")
    /\ CannotRead(Head(mq)) \/ Asks(Head(mq))
    /\ UNCHANGED <<alive, deviceVars, mAuthServer, link, boxVars, handled, drops>>

\* The CONNECT_ALIVE message of the request to the authentication server, or the
\* SOCKET_CLIENT_CLOSE message when it could not be sent.
ControllerSendsAlive ==
    /\ ctl = "alive"
    /\ sendAlive
    /\ ctl' = "idle"
    /\ UNCHANGED <<mq, deviceVars, mapCtrlAuth, authVars, boxVars, fateVars, answerVars, regular>>

\* Mutant: the entry is looked up by its command instead of its key.
HoldsCommandByCommand(m) == mAuthServer /\ mapCtrlAuth[m.id].cmd # 0

\* amx_control_request: kept in the entry while an authentication is pending.
HoldsCommand(m) == mAuthServer /\ mapCtrlAuth[m.id] # NoEntry

OnControlRequest ==
    /\ Takes("amx_control_request")
    /\ LET m == Head(mq) IN
       \/ /\ HoldsCommand(m)
          /\ mapCtrlAuth' = [mapCtrlAuth EXCEPT ![m.id].cmd = m.cmd]
          /\ Overwrites(Held(m.id))
       \/ /\ ~HoldsCommand(m)
          /\ requestAMX({m.cmd})
          /\ UNCHANGED mapCtrlAuth
    /\ UNCHANGED <<alive, deviceVars, ctl, authVars, boxVars, answerVars, regular>>

\* The first entry of the user, in the order of the sequence numbers.
FirstEntry(u, n) ==
    /\ mapCtrlAuth[n].user = u
    /\ \A k \in Cmd : mapCtrlAuth[k].user = u => n <= k

\* Mutant: the entry is erased only when its command is sent.
DecidesKeepsRefused(u, yes) ==
    \/ \E n \in Cmd :
        /\ FirstEntry(u, n)
        /\ \/ /\ yes /\ requestAMX(Held(n))
              /\ mapCtrlAuth' = [mapCtrlAuth EXCEPT ![n] = NoEntry]
           \/ ~yes /\ UNCHANGED <<mapCtrlAuth, fateVars>>
    \/ /\ \A n \in Cmd : mapCtrlAuth[n].user # u
       /\ UNCHANGED <<mapCtrlAuth, fateVars>>

\* Mutant: the entry is not erased.
DecidesKeepsEntry(u, yes) ==
    /\ UNCHANGED mapCtrlAuth
    /\ \/ \E n \in Cmd :
           /\ FirstEntry(u, n)
           /\ \/ yes /\ requestAMX(Held(n))
              \/ ~yes /\ Discards(Held(n))
       \/ /\ \A n \in Cmd : mapCtrlAuth[n].user # u
          /\ UNCHANGED fateVars

\* authentication_response: the entry is erased, its command sent on "y".
Decides(u, yes) ==
    \/ \E n \in Cmd :
        /\ FirstEntry(u, n)
        /\ mapCtrlAuth' = [mapCtrlAuth EXCEPT ![n] = NoEntry]
        /\ \/ yes /\ requestAMX(Held(n))
           \/ ~yes /\ Discards(Held(n))
    \/ /\ \A n \in Cmd : mapCtrlAuth[n].user # u
       /\ UNCHANGED <<mapCtrlAuth, fateVars>>

OnAuthenticationResponse ==
    /\ Takes("authentication_response")
    /\ Decides(Head(mq).user, Head(mq).yes)
    /\ handled' = [handled EXCEPT ![Head(mq).user] = @ + 1]
    /\ UNCHANGED <<alive, deviceVars, ctl, authVars, boxVars, unread, regular>>

\* reboot_request: the link to the authentication server was dropped.
OnRebootRequest ==
    /\ Takes("reboot_request")
    /\ mapCtrlAuth' = [n \in Cmd |-> NoEntry]
    /\ Discards(UNION {Held(n) : n \in Cmd})
    /\ UNCHANGED <<alive, deviceVars, ctl, authVars, boxVars, answerVars, regular>>

Controller ==
    \/ OnAuthenticationRequest
    \/ ControllerSendsAlive
    \/ OnControlRequest
    \/ OnAuthenticationResponse
    \/ OnRebootRequest

-----------------------------------------------------------------------------
(* CServerAuth, as the controller sees it *)

\* onResponse: the answer to a request becomes a message.
onResponse(u, yes) ==
    /\ asked[u] > 0
    /\ asked' = [asked EXCEPT ![u] = @ - 1]
    /\ sendMessage([what |-> "authentication_response", user |-> u, yes |-> yes])
    /\ UNCHANGED <<alive, deviceVars, mapCtrlAuth, ctl, mAuthServer, drops, link, boxVars,
                   fateVars, answerVars, regular>>

\* onBind: the new server has not been asked anything.
onBind ==
    /\ link < MaxLink
    /\ link' = link + 1
    /\ mAuthServer' = TRUE
    /\ regular' = (regular /\ ~mAuthServer)
    /\ UNCHANGED <<mq, alive, deviceVars, mapCtrlAuth, ctl, asked, drops, boxVars, fateVars,
                   answerVars>>

\* onUnbind and onClientDisconnect: the controller is not told.
onUnbind ==
    /\ mAuthServer
    /\ mAuthServer' = FALSE
    /\ regular' = FALSE
    /\ UNCHANGED <<mq, alive, deviceVars, mapCtrlAuth, ctl, asked, drops, link, boxVars,
                   fateVars, answerVars>>

\* onTimer: no answer to the last enquire link.  The controller is told first,
\* the server is forgotten later, in the timer's own thread.
onTimerTells ==
    /\ ~drops
    /\ mAuthServer
    /\ sendMessage([what |-> "reboot_request"])
    /\ drops' = TRUE
    /\ regular' = FALSE
    /\ UNCHANGED <<alive, deviceVars, mapCtrlAuth, ctl, mAuthServer, asked, link, boxVars,
                   fateVars, answerVars>>

onTimerDrops ==
    /\ drops
    /\ drops' = FALSE
    /\ mAuthServer' = FALSE
    /\ UNCHANGED <<mq, alive, deviceVars, mapCtrlAuth, ctl, asked, link, boxVars, fateVars,
                   answerVars, regular>>

\* A server whose connection has ended does not answer any more.
AnswersAreLost ==
    /\ ~regular
    /\ asked' = [u \in User |-> 0]
    /\ UNCHANGED <<mq, alive, deviceVars, mapCtrlAuth, ctl, mAuthServer, drops, link,
                   boxVars, fateVars, answerVars, regular>>

-----------------------------------------------------------------------------
(* CServerAMX *)

onClientConnect(b) ==
    /\ b \notin boxes
    /\ boxes' = boxes \cup {b}
    /\ mAmxBox' = b
    /\ UNCHANGED <<mq, alive, deviceVars, mapCtrlAuth, ctl, authVars, fateVars, answerVars, regular>>

\* Whichever box leaves, the controller has none.
onClientDisconnect(b) ==
    /\ b \in boxes
    /\ boxes' = boxes \ {b}
    /\ mAmxBox' = 0
    /\ UNCHANGED <<mq, alive, deviceVars, mapCtrlAuth, ctl, authVars, fateVars, answerVars, regular>>

-----------------------------------------------------------------------------

Environment ==
    \/ \E d \in Device, u \in User : Increments(d, u)
    \/ onBind
    \/ onUnbind
    \/ onTimerTells
    \/ onTimerDrops
    \/ AnswersAreLost
    \/ \E b \in 1..MaxBox : onClientConnect(b) \/ onClientDisconnect(b)

Answers(u) == \E yes \in BOOLEAN : onResponse(u, yes)

Next ==
    \/ Environment
    \/ \E u \in User : Answers(u)
    \/ TakeAlive
    \/ Controller
    \/ \E d \in Device : DeviceThread(d)

Spec == Init /\ [][Next]_vars

\* The threads of the process run, and an authentication server that is asked
\* answers.  Nothing is promised of devices, boxes and the link.
Fairness ==
    /\ WF_vars(Controller)
    /\ WF_vars(TakeAlive)
    /\ \A d \in Device : WF_vars(DeviceThread(d))
    /\ \A u \in User : WF_vars(Answers(u))

FairSpec == Spec /\ Fairness

-----------------------------------------------------------------------------
(* Properties *)

InMessage(c) ==
    {i \in DOMAIN mq : mq[i].what = "amx_control_request" /\ mq[i].cmd = c}

AtDevice(c) == {d \in Device : dev[d].pc \in {"counted", "drawn", "control"} /\ dev[d].cmd = c}

InTable(c) == {n \in Cmd : mapCtrlAuth[n].cmd = c}

Places(c) ==
    Cardinality(AtDevice(c)) + Cardinality(InMessage(c)) + Cardinality(InTable(c))
        + sent[c] + Cardinality(dropped \cap {c})

\* A command that a device has issued is at its thread, in a message, in the table,
\* sent or dropped, and never in two of these: it does not go to the box twice, and
\* is not both sent and dropped.  A kept command is overwritten by another one only if
\* the receive threads were returned a number twice: requests and commands of
\* different numbers do not meet in the table, whatever becomes of the link.
CommandInOnePlace ==
    /\ \A c \in Cmd : Places(c) = IF owner[c] = NoUser THEN 0 ELSE 1
    /\ lost # {} => shared

Entries(u) == {n \in Cmd : mapCtrlAuth[n].user = u}

AnswersQueued(u) ==
    {i \in DOMAIN mq : mq[i].what = "authentication_response" /\ mq[i].user = u}

\* As long as the link has held and no number was given twice, the pending
\* entries of a user are as many as the answers still to come for that user: the
\* id alone is enough to match answers and entries.
EntriesAwaitAnswers ==
    regular => \A u \in User :
        Cardinality(Entries(u)) = asked[u] + Cardinality(AnswersQueued(u))

\* Under the same condition a command of a user goes to the box only over an answer
\* for that user that has been handled, or over a request whose text the controller
\* could not read: such a request is dropped, and its command then finds no entry to
\* wait in.  (Which of them the answer allowed it does not say: an answer handled
\* between the two messages of a command lets the command pass, even a refusal.)
AnsweredFirst ==
    regular => \A u \in User :
        Cardinality({c \in Cmd : owner[c] = u /\ sent[c] > 0}) <= handled[u] + unread[u]

\* Under the same condition a command that is kept waiting is decided.
HeldIsDecided ==
    \A c \in Cmd : InTable(c) # {} ~> (InTable(c) = {} \/ ~regular)

=============================================================================
