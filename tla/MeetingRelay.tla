---------------------------- MODULE MeetingRelay ----------------------------
(***************************************************************************)
(* Controller-MeetingAgent2: the requests of smart-building devices are    *)
(* relayed to Controller-Meeting and its answers back to the devices.      *)
(*                                                                         *)
(* A request arrives in the receive thread of its device's connection.     *)
(* The thread draws a number, keeps the request in deviceMapData under the *)
(* number and sends it, with the number, to the controller that bound      *)
(* last.  The answer arrives in the receive thread of that controller's    *)
(* connection; the number leads back to the request, the request to the    *)
(* descriptor of the device.  No lock is held anywhere.                    *)
(*                                                                         *)
(* Each server is a CATcpServer (module TcpServer): a connection whose     *)
(* peer has gone is dropped later, by the message thread, and its          *)
(* descriptor may then be given to the next one.  A call of deviceMapData  *)
(* or mapClient is atomic here, which the code hopes for.                  *)
(***************************************************************************)
EXTENDS Naturals, SequencesExt

CONSTANTS
    DeviceFd,     \* descriptors of the device server
    MeetingFd,    \* descriptors of the meeting server
    SequenceTop,  \* getSequence starts again at 1 instead of this number
    Lowest,       \* accept returns the server's lowest free descriptor, or any
    StartSequence, \* the counter when the model begins: 0, or later in a long run
    MaxDevice,    \* bound: device connections
    MaxLink,      \* bound: connections of Controller-Meeting
    MaxBreak,     \* bound: those of them that end
    MaxAdds,      \* bound: threads inside addClient at a time
    MaxRequest    \* bound: requests of all devices

ASSUME RelayAssumption ==
    /\ DeviceFd \subseteq Nat \ {0}
    /\ MeetingFd \subseteq Nat \ {0}
    /\ SequenceTop \in Nat \ {0, 1}
    /\ StartSequence \in 0..(SequenceTop - 1)
    /\ Lowest \in BOOLEAN
    /\ MaxDevice \in Nat /\ MaxLink \in Nat /\ MaxRequest \in Nat
    /\ MaxBreak \in Nat /\ MaxAdds \in Nat

VARIABLES
    device,         \* the connection each device descriptor refers to, 0: none
    devices,        \* device connections accepted so far
    pc,             \* where the receive thread of a device connection is
    req,            \* the request it handles
    target,         \* the descriptor it sends to
    msnSequence,    \* the counter behind getSequence
    deviceMapData,  \* the requests waiting for an answer, by number
    meeting,        \* the connection each meeting descriptor refers to, 0: none
    links,          \* connections of controllers accepted so far
    cut,            \* those whose peer has gone
    ended,          \* those whose receive thread has ended
    closing,        \* those of the CLIENT_CLOSE messages that are queued or handled
    leaving,        \* the connection whose end the message thread handles, 0: none
    adds,           \* connections whose thread is between the halves of addClient
    mapClient,      \* who has bound: the last one is asked
    toMeeting,      \* requests on their way to a controller
    toAgent,        \* answers on their way back
    found,          \* what onDeviceCommand has copied out of deviceMapData
    asked,          \* history: the requests in the order of arrival
    number,         \* history: the number drawn for each request
    got,            \* history: what devices have received
    relayed,        \* history: requests whose answer was passed on
    lost,           \* history: requests without a controller, or cut off from it
    shared          \* history: a number was drawn while it was in use

deviceVars == <<device, devices>>
threadVars == <<pc, req, target>>
linkVars == <<meeting, links, cut, ended, closing, leaving>>
meetingVars == <<linkVars, adds, mapClient>>
netVars == <<toMeeting, toAgent>>
historyVars == <<asked, number, got, relayed, lost, shared>>

vars == <<deviceVars, threadVars, msnSequence, deviceMapData, meetingVars, netVars,
          found, historyVars>>

Device == 1..MaxDevice
Link == 1..MaxLink
Request == 1..MaxRequest
Number == 1..(SequenceTop - 1)

\* The part of CMPData that is used again.
Entry == [fd : DeviceFd, seq : Request]

NoEntry == [fd |-> 0, seq |-> 0]

Packet == [link : Link, key : Number, about : Request]

Nothing == [key |-> 0, fd |-> 0, seq |-> 0, about |-> 0]

Found == [key : Number, fd : DeviceFd, seq : Request, about : Request]

Asked == [conn : Device, fd : DeviceFd, seq : Request]

\* The code keeps the descriptor.  History: the connection the bind came from, and
\* whether the end of that connection was being handled already.
Bound == [fd : MeetingFd, conn : Link, late : BOOLEAN]

DevicesOK ==
    /\ device \in [DeviceFd -> Device \cup {0}]
    /\ devices \in 0..MaxDevice

\* A thread that draws a number finds the counter above 0, one that uses its
\* number has one, and one that sends has picked a controller.
ThreadsOK ==
    /\ pc \in [Device -> {"idle", "count", "read", "store", "pick", "send"}]
    /\ req \in [Device -> Request \cup {0}]
    /\ target \in [Device -> MeetingFd \cup {0}]
    /\ msnSequence \in Number \cup {0}
    /\ number \in [Request -> Number \cup {0}]
    /\ \A c \in Device :
        /\ pc[c] # "idle" => req[c] \in 1..Len(asked)
        /\ pc[c] = "read" => msnSequence # 0
        /\ pc[c] \in {"store", "pick", "send"} => number[req[c]] # 0
        /\ pc[c] = "send" => target[c] # 0

MeetingsOK ==
    /\ meeting \in [MeetingFd -> Link \cup {0}]
    /\ links \in 0..MaxLink
    /\ cut \subseteq Link
    /\ ended \subseteq cut
    /\ closing \subseteq cut
    /\ leaving \in Link \cup {0}
    /\ adds \subseteq Link
    /\ mapClient \in Seq(Bound)

PacketsOK ==
    /\ toMeeting \subseteq Packet
    /\ toAgent \subseteq Packet

TableOK ==
    /\ deviceMapData \in [Number -> Entry \cup {NoEntry}]
    /\ found \in [Link -> Found \cup {Nothing}]

AskedOK ==
    /\ asked \in Seq(Asked)
    /\ Len(asked) <= MaxRequest

HistoryOK ==
    /\ got \subseteq [fd : DeviceFd, conn : Device, seq : Request, about : Request]
    /\ relayed \subseteq Request
    /\ lost \subseteq Request
    /\ shared \in BOOLEAN

TypeOK ==
    /\ DevicesOK
    /\ ThreadsOK
    /\ MeetingsOK
    /\ PacketsOK
    /\ TableOK
    /\ AskedOK
    /\ HistoryOK

Init ==
    /\ device = [f \in DeviceFd |-> 0]
    /\ devices = 0
    /\ pc = [c \in Device |-> "idle"]
    /\ req = [c \in Device |-> 0]
    /\ target = [c \in Device |-> 0]
    /\ msnSequence = StartSequence
    /\ deviceMapData = [n \in Number |-> NoEntry]
    /\ meeting = [f \in MeetingFd |-> 0]
    /\ links = 0
    /\ cut = {} /\ ended = {} /\ closing = {}
    /\ leaving = 0
    /\ adds = {}
    /\ mapClient = <<>>
    /\ toMeeting = {}
    /\ toAgent = {}
    /\ found = [m \in Link |-> Nothing]
    /\ asked = <<>>
    /\ number = [r \in Request |-> 0]
    /\ got = {}
    /\ relayed = {}
    /\ lost = {}
    /\ shared = FALSE

-----------------------------------------------------------------------------
(* Devices come, ask and go *)

DeviceConnects(f) ==
    /\ device[f] = 0
    /\ Lowest => \A g \in DeviceFd : device[g] = 0 => f <= g
    /\ devices < MaxDevice
    /\ devices' = devices + 1
    /\ device' = [device EXCEPT ![f] = devices + 1]
    /\ UNCHANGED <<threadVars, msnSequence, deviceMapData, meetingVars, netVars,
                   found, historyVars>>

\* A connection numbers its own requests from 1.
OwnSeq(c) == Cardinality({i \in DOMAIN asked : asked[i].conn = c}) + 1

\* onQRCodeToken, onAPPVersion, onGetMeetingData and onAMXControlAccess all
\* hand the request to onMeetingCommand.
DeviceAsks(f) ==
    LET c == device[f] IN
    /\ c # 0
    /\ pc[c] = "idle"
    /\ Len(asked) < MaxRequest
    /\ asked' = Append(asked, [conn |-> c, fd |-> f, seq |-> OwnSeq(c)])
    /\ pc' = [pc EXCEPT ![c] = "count"]
    /\ req' = [req EXCEPT ![c] = Len(asked) + 1]
    /\ UNCHANGED <<deviceVars, target, msnSequence, deviceMapData, meetingVars, netVars,
                   found, number, got, relayed, lost, shared>>

\* Mutant: the descriptor is closed without waiting for the receive thread.
DeviceLeavesAtOnce(f) ==
    /\ device[f] # 0
    /\ device' = [device EXCEPT ![f] = 0]
    /\ UNCHANGED <<devices, threadVars, msnSequence, deviceMapData, meetingVars, netVars,
                   found, historyVars>>

\* The peer closes its end; the receive thread ends, and the message thread
\* joins it and closes the descriptor.  Nothing is taken out of deviceMapData.
DeviceLeaves(f) ==
    /\ device[f] # 0
    /\ pc[device[f]] = "idle"
    /\ device' = [device EXCEPT ![f] = 0]
    /\ UNCHANGED <<devices, threadVars, msnSequence, deviceMapData, meetingVars, netVars,
                   found, historyVars>>

-----------------------------------------------------------------------------
(* CController::onMeetingCommand, in the receive thread of device connection c *)

\* Mutant: the wrap is tested before the increment.
WrapsLate == IF SequenceTop <= msnSequence THEN 1 ELSE msnSequence + 1

\* Number 0 is never drawn.
NextNumber == IF SequenceTop <= msnSequence + 1 THEN 1 ELSE msnSequence + 1

\* getSequence, first half: ++msnSequence and the wrap.
Counts(c) ==
    /\ pc[c] = "count"
    /\ msnSequence' = NextNumber
    /\ pc' = [pc EXCEPT ![c] = "read"]
    /\ UNCHANGED <<deviceVars, req, target, deviceMapData, meetingVars, netVars, found,
                   historyVars>>

\* History: some request, entry, packet or answer still goes by number n.
InUse(n) ==
    \/ \E d \in Device : pc[d] \in {"store", "pick", "send"} /\ number[req[d]] = n
    \/ deviceMapData[n] # NoEntry
    \/ \E p \in toMeeting \cup toAgent : p.key = n
    \/ \E m \in Link : found[m].key = n

\* getSequence, second half: it returns the counter as it is now.
Reads(c) ==
    /\ pc[c] = "read"
    /\ number' = [number EXCEPT ![req[c]] = msnSequence]
    /\ shared' = (shared \/ InUse(msnSequence))
    /\ pc' = [pc EXCEPT ![c] = "store"]
    /\ UNCHANGED <<deviceVars, req, target, msnSequence, deviceMapData, meetingVars,
                   netVars, found, asked, got, relayed, lost>>

\* Mutant: the request is kept under the number the device gave it.
KeyOfDevice(c) == asked[req[c]].seq

KeyOf(c) == number[req[c]]

Stores(c) ==
    /\ pc[c] = "store"
    /\ deviceMapData' = [deviceMapData EXCEPT
           ![KeyOf(c)] = [fd |-> asked[req[c]].fd, seq |-> asked[req[c]].seq]]
    /\ pc' = [pc EXCEPT ![c] = "pick"]
    /\ UNCHANGED <<deviceVars, req, target, msnSequence, meetingVars, netVars, found,
                   historyVars>>

Finishes(c) ==
    /\ pc' = [pc EXCEPT ![c] = "idle"]
    /\ req' = [req EXCEPT ![c] = 0]
    /\ target' = [target EXCEPT ![c] = 0]

\* CServerMeeting::sendCommand: the last of mapClient, if any.
Picks(c) ==
    /\ pc[c] = "pick"
    /\ \/ /\ mapClient = <<>>
          /\ Finishes(c)
          /\ lost' = lost \cup {req[c]}
       \/ /\ mapClient # <<>>
          /\ target' = [target EXCEPT ![c] = Last(mapClient).fd]
          /\ pc' = [pc EXCEPT ![c] = "send"]
          /\ UNCHANGED <<req, lost>>
    /\ UNCHANGED <<deviceVars, msnSequence, deviceMapData, meetingVars, netVars, found,
                   asked, number, got, relayed, shared>>

\* sendPacket on connection m: when the peer has gone it may fail, and calls closeClient.
Fails(m) == m \in cut /\ closing' = closing \cup {m}

\* request(): on whatever the descriptor refers to by now.
Sends(c) ==
    /\ pc[c] = "send"
    /\ LET m == meeting[target[c]] IN
       \/ /\ m # 0 /\ m \notin cut
          /\ toMeeting' = toMeeting \cup {[link |-> m, key |-> KeyOf(c), about |-> req[c]]}
          /\ UNCHANGED <<lost, closing>>
       \/ /\ m = 0 \/ m \in cut
          /\ lost' = lost \cup {req[c]}
          /\ Fails(m) \/ UNCHANGED closing
          /\ UNCHANGED toMeeting
    /\ Finishes(c)
    /\ UNCHANGED <<deviceVars, msnSequence, deviceMapData, meeting, links, cut, ended,
                   leaving, adds, mapClient, toAgent, found, asked, number, got, relayed,
                   shared>>

DeviceThread(c) == Counts(c) \/ Reads(c) \/ Stores(c) \/ Picks(c) \/ Sends(c)

-----------------------------------------------------------------------------
(* Controller-Meeting and its connections *)

MeetingConnects(f) ==
    /\ meeting[f] = 0
    /\ Lowest => \A g \in MeetingFd : meeting[g] = 0 => f <= g
    /\ links < MaxLink
    /\ links' = links + 1
    /\ meeting' = [meeting EXCEPT ![f] = links + 1]
    /\ UNCHANGED <<cut, ended, closing, leaving, adds, mapClient, deviceVars, threadVars,
                   msnSequence, deviceMapData, netVars, found, historyVars>>

\* The receive thread of connection m is in recv.  What the peer has sent before it
\* went is still received.
Receives(m) == m # 0 /\ m \notin ended /\ m \notin adds /\ found[m] = Nothing

\* onBind: addClient forgets who has bound ...
Clears(f) ==
    /\ Receives(meeting[f])
    /\ Cardinality(adds) < MaxAdds
    /\ mapClient' = <<>>
    /\ adds' = adds \cup {meeting[f]}
    /\ UNCHANGED <<linkVars, deviceVars, threadVars, msnSequence, deviceMapData, netVars,
                   found, historyVars>>

\* ... and adds the descriptor; the response may fail.
Pushes(f) ==
    LET m == meeting[f] IN
    /\ m \in adds
    /\ mapClient' = Append(mapClient, [fd |-> f, conn |-> m, late |-> leaving = m])
    /\ adds' = adds \ {m}
    /\ Fails(m) \/ UNCHANGED closing
    /\ UNCHANGED <<meeting, links, cut, ended, leaving, deviceVars, threadVars, msnSequence,
                   deviceMapData, netVars, found, historyVars>>

HasBound(f) == \E i \in DOMAIN mapClient : mapClient[i].fd = f

\* Mutant: whichever controller leaves, mapClient is emptied.
deleteClientAny(f) == mapClient' = <<>>

\* Mutant: a controller that has bound is never taken out.
deleteClientNever(f) == UNCHANGED mapClient

deleteClient(f) ==
    \/ \E i \in DOMAIN mapClient :
        /\ mapClient[i].fd = f
        /\ \A j \in DOMAIN mapClient : mapClient[j].fd = f => i <= j
        /\ mapClient' = RemoveAt(mapClient, i)
    \/ ~HasBound(f) /\ UNCHANGED mapClient

onUnbind(f) ==
    /\ Receives(meeting[f])
    /\ deleteClient(f)
    /\ UNCHANGED <<linkVars, adds, deviceVars, threadVars, msnSequence, deviceMapData,
                   netVars, found, historyVars>>

Of(packets, m) == {p \in packets : p.link = m}

Abouts(packets) == {p.about : p \in packets}

\* The controller answers a request it has read.
MeetingAnswers(p) ==
    /\ p \in toMeeting
    /\ toMeeting' = toMeeting \ {p}
    /\ toAgent' = toAgent \cup {p}
    /\ UNCHANGED <<deviceVars, threadVars, msnSequence, deviceMapData, meetingVars, found,
                   historyVars>>

\* It closes its end, or the connection breaks: what it has not answered is lost.
MeetingLeaves(f) ==
    LET m == meeting[f] IN
    /\ m # 0
    /\ m \notin cut
    /\ Cardinality(cut) < MaxBreak
    /\ cut' = cut \cup {m}
    /\ toMeeting' = toMeeting \ Of(toMeeting, m)
    /\ lost' = lost \cup Abouts(Of(toMeeting, m))
    /\ UNCHANGED <<meeting, links, ended, closing, leaving, adds, mapClient, deviceVars,
                   threadVars, msnSequence, deviceMapData, toAgent, found, asked, number,
                   got, relayed, shared>>

\* runTcpReceive: recv finds the end of the stream, or the thread is cancelled in it.
\* The last thing it does is to send the DISCONNECT message.
ReceiveEnds(f) ==
    LET m == meeting[f] IN
    /\ m \in cut
    /\ Receives(m)
    /\ ended' = ended \cup {m}
    /\ toAgent' = toAgent \ Of(toAgent, m)
    /\ lost' = lost \cup Abouts(Of(toAgent, m))
    /\ UNCHANGED <<meeting, links, cut, closing, leaving, adds, mapClient, deviceVars,
                   threadVars, msnSequence, deviceMapData, toMeeting, found, asked, number,
                   got, relayed, shared>>

\* The message thread takes a DISCONNECT or a CLIENT_CLOSE message and calls
\* onClientDisconnect first.  After CLIENT_CLOSE the receive thread still runs.
onClientDisconnect(f) ==
    /\ leaving = 0
    /\ meeting[f] \in ended \cup closing
    /\ leaving' = meeting[f]
    /\ deleteClient(f)
    /\ UNCHANGED <<meeting, links, cut, ended, closing, adds, deviceVars, threadVars,
                   msnSequence, deviceMapData, netVars, found, historyVars>>

\* The thread has been joined.
eraseClient(f) ==
    /\ meeting[f] = leaving
    /\ leaving \in ended
    /\ meeting' = [meeting EXCEPT ![f] = 0]
    /\ closing' = closing \ {leaving}
    /\ leaving' = 0
    /\ UNCHANGED <<links, cut, ended, adds, mapClient, deviceVars, threadVars, msnSequence,
                   deviceMapData, netVars, found, historyVars>>

-----------------------------------------------------------------------------
(* CController::onDeviceCommand, in the receive thread of a controller *)

\* find, and the copy of the entry; without an entry the answer is dropped.
Finds(p) ==
    LET e == deviceMapData[p.key] IN
    /\ p \in toAgent
    /\ Receives(p.link)
    /\ toAgent' = toAgent \ {p}
    /\ \/ /\ e = NoEntry
          /\ UNCHANGED found
       \/ /\ e # NoEntry
          /\ found' = [found EXCEPT ![p.link] =
                 [key |-> p.key, fd |-> e.fd, seq |-> e.seq, about |-> p.about]]
    /\ UNCHANGED <<deviceVars, threadVars, msnSequence, deviceMapData, meetingVars,
                   toMeeting, historyVars>>

\* Mutant: the entry stays.
ErasesNothing(n) == UNCHANGED deviceMapData

\* Mutant: clear() in place of erase().
ErasesAll(n) == deviceMapData' = [k \in Number |-> NoEntry]

Erases(n) == deviceMapData' = [deviceMapData EXCEPT ![n] = NoEntry]

\* erase by key, then the response on the descriptor of the entry, whatever it
\* refers to by now.
Responds(m) ==
    LET e == found[m] IN
    /\ e # Nothing
    /\ Erases(e.key)
    /\ got' = IF device[e.fd] = 0 THEN got
              ELSE got \cup {[fd |-> e.fd, conn |-> device[e.fd], seq |-> e.seq,
                              about |-> e.about]}
    /\ relayed' = relayed \cup {e.about}
    /\ found' = [found EXCEPT ![m] = Nothing]
    /\ UNCHANGED <<deviceVars, threadVars, msnSequence, meetingVars, netVars, asked, number,
                   lost, shared>>

\* threadCancel, after CLIENT_CLOSE: the thread ends where it would send the response.
CancelsResponse(m) ==
    LET e == found[m] IN
    /\ leaving = m
    /\ m \in closing
    /\ e # Nothing
    /\ Erases(e.key)
    /\ found' = [found EXCEPT ![m] = Nothing]
    /\ ended' = ended \cup {m}
    /\ toAgent' = toAgent \ Of(toAgent, m)
    /\ lost' = lost \cup Abouts(Of(toAgent, m)) \cup {e.about}
    /\ UNCHANGED <<meeting, links, cut, closing, leaving, adds, mapClient, deviceVars,
                   threadVars, msnSequence, toMeeting, asked, number, got, relayed, shared>>

MeetingThread(m) == Responds(m) \/ \E p \in Of(toAgent, m) : Finds(p)

-----------------------------------------------------------------------------

Agent ==
    \/ \E c \in Device : DeviceThread(c)
    \/ \E m \in Link : MeetingThread(m) \/ CancelsResponse(m)
    \/ \E f \in MeetingFd :
           Pushes(f) \/ ReceiveEnds(f) \/ onClientDisconnect(f) \/ eraseClient(f)

Peers ==
    \/ \E f \in DeviceFd : DeviceConnects(f) \/ DeviceAsks(f) \/ DeviceLeaves(f)
    \/ \E f \in MeetingFd :
           MeetingConnects(f) \/ Clears(f) \/ onUnbind(f) \/ MeetingLeaves(f)
    \/ \E p \in toMeeting : MeetingAnswers(p)

Next == Agent \/ Peers

Spec == Init /\ [][Next]_vars

\* Every thread of the agent keeps running, and a controller that stays
\* answers what it has read.  The receive thread of a controller takes packets in
\* their order, so binds without end do not keep it from an answer (SF).  Devices
\* and connections promise nothing.
FairSpec ==
    /\ Spec
    /\ \A c \in Device : WF_vars(DeviceThread(c))
    /\ \A f \in MeetingFd : WF_vars(Pushes(f))
    /\ \A m \in Link :
        /\ SF_vars(MeetingThread(m))
        /\ WF_vars(\E p \in Of(toMeeting, m) : MeetingAnswers(p))

-----------------------------------------------------------------------------
(* Properties *)

\* As long as no number in use is drawn again, every answer a device receives
\* carries the number of the request it answers, and goes to the connection
\* that asked.  Only when that connection has left does it go astray, to a
\* later connection on the same descriptor: deviceMapData keeps descriptors.
AnswersGoHome ==
    ~shared => \A g \in got : LET a == asked[g.about] IN
        /\ g.seq = a.seq /\ g.fd = a.fd
        /\ g.conn # a.conn => device[a.fd] # a.conn

\* Until then a request whose answer was passed on is forgotten: what stays in
\* deviceMapData belongs to requests without an answer.
NoEntryAfterAnswer ==
    ~shared => \A r \in relayed :
        deviceMapData[number[r]] # NoEntry =>
            \E q \in Request \ relayed : number[q] = number[r]

\* A descriptor in mapClient is that of the connection that bound on it: a later
\* connection with the same number gets no requests before it binds.  There is one
\* exception.  The message thread calls onClientDisconnect before it cancels the
\* receive thread of a connection that closeClient was called for, and a bind that
\* the thread still reads then stays in mapClient when the descriptor is closed.
BoundIsConnected ==
    \A i \in DOMAIN mapClient :
        ~mapClient[i].late => meeting[mapClient[i].fd] = mapClient[i].conn

\* The end of a connection that was replaced, which is handled late, does not
\* forget the controller that replaced it: that one stays in mapClient until its
\* own connection ends, it unbinds, or another one binds.
BoundUntilItLeaves ==
    [][\A f \in MeetingFd : HasBound(f) /\ ~HasBound(f)' =>
           meeting[f] \in cut \/ onUnbind(f) \/ \E g \in MeetingFd : Clears(g)]_vars

\* The handlers that run, by server: onMeetingCommand in the threads of devices,
\* onDeviceCommand in those of controllers.
DeviceHandlers == {<<asked[req[c]].fd, c>> : c \in {d \in Device : pc[d] # "idle"}}

MeetingHandlers ==
    {<<f, meeting[f]>> : f \in {g \in MeetingFd :
        meeting[g] # 0 /\ found[meeting[g]] # Nothing}}

DeviceServer == INSTANCE Connections
    WITH Fd <- DeviceFd, conn <- device, born <- devices, running <- DeviceHandlers,
         kept <- TRUE

MeetingServer == INSTANCE Connections
    WITH Fd <- MeetingFd, conn <- meeting, born <- links, running <- MeetingHandlers,
         kept <- TRUE

\* The connections of both servers come and go here as CATcpServer promises (module
\* Connections, which TcpServer implements): none is closed while its handler runs.
WithinPromise == DeviceServer!Promise /\ MeetingServer!Promise

\* A request is passed on and its answer comes back, unless there was no
\* controller to ask or the connection to it broke, or a number was shared.
RequestIsAnswered ==
    \A r \in Request :
        (\E c \in Device : req[c] = r) ~> (r \in relayed \/ r \in lost \/ shared)

=============================================================================
