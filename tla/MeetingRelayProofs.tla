------------------------- MODULE MeetingRelayProofs -------------------------
(***************************************************************************)
(* Proofs about MeetingRelay, for every set of descriptors, every range of *)
(* request numbers and every bound.                                        *)
(***************************************************************************)
EXTENDS MeetingRelay, FiniteSetTheorems, SequenceTheorems, TLAPS

\* The connections of devices: a handler runs only while the connection it was
\* called for is still the one of its descriptor.
DevicesAtHome ==
    /\ \A f \in DeviceFd : device[f] <= devices
    /\ \A i \in 1..Len(asked) : asked[i].conn <= devices
    /\ \A c \in Device : pc[c] # "idle" =>
           asked[req[c]].conn = c /\ device[asked[req[c]].fd] = c

Connected(m) == \E f \in MeetingFd : meeting[f] = m

\* The connections of controllers: what travels, and what is handled, belongs to
\* one that is not closed yet.
LinksAtHome ==
    /\ \A f \in MeetingFd : meeting[f] <= links
    /\ \A f, g \in MeetingFd : meeting[f] = meeting[g] /\ meeting[f] # 0 => f = g
    /\ \A p \in toMeeting : p.link \notin cut /\ Connected(p.link)
    /\ \A p \in toAgent : Connected(p.link)
    /\ \A m \in Link : found[m] # Nothing => Connected(m)
    /\ \A m \in ended : found[m] = Nothing /\ \A p \in toAgent : p.link # m

\* The descriptors in mapClient: each is there once, and not while its connection is
\* about to add it; one that is not late belongs to a connection that is not closed
\* and whose end has not been handled.
BoundsAtHome ==
    /\ BoundIsConnected
    /\ \A i \in DOMAIN mapClient : ~mapClient[i].late => mapClient[i].conn # leaving
    /\ \A i, j \in DOMAIN mapClient : mapClient[i].fd = mapClient[j].fd => i = j
    /\ \A f \in MeetingFd : meeting[f] \in adds => ~HasBound(f)
    /\ \A m \in adds : m <= links

\* What happens to the connection of a controller apart from its answers.
LinkAction(f) ==
    \/ MeetingConnects(f) \/ Clears(f) \/ Pushes(f) \/ onUnbind(f) \/ MeetingLeaves(f)
    \/ ReceiveEnds(f) \/ onClientDisconnect(f) \/ eraseClient(f)

\* A request has a number once its thread has read the counter, and packets carry it.
NumbersMatch ==
    /\ \A r \in Request : r > Len(asked) => number[r] = 0
    /\ \A c \in Device : pc[c] \in {"count", "read"} => number[req[c]] = 0
    /\ \A p \in toMeeting \cup toAgent : number[p.about] = p.key
    /\ \A m \in Link : found[m] # Nothing => number[found[m].about] = found[m].key

EntryOf(r) == [fd |-> asked[r].fd, seq |-> asked[r].seq]

Using == {"store", "pick", "send"}

\* While a thread uses its number nothing else goes by it.
NumbersUsedOnce ==
    \A c \in Device : pc[c] \in Using =>
        /\ \A d \in Device : pc[d] \in Using /\ KeyOf(d) = KeyOf(c) => c = d
        /\ \A p \in toMeeting \cup toAgent : p.key # KeyOf(c)
        /\ \A m \in Link : found[m].key # KeyOf(c)

OwnEntry(c) == deviceMapData[KeyOf(c)] \in {NoEntry, EntryOf(req[c])}

\* What is kept under the number of a thread, or of a packet, is its request.
EntriesMatch ==
    /\ \A c \in Device : pc[c] \in Using => OwnEntry(c)
    /\ \A p \in toMeeting \cup toAgent :
           deviceMapData[p.key] \in {NoEntry, EntryOf(p.about)}
    /\ \A m \in Link : found[m] # Nothing =>
           found[m].fd = asked[found[m].about].fd /\ found[m].seq = asked[found[m].about].seq

\* What has been received was asked for.
AnswersMatch == \A g \in got :
    /\ g.about \in 1..Len(asked)
    /\ g.seq = asked[g.about].seq /\ g.fd = asked[g.about].fd
    /\ g.conn # asked[g.about].conn => device[asked[g.about].fd] # asked[g.about].conn

\* What is kept belongs to a request that was not answered.
EntriesAreOpen ==
    /\ relayed \subseteq 1..Len(asked)
    /\ \A r \in relayed : number[r] \in Number
    /\ \A c \in Device : pc[c] # "idle" => req[c] \notin relayed
    /\ \A n \in Number : deviceMapData[n] # NoEntry =>
           \E q \in Request \ relayed : number[q] = n

Homes == TypeOK /\ DevicesAtHome /\ LinksAtHome /\ NumbersMatch

IInv ==
    /\ Homes
    /\ ~shared => NumbersUsedOnce /\ EntriesMatch /\ AnswersMatch /\ EntriesAreOpen

-----------------------------------------------------------------------------
(* Types *)

\* The state the agent starts in is well typed.
LEMMA TypeInit == Init => TypeOK
<1> SUFFICES ASSUME Init PROVE TypeOK
  OBVIOUS
<1>1. DevicesOK
  BY RelayAssumption DEF Init, DevicesOK
<1>2. ThreadsOK
  BY RelayAssumption DEF Init, ThreadsOK, Number
<1>3. MeetingsOK
  BY RelayAssumption DEF Init, MeetingsOK
<1>4. PacketsOK
  BY DEF Init, PacketsOK
<1>5. TableOK
  BY DEF Init, TableOK
<1>6. AskedOK
  BY RelayAssumption DEF Init, AskedOK
<1>7. HistoryOK
  BY DEF Init, HistoryOK
<1> QED
  BY <1>1, <1>2, <1>3, <1>4, <1>5, <1>6, <1>7 DEF TypeOK

\* A part of the type invariant survives a step that leaves its variables alone.
LEMMA Frame ==
    ASSUME TypeOK
    PROVE  /\ UNCHANGED deviceVars => DevicesOK'
           /\ UNCHANGED <<threadVars, msnSequence, number, asked>> => ThreadsOK'
           /\ UNCHANGED meetingVars => MeetingsOK'
           /\ UNCHANGED netVars => PacketsOK'
           /\ UNCHANGED <<deviceMapData, found>> => TableOK'
           /\ UNCHANGED asked => AskedOK'
           /\ UNCHANGED <<got, relayed, lost, shared>> => HistoryOK'
<1>1. UNCHANGED deviceVars => DevicesOK'
  BY DEF TypeOK, DevicesOK, deviceVars
<1>2. UNCHANGED <<threadVars, msnSequence, number, asked>> => ThreadsOK'
  BY DEF TypeOK, ThreadsOK, threadVars
<1>3. UNCHANGED meetingVars => MeetingsOK'
  BY DEF TypeOK, MeetingsOK, meetingVars, linkVars
<1>4. UNCHANGED netVars => PacketsOK'
  BY DEF TypeOK, PacketsOK, netVars
<1>5. UNCHANGED <<deviceMapData, found>> => TableOK'
  BY DEF TypeOK, TableOK
<1>6. UNCHANGED asked => AskedOK'
  BY DEF TypeOK, AskedOK
<1>7. UNCHANGED <<got, relayed, lost, shared>> => HistoryOK'
  BY DEF TypeOK, HistoryOK
<1> QED
  BY <1>1, <1>2, <1>3, <1>4, <1>5, <1>6, <1>7

\* The number a device gives its next request is one more than those it has given.
LEMMA OwnSeqType ==
    ASSUME AskedOK, Len(asked) < MaxRequest, NEW c
    PROVE  OwnSeq(c) \in Request
<1> DEFINE S == {i \in DOMAIN asked : asked[i].conn = c}
<1>1. DOMAIN asked = 1..Len(asked) /\ Len(asked) \in Nat
  BY DEF AskedOK
<1>2. IsFiniteSet(1..Len(asked)) /\ Cardinality(1..Len(asked)) = Len(asked)
  <2> DEFINE n == Len(asked)
  <2>1. n \in Nat
    BY <1>1
  <2> HIDE DEF n
  <2>2. IsFiniteSet(1..n) /\ Cardinality(1..n) = IF 1 > n THEN 0 ELSE n - 1 + 1
    BY <2>1, FS_Interval
  <2>3. IsFiniteSet(1..n) /\ Cardinality(1..n) = n
    BY <2>1, <2>2
  <2> QED
    BY <2>3 DEF n
<1>3. S \subseteq 1..Len(asked)
  BY <1>1
<1>4. Cardinality(S) \in Nat /\ Cardinality(S) <= Len(asked)
  BY <1>2, <1>3, FS_Subset, FS_CardinalityType
<1> QED
  BY <1>1, <1>4, RelayAssumption DEF OwnSeq, Request

\* Devices that connect, ask and leave keep the state well typed.
LEMMA DeviceType ==
    ASSUME TypeOK, NEW f \in DeviceFd,
           DeviceConnects(f) \/ DeviceAsks(f) \/ DeviceLeaves(f)
    PROVE  TypeOK'
<1> USE RelayAssumption
<1>1. CASE DeviceConnects(f)
  <2>1. DevicesOK'
    BY <1>1 DEF DeviceConnects, TypeOK, DevicesOK, Device
  <2> QED
    BY <1>1, <2>1, Frame DEF DeviceConnects, TypeOK, historyVars, meetingVars, netVars,
       threadVars
<1>2. CASE DeviceAsks(f)
  <2> DEFINE c == device[f]
             a == [conn |-> c, fd |-> f, seq |-> OwnSeq(c)]
  <2>1. c \in Device /\ asked \in Seq(Asked) /\ Len(asked) < MaxRequest
    BY <1>2 DEF DeviceAsks, TypeOK, DevicesOK, AskedOK
  <2>2. a \in Asked
    BY <2>1, OwnSeqType DEF TypeOK, Asked
  <2>3. asked' = Append(asked, a)
    BY <1>2 DEF DeviceAsks
  <2> HIDE DEF a
  <2>4. asked' \in Seq(Asked) /\ Len(asked') = Len(asked) + 1
    BY <2>1, <2>2, <2>3
  <2>5. AskedOK'
    BY <2>1, <2>4 DEF AskedOK
  <2>6. /\ pc' = [pc EXCEPT ![c] = "count"]
        /\ req' = [req EXCEPT ![c] = Len(asked) + 1]
        /\ UNCHANGED <<target, msnSequence, number>>
    BY <1>2 DEF DeviceAsks
  <2> HIDE DEF c
  <2>7. Len(asked) + 1 \in Request
    BY <2>1 DEF Request
  <2>8. ThreadsOK'
    BY <2>1, <2>4, <2>6, <2>7 DEF TypeOK, ThreadsOK
  <2> QED
    BY <1>2, <2>5, <2>8, Frame DEF DeviceAsks, TypeOK, deviceVars, meetingVars, netVars
<1>3. CASE DeviceLeaves(f)
  <2>1. DevicesOK'
    BY <1>3 DEF DeviceLeaves, TypeOK, DevicesOK
  <2> QED
    BY <1>3, <2>1, Frame DEF DeviceLeaves, TypeOK, historyVars, meetingVars, netVars,
       threadVars
<1> QED
  BY <1>1, <1>2, <1>3

\* What Finishes leaves behind.
LEMMA FinishType ==
    ASSUME ThreadsOK, NEW c \in Device, Finishes(c), UNCHANGED <<msnSequence, number, asked>>
    PROVE  ThreadsOK'
BY DEF ThreadsOK, Finishes

\* The counter stays within the numbers.
LEMMA NextNumberType ==
    ASSUME msnSequence \in Number \cup {0}
    PROVE  NextNumber \in Number
BY RelayAssumption DEF NextNumber, Number

\* A thread that relays a request (onMeetingCommand) keeps the state well typed.
LEMMA DeviceThreadType ==
    ASSUME TypeOK, NEW c \in Device, DeviceThread(c)
    PROVE  TypeOK'
<1> USE RelayAssumption
<1>1. CASE Counts(c)
  <2>1. ThreadsOK'
    BY <1>1, NextNumberType DEF Counts, TypeOK, ThreadsOK, Number, historyVars
  <2> QED
    BY <1>1, <2>1, Frame DEF Counts, TypeOK, historyVars, meetingVars, netVars
<1>2. CASE Reads(c)
  <2>1. ThreadsOK'
    BY <1>2 DEF Reads, TypeOK, ThreadsOK, AskedOK, Number, Request
  <2>2. shared' \in BOOLEAN
    BY <1>2 DEF Reads
  <2>3. HistoryOK'
    BY <1>2, <2>2 DEF Reads, TypeOK, HistoryOK
  <2> QED
    BY <1>2, <2>1, <2>3, Frame DEF Reads, TypeOK, meetingVars, netVars
<1>3. CASE Stores(c)
  <2>1. req[c] \in 1..Len(asked) /\ KeyOf(c) \in Number
    BY <1>3 DEF Stores, TypeOK, ThreadsOK, KeyOf
  <2>2. [fd |-> asked[req[c]].fd, seq |-> asked[req[c]].seq] \in Entry
    <3>1. asked[req[c]] \in Asked
      BY <2>1 DEF TypeOK, AskedOK
    <3> QED
      BY <3>1 DEF Asked, Entry
  <2>3. TableOK'
    BY <1>3, <2>1, <2>2 DEF Stores, TypeOK, TableOK
  <2>4. ThreadsOK'
    BY <1>3 DEF Stores, TypeOK, ThreadsOK, historyVars
  <2> QED
    BY <1>3, <2>3, <2>4, Frame DEF Stores, TypeOK, historyVars, meetingVars, netVars
<1>4. CASE Picks(c)
  <2>1. req[c] \in Request
    BY <1>4 DEF Picks, TypeOK, ThreadsOK, AskedOK, Request
  <2>2. HistoryOK'
    BY <1>4, <2>1 DEF Picks, TypeOK, HistoryOK
  <2>3. ThreadsOK'
    <3>1. CASE mapClient = <<>>
      BY <1>4, <3>1, FinishType DEF Picks, TypeOK
    <3>2. CASE mapClient # <<>>
      <4>1. Last(mapClient).fd \in MeetingFd /\ 0 \notin MeetingFd
        <5>1. mapClient[Len(mapClient)] \in Bound
          BY <3>2 DEF TypeOK, MeetingsOK
        <5> QED
          BY <5>1 DEF Bound, Last
      <4> QED
        BY <1>4, <3>2, <4>1 DEF Picks, TypeOK, ThreadsOK
    <3> QED
      BY <3>1, <3>2
  <2> QED
    BY <1>4, <2>2, <2>3, Frame DEF Picks, TypeOK, meetingVars, netVars
<1>5. CASE Sends(c)
  <2>1. /\ req[c] \in Request /\ KeyOf(c) \in Number
        /\ target[c] \in MeetingFd
    BY <1>5 DEF Sends, TypeOK, ThreadsOK, AskedOK, Request, KeyOf
  <2>2. HistoryOK'
    BY <1>5, <2>1 DEF Sends, TypeOK, HistoryOK
  <2>3. ThreadsOK'
    BY <1>5, FinishType DEF Sends, TypeOK
  <2>4. PacketsOK'
    <3> DEFINE m == meeting[target[c]]
               p == [link |-> m, key |-> KeyOf(c), about |-> req[c]]
    <3>1. m # 0 => p \in Packet
      BY <2>1 DEF TypeOK, MeetingsOK, Packet
    <3>2. UNCHANGED toAgent
      BY <1>5 DEF Sends
    <3>3. toMeeting' = toMeeting \/ m # 0
      BY <1>5 DEF Sends
    <3>4. toMeeting' = toMeeting \/ toMeeting' = toMeeting \cup {p}
      BY <1>5 DEF Sends
    <3> HIDE DEF m, p
    <3> QED
      BY <3>1, <3>2, <3>3, <3>4 DEF TypeOK, PacketsOK
  <2>5. MeetingsOK'
    <3>1. closing' \subseteq cut
      BY <1>5 DEF Sends, Fails, TypeOK, MeetingsOK
    <3> QED
      BY <1>5, <3>1 DEF Sends, TypeOK, MeetingsOK
  <2> QED
    BY <1>5, <2>2, <2>3, <2>4, <2>5, Frame DEF Sends, TypeOK
<1> QED
  BY <1>1, <1>2, <1>3, <1>4, <1>5 DEF DeviceThread

\* What travels or is handled for one controller is part of all that does.
LEMMA OfType == \A S, m : Of(S, m) \subseteq S
BY DEF Of

\* RemoveAt takes out one element and moves those after it up.
LEMMA RemoveAtProperties ==
    ASSUME NEW S, NEW s \in Seq(S), NEW i \in DOMAIN s
    PROVE  /\ RemoveAt(s, i) \in Seq(S)
           /\ Len(RemoveAt(s, i)) = Len(s) - 1
           /\ \A j \in 1..(Len(s) - 1) : RemoveAt(s, i)[j] = s[IF j < i THEN j ELSE j + 1]
<1> DEFINE t == SubSeq(s, 1, i - 1)
           u == SubSeq(s, i + 1, Len(s))
<1>1. Len(s) \in Nat /\ i \in 1..Len(s) /\ \A k \in 1..Len(s) : s[k] \in S
  OBVIOUS
<1>2. /\ t \in Seq(S) /\ Len(t) = i - 1
      /\ \A j \in 1..(i - 1) : t[j] = s[j]
  BY <1>1, SubSeqProperties
<1>3. /\ u \in Seq(S) /\ Len(u) = Len(s) - i
      /\ \A j \in 1..(Len(s) - i) : u[j] = s[i + j]
  BY <1>1, SubSeqProperties
<1>4. RemoveAt(s, i) = t \o u
  BY DEF RemoveAt
<1> HIDE DEF t, u
<1>5. /\ t \o u \in Seq(S) /\ Len(t \o u) = Len(s) - 1
      /\ \A j \in 1..(Len(s) - 1) :
             (t \o u)[j] = IF j <= i - 1 THEN t[j] ELSE u[j - (i - 1)]
  <2>1. /\ t \o u \in Seq(S) /\ Len(t \o u) = Len(t) + Len(u)
        /\ \A j \in 1..(Len(t) + Len(u)) :
               (t \o u)[j] = IF j <= Len(t) THEN t[j] ELSE u[j - Len(t)]
    BY <1>2, <1>3, ConcatProperties
  <2>2. Len(t) + Len(u) = Len(s) - 1
    BY <1>1, <1>2, <1>3
  <2>3. Len(t) = i - 1
    BY <1>2
  <2> QED
    BY ONLY <2>1, <2>2, <2>3
<1>6. ASSUME NEW j \in 1..(Len(s) - 1) PROVE (t \o u)[j] = s[IF j < i THEN j ELSE j + 1]
  <2>1. CASE j < i
    BY <1>1, <1>2, <1>5, <2>1
  <2>2. CASE ~(j < i)
    <3>1. j - (i - 1) \in 1..(Len(s) - i) /\ i + (j - (i - 1)) = j + 1
      BY <1>1, <2>2
    <3>2. u[j - (i - 1)] = s[j + 1]
      BY <1>3, <3>1
    <3> QED
      BY <1>1, <1>5, <2>2, <3>2
  <2> QED
    BY <2>1, <2>2
<1> QED
  BY <1>4, <1>5, <1>6

\* deleteClient takes one element with the descriptor out of mapClient, if there is one.
LEMMA deleteClientOnly ==
    ASSUME TypeOK, NEW f \in MeetingFd, deleteClient(f)
    PROVE  /\ mapClient' \in Seq(Bound)
           /\ \/ UNCHANGED mapClient /\ ~HasBound(f)
              \/ \E i \in DOMAIN mapClient :
                     /\ mapClient[i].fd = f
                     /\ Len(mapClient') = Len(mapClient) - 1
                     /\ \A j \in DOMAIN mapClient' :
                            mapClient'[j] = mapClient[IF j < i THEN j ELSE j + 1]
<1>1. mapClient \in Seq(Bound)
  BY DEF TypeOK, MeetingsOK
<1>2. ASSUME NEW i \in DOMAIN mapClient, mapClient[i].fd = f,
             mapClient' = RemoveAt(mapClient, i)
      PROVE  /\ mapClient' \in Seq(Bound)
             /\ Len(mapClient') = Len(mapClient) - 1
             /\ \A j \in DOMAIN mapClient' :
                    mapClient'[j] = mapClient[IF j < i THEN j ELSE j + 1]
  <2>1. /\ mapClient' \in Seq(Bound) /\ Len(mapClient') = Len(mapClient) - 1
        /\ \A j \in 1..(Len(mapClient) - 1) :
               mapClient'[j] = mapClient[IF j < i THEN j ELSE j + 1]
    BY <1>1, <1>2, RemoveAtProperties
  <2>2. DOMAIN mapClient' = 1..(Len(mapClient) - 1)
    BY <2>1
  <2> QED
    BY <2>1, <2>2
<1> QED
  BY <1>1, <1>2 DEF deleteClient

\* What happens to the connections of controllers keeps the state well typed.
LEMMA MeetingType ==
    ASSUME TypeOK, NEW f \in MeetingFd, LinkAction(f)
    PROVE  TypeOK'
<1> USE RelayAssumption
<1>0. /\ meeting \in [MeetingFd -> Link \cup {0}] /\ mapClient \in Seq(Bound)
      /\ 0 \notin Link /\ cut \subseteq Link /\ ended \subseteq cut /\ closing \subseteq cut
  BY DEF TypeOK, MeetingsOK, Link
<1>1. CASE MeetingConnects(f)
  <2>1. MeetingsOK'
    BY <1>1 DEF MeetingConnects, TypeOK, MeetingsOK, Link
  <2> QED
    BY <1>1, <2>1, Frame DEF MeetingConnects, TypeOK, historyVars, deviceVars, netVars,
       threadVars
<1>2. CASE Clears(f)
  <2>1. meeting[f] \in Link
    BY <1>0, <1>2 DEF Clears, Receives
  <2>2. MeetingsOK'
    BY <1>2, <2>1 DEF Clears, linkVars, TypeOK, MeetingsOK
  <2> QED
    BY <1>2, <2>2, Frame DEF Clears, TypeOK, historyVars, deviceVars, netVars, threadVars
<1>3. CASE Pushes(f)
  <2> DEFINE e == [fd |-> f, conn |-> meeting[f], late |-> leaving = meeting[f]]
  <2>1. meeting[f] \in Link
    BY <1>0, <1>3 DEF Pushes, TypeOK, MeetingsOK
  <2>2. e \in Bound
    <3>1. (leaving = meeting[f]) \in BOOLEAN
      OBVIOUS
    <3> QED
      BY <2>1, <3>1 DEF Bound
  <2>3. mapClient' = Append(mapClient, e)
    BY <1>3 DEF Pushes
  <2> HIDE DEF e
  <2>4. mapClient' \in Seq(Bound)
    BY <1>0, <2>2, <2>3
  <2>5. closing' \subseteq cut
    BY <1>0, <1>3 DEF Pushes, Fails
  <2>6. MeetingsOK'
    BY <1>3, <2>4, <2>5 DEF Pushes, TypeOK, MeetingsOK
  <2> QED
    BY <1>3, <2>6, Frame DEF Pushes, TypeOK, historyVars, deviceVars, netVars, threadVars
<1>4. CASE onUnbind(f)
  <2>1. mapClient' \in Seq(Bound)
    BY <1>4, deleteClientOnly DEF onUnbind
  <2>2. MeetingsOK'
    BY <1>4, <2>1 DEF onUnbind, linkVars, TypeOK, MeetingsOK
  <2> QED
    BY <1>4, <2>2, Frame DEF onUnbind, TypeOK, historyVars, deviceVars, netVars, threadVars
<1>5. ASSUME NEW S \in {toMeeting, toAgent}, lost' = lost \cup Abouts(Of(S, meeting[f])),
             UNCHANGED <<got, relayed, shared>>
      PROVE  HistoryOK'
  <2>1. Abouts(Of(S, meeting[f])) \subseteq Request
    BY OfType DEF TypeOK, PacketsOK, Packet, Abouts
  <2> QED
    BY <1>5, <2>1 DEF TypeOK, HistoryOK
<1>6. CASE MeetingLeaves(f)
  <2>1. MeetingsOK'
    BY <1>0, <1>6 DEF MeetingLeaves, TypeOK, MeetingsOK
  <2>2. PacketsOK'
    BY <1>6 DEF MeetingLeaves, TypeOK, PacketsOK
  <2>3. HistoryOK'
    BY <1>5, <1>6 DEF MeetingLeaves
  <2> QED
    BY <1>6, <2>1, <2>2, <2>3, Frame DEF MeetingLeaves, TypeOK, deviceVars, threadVars
<1>7. CASE ReceiveEnds(f)
  <2>1. MeetingsOK'
    BY <1>0, <1>7 DEF ReceiveEnds, TypeOK, MeetingsOK
  <2>2. PacketsOK'
    BY <1>7 DEF ReceiveEnds, TypeOK, PacketsOK
  <2>3. HistoryOK'
    BY <1>5, <1>7 DEF ReceiveEnds
  <2> QED
    BY <1>7, <2>1, <2>2, <2>3, Frame DEF ReceiveEnds, TypeOK, deviceVars, threadVars
<1>8. CASE onClientDisconnect(f)
  <2>1. mapClient' \in Seq(Bound)
    BY <1>8, deleteClientOnly DEF onClientDisconnect
  <2>2. MeetingsOK'
    BY <1>0, <1>8, <2>1 DEF onClientDisconnect, TypeOK, MeetingsOK
  <2> QED
    BY <1>8, <2>2, Frame DEF onClientDisconnect, TypeOK, historyVars, deviceVars, netVars,
       threadVars
<1>9. CASE eraseClient(f)
  <2>1. MeetingsOK'
    BY <1>9 DEF eraseClient, TypeOK, MeetingsOK
  <2> QED
    BY <1>9, <2>1, Frame DEF eraseClient, TypeOK, historyVars, deviceVars, netVars,
       threadVars
<1> QED
  BY <1>1, <1>2, <1>3, <1>4, <1>6, <1>7, <1>8, <1>9 DEF LinkAction

\* An answer, and the thread that passes it on (onDeviceCommand), keep the state
\* well typed.
LEMMA AnswerType ==
    ASSUME TypeOK,
           \/ \E p \in toMeeting : MeetingAnswers(p)
           \/ \E m \in Link : MeetingThread(m) \/ CancelsResponse(m)
    PROVE  TypeOK'
<1>1. ASSUME NEW p \in toMeeting, MeetingAnswers(p) PROVE TypeOK'
  <2>1. PacketsOK'
    BY <1>1 DEF MeetingAnswers, TypeOK, PacketsOK
  <2> QED
    BY <1>1, <2>1, Frame DEF MeetingAnswers, TypeOK, deviceVars, threadVars, meetingVars,
       historyVars
<1>2. ASSUME NEW p \in toAgent, Finds(p) PROVE TypeOK'
  <2> DEFINE e == deviceMapData[p.key]
             g == [key |-> p.key, fd |-> e.fd, seq |-> e.seq, about |-> p.about]
  <2>1. p.link \in Link /\ p.key \in Number /\ p.about \in Request
    BY DEF TypeOK, PacketsOK, Packet
  <2>2. e \in Entry \cup {NoEntry}
    BY <2>1 DEF TypeOK, TableOK
  <2>3. e # NoEntry => g \in Found
    BY <2>1, <2>2 DEF Entry, Found
  <2>4. found' = found \/ e # NoEntry
    BY <1>2 DEF Finds
  <2>5. found' = found \/ found' = [found EXCEPT ![p.link] = g]
    BY <1>2 DEF Finds
  <2> HIDE DEF g
  <2>6. TableOK'
    BY <1>2, <2>1, <2>3, <2>4, <2>5 DEF Finds, TypeOK, TableOK
  <2>7. PacketsOK'
    BY <1>2 DEF Finds, TypeOK, PacketsOK
  <2> QED
    BY <1>2, <2>6, <2>7, Frame DEF Finds, TypeOK, deviceVars, threadVars, meetingVars,
       historyVars
<1>3. ASSUME NEW m \in Link, Responds(m) PROVE TypeOK'
  <2> DEFINE e == found[m]
             g == [fd |-> e.fd, conn |-> device[e.fd], seq |-> e.seq, about |-> e.about]
  <2>1. /\ e.key \in Number /\ e.fd \in DeviceFd
        /\ e.seq \in Request /\ e.about \in Request
    BY <1>3 DEF Responds, TypeOK, TableOK, Found
  <2>2. TableOK'
    BY <1>3, <2>1 DEF Responds, Erases, TypeOK, TableOK
  <2>3. device[e.fd] \in Device \cup {0}
    BY <2>1 DEF TypeOK, DevicesOK
  <2>4. got' = got \/ device[e.fd] # 0
    BY <1>3 DEF Responds
  <2>5. got' = got \/ got' = got \cup {g}
    BY <1>3 DEF Responds
  <2>6. device[e.fd] # 0 =>
            g \in [fd : DeviceFd, conn : Device, seq : Request, about : Request]
    BY <2>1, <2>3
  <2> HIDE DEF g
  <2>7. HistoryOK'
    BY <1>3, <2>1, <2>4, <2>5, <2>6 DEF Responds, TypeOK, HistoryOK
  <2>8. ThreadsOK'
    BY <1>3 DEF Responds, TypeOK, ThreadsOK, threadVars
  <2> QED
    BY <1>3, <2>2, <2>7, <2>8, Frame DEF Responds, TypeOK, deviceVars, meetingVars, netVars
<1>4. ASSUME NEW m \in Link, CancelsResponse(m) PROVE TypeOK'
  <2>1. found[m].key \in Number /\ found[m].about \in Request
    BY <1>4 DEF CancelsResponse, TypeOK, TableOK, Found
  <2>2. TableOK'
    BY <1>4, <2>1 DEF CancelsResponse, Erases, TypeOK, TableOK
  <2>3. MeetingsOK'
    BY <1>4 DEF CancelsResponse, TypeOK, MeetingsOK
  <2>4. PacketsOK'
    BY <1>4 DEF CancelsResponse, TypeOK, PacketsOK
  <2>5. Abouts(Of(toAgent, m)) \subseteq Request
    BY OfType DEF TypeOK, PacketsOK, Packet, Abouts
  <2>6. HistoryOK'
    BY <1>4, <2>1, <2>5 DEF CancelsResponse, TypeOK, HistoryOK
  <2> QED
    BY <1>4, <2>2, <2>3, <2>4, <2>6, Frame DEF CancelsResponse, TypeOK, deviceVars,
       threadVars
<1> QED
  BY <1>1, <1>2, <1>3, <1>4 DEF MeetingThread, Of

\* Every step keeps the state well typed.
LEMMA TypeStep == TypeOK /\ [Next]_vars => TypeOK'
<1> SUFFICES ASSUME TypeOK, [Next]_vars PROVE TypeOK'
  OBVIOUS
<1>1. CASE UNCHANGED vars
  BY <1>1, Frame DEF TypeOK, vars, deviceVars, threadVars, meetingVars, netVars, historyVars
<1> QED
  BY <1>1, DeviceType, DeviceThreadType, MeetingType, AnswerType
     DEF Next, Agent, Peers, LinkAction

\* The state of the relay is well typed: a thread that uses its number has drawn it
\* before, and one that sends has picked a controller.
THEOREM RelayTypeCorrect == Spec => []TypeOK
<1> QED
  BY TypeInit, TypeStep, PTL DEF Spec

-----------------------------------------------------------------------------
(* What actions leave alone *)

\* What happens to the connection of a controller leaves the devices, the table and
\* the answers under way through it alone.
LEMMA LinkFrame ==
    ASSUME NEW f \in MeetingFd, LinkAction(f)
    PROVE  /\ UNCHANGED <<device, devices, pc, req, deviceMapData, found, asked, number,
                          got, relayed, shared>>
           /\ toMeeting' \subseteq toMeeting
           /\ toAgent' \subseteq toAgent
<1>1. CASE MeetingConnects(f)
  BY <1>1 DEF MeetingConnects, deviceVars, threadVars, historyVars, netVars
<1>2. CASE Clears(f)
  BY <1>2 DEF Clears, deviceVars, threadVars, historyVars, netVars
<1>3. CASE Pushes(f)
  BY <1>3 DEF Pushes, deviceVars, threadVars, historyVars, netVars
<1>4. CASE onUnbind(f)
  BY <1>4 DEF onUnbind, deviceVars, threadVars, historyVars, netVars
<1>5. CASE MeetingLeaves(f)
  BY <1>5 DEF MeetingLeaves, deviceVars, threadVars
<1>6. CASE ReceiveEnds(f)
  BY <1>6 DEF ReceiveEnds, deviceVars, threadVars
<1>7. CASE onClientDisconnect(f)
  BY <1>7 DEF onClientDisconnect, deviceVars, threadVars, historyVars, netVars
<1>8. CASE eraseClient(f)
  BY <1>8 DEF eraseClient, deviceVars, threadVars, historyVars, netVars
<1> QED
  BY <1>1, <1>2, <1>3, <1>4, <1>5, <1>6, <1>7, <1>8 DEF LinkAction

\* A thread that is cancelled before it responds leaves no entry and no answer behind.
LEMMA CancelFrame ==
    ASSUME TypeOK, NEW m \in Link, CancelsResponse(m)
    PROVE  /\ UNCHANGED <<device, devices, pc, req, asked, number, toMeeting, got, relayed,
                          shared, meeting, links, cut, leaving, adds, mapClient>>
           /\ toAgent' = toAgent \ Of(toAgent, m)
           /\ ended' = ended \cup {m}
           /\ found[m] # Nothing
           /\ found' = [found EXCEPT ![m] = Nothing]
           /\ \A k \in Link : found'[k] \in {found[k], Nothing}
           /\ \A n \in Number : deviceMapData'[n] \in {deviceMapData[n], NoEntry}
<1>1. /\ found \in [Link -> Found \cup {Nothing}]
      /\ deviceMapData \in [Number -> Entry \cup {NoEntry}]
  BY DEF TypeOK, TableOK
<1>2. /\ found' = [found EXCEPT ![m] = Nothing] /\ found[m] # Nothing
      /\ deviceMapData' = [deviceMapData EXCEPT ![found[m].key] = NoEntry]
  BY DEF CancelsResponse, Erases
<1>3. \A k \in Link : found'[k] \in {found[k], Nothing}
  BY <1>1, <1>2
<1>4. \A n \in Number : deviceMapData'[n] \in {deviceMapData[n], NoEntry}
  BY <1>1, <1>2
<1> QED
  BY <1>2, <1>3, <1>4 DEF CancelsResponse, deviceVars, threadVars

-----------------------------------------------------------------------------
(* Connections of devices *)

\* A thread that relays a request touches nothing of other threads.
LEMMA DeviceThreadFrame ==
    ASSUME TypeOK, NEW c \in Device, DeviceThread(c)
    PROVE  /\ UNCHANGED <<device, devices, asked, got, meeting, links, cut, ended, leaving, adds,
                          mapClient, found>>
           /\ pc[c] # "idle" /\ req[c] \in 1..Len(asked)
           /\ pc' \in [Device -> {"idle", "count", "read", "store", "pick", "send"}]
           /\ \A d \in Device \ {c} : pc'[d] = pc[d] /\ req'[d] = req[d]
           /\ pc'[c] # "idle" => req'[c] = req[c]
<1> USE DEF TypeOK, ThreadsOK
<1>1. CASE Counts(c)
  BY <1>1 DEF Counts, historyVars, deviceVars, meetingVars, linkVars
<1>2. CASE Reads(c)
  BY <1>2 DEF Reads, deviceVars, meetingVars, linkVars
<1>3. CASE Stores(c)
  BY <1>3 DEF Stores, historyVars, deviceVars, meetingVars, linkVars
<1>4. CASE Picks(c)
  BY <1>4 DEF Picks, Finishes, deviceVars, meetingVars, linkVars
<1>5. CASE Sends(c)
  BY <1>5 DEF Sends, Finishes, deviceVars
<1> QED
  BY <1>1, <1>2, <1>3, <1>4, <1>5 DEF DeviceThread

\* Requests come in one by one, each from the connection of its descriptor.
LEMMA AskedGrows ==
    ASSUME TypeOK, NEW f \in DeviceFd, DeviceAsks(f)
    PROVE  /\ Len(asked) \in Nat /\ Len(asked') = Len(asked) + 1
           /\ \A i \in 1..Len(asked) : asked'[i] = asked[i]
           /\ asked'[Len(asked) + 1].conn = device[f]
           /\ asked'[Len(asked) + 1].fd = f
           /\ device[f] \in Device /\ pc[device[f]] = "idle"
           /\ Len(asked) + 1 \in Request
           /\ pc' = [pc EXCEPT ![device[f]] = "count"]
           /\ req' = [req EXCEPT ![device[f]] = Len(asked) + 1]
<1> DEFINE a == [conn |-> device[f], fd |-> f, seq |-> OwnSeq(device[f])]
<1>1. device[f] \in Device /\ pc[device[f]] = "idle"
  BY DEF DeviceAsks, TypeOK, DevicesOK
<1>2. asked \in Seq(Asked) /\ Len(asked) < MaxRequest /\ asked' = Append(asked, a)
  BY DEF DeviceAsks, TypeOK, AskedOK
<1>3. a \in Asked
  BY <1>1, <1>2, OwnSeqType DEF TypeOK, Asked
<1>4. a.conn = device[f] /\ a.fd = f
  OBVIOUS
<1> HIDE DEF a
<1>5. /\ Len(asked) \in Nat /\ Len(asked') = Len(asked) + 1
      /\ \A i \in 1..Len(asked) : asked'[i] = asked[i]
      /\ asked'[Len(asked) + 1] = a
  BY <1>2, <1>3
<1>6. Len(asked) + 1 \in Request
  BY <1>2, <1>5, RelayAssumption DEF Request
<1>7. /\ pc' = [pc EXCEPT ![device[f]] = "count"]
      /\ req' = [req EXCEPT ![device[f]] = Len(asked) + 1]
  BY DEF DeviceAsks
<1> QED
  BY <1>1, <1>4, <1>5, <1>6, <1>7

\* A request handled is one that was asked.
LEMMA AskedType ==
    ASSUME TypeOK
    PROVE  /\ Len(asked) \in Nat
           /\ \A i \in 1..Len(asked) :
                 asked[i].conn \in Device /\ asked[i].fd \in DeviceFd /\ asked[i].seq \in Request
           /\ \A c \in Device : pc[c] # "idle" => req[c] \in 1..Len(asked)
<1>1. asked \in Seq(Asked) /\ Len(asked) \in Nat
  BY DEF TypeOK, AskedOK
<1>2. \A i \in 1..Len(asked) : asked[i] \in Asked
  BY <1>1
<1>3. \A c \in Device : pc[c] # "idle" => req[c] \in 1..Len(asked)
  BY DEF TypeOK, ThreadsOK
<1> QED
  BY <1>1, <1>2, <1>3 DEF Asked

\* While a handler runs its device keeps its descriptor.
LEMMA DevicesStep ==
    TypeOK /\ DevicesAtHome /\ [Next]_vars => DevicesAtHome'
<1> SUFFICES ASSUME TypeOK, DevicesAtHome, [Next]_vars PROVE DevicesAtHome'
  OBVIOUS
<1>1. ASSUME UNCHANGED <<device, devices, asked, pc, req>> PROVE DevicesAtHome'
  BY <1>1 DEF DevicesAtHome
<1>2. ASSUME NEW f \in DeviceFd, DeviceConnects(f) PROVE DevicesAtHome'
  <2>1. /\ device \in [DeviceFd -> Device \cup {0}] /\ devices \in Nat
    BY RelayAssumption DEF TypeOK, DevicesOK
  <2>2. /\ device[f] = 0 /\ devices' = devices + 1
        /\ device' = [device EXCEPT ![f] = devices + 1]
        /\ UNCHANGED <<asked, pc, req>>
    BY <1>2 DEF DeviceConnects, threadVars, historyVars
  <2>3. \A g \in DeviceFd : device'[g] <= devices'
    BY <2>1, <2>2 DEF DevicesAtHome, Device
  <2>4. \A i \in 1..Len(asked') : asked'[i].conn <= devices'
    BY <2>1, <2>2, AskedType DEF DevicesAtHome, Device
  <2>5. \A c \in Device : pc'[c] # "idle" =>
            asked'[req'[c]].conn = c /\ device'[asked'[req'[c]].fd] = c
    BY <2>1, <2>2, AskedType DEF DevicesAtHome, Device
  <2> QED
    BY <2>3, <2>4, <2>5 DEF DevicesAtHome
<1>3. ASSUME NEW f \in DeviceFd, DeviceAsks(f) PROVE DevicesAtHome'
  <2>1. UNCHANGED <<device, devices>>
    BY <1>3 DEF DeviceAsks, deviceVars
  <2>2. \A i \in 1..Len(asked') : asked'[i].conn <= devices'
    <3>1. SUFFICES ASSUME NEW i \in 1..Len(asked') PROVE asked'[i].conn <= devices
      BY <2>1
    <3>2. CASE i \in 1..Len(asked)
      BY <1>3, <3>2, AskedGrows DEF DevicesAtHome
    <3>3. CASE i = Len(asked) + 1
      BY <1>3, <3>3, AskedGrows DEF DevicesAtHome
    <3> QED
      BY <1>3, <3>1, <3>2, <3>3, AskedGrows
  <2>3. \A c \in Device : pc'[c] # "idle" =>
            asked'[req'[c]].conn = c /\ device'[asked'[req'[c]].fd] = c
    <3>1. SUFFICES ASSUME NEW c \in Device, pc'[c] # "idle"
                   PROVE  asked'[req'[c]].conn = c /\ device[asked'[req'[c]].fd] = c
      BY <2>1
    <3>2. CASE c = device[f]
      <4>1. req'[c] = Len(asked) + 1
        BY <1>3, <3>2, AskedGrows DEF TypeOK, ThreadsOK
      <4> QED
        BY <1>3, <3>2, <4>1, AskedGrows
    <3>3. CASE c # device[f]
      <4>1. req'[c] = req[c] /\ pc'[c] = pc[c]
        BY <1>3, <3>3, AskedGrows DEF TypeOK, ThreadsOK
      <4>2. req[c] \in 1..Len(asked) /\ asked'[req[c]] = asked[req[c]]
        BY <1>3, <3>1, <4>1, AskedGrows, AskedType
      <4> QED
        BY <3>1, <4>1, <4>2 DEF DevicesAtHome
    <3> QED
      BY <3>2, <3>3
  <2> QED
    BY <2>1, <2>2, <2>3 DEF DevicesAtHome
<1>4. ASSUME NEW f \in DeviceFd, DeviceLeaves(f) PROVE DevicesAtHome'
  <2>1. /\ device \in [DeviceFd -> Device \cup {0}] /\ devices \in Nat
    BY RelayAssumption DEF TypeOK, DevicesOK
  <2> QED
    BY <1>4, <2>1, AskedType DEF DeviceLeaves, DevicesAtHome, threadVars, historyVars
<1>5. ASSUME NEW c \in Device, DeviceThread(c) PROVE DevicesAtHome'
  BY <1>5, DeviceThreadFrame DEF DevicesAtHome
<1>6. ASSUME NEW f \in MeetingFd, LinkAction(f) PROVE DevicesAtHome'
  BY <1>1, <1>6, LinkFrame
<1>7. ASSUME NEW p \in toMeeting, MeetingAnswers(p) PROVE DevicesAtHome'
  BY <1>1, <1>7 DEF MeetingAnswers, deviceVars, threadVars, historyVars
<1>8. ASSUME NEW m \in Link, MeetingThread(m) PROVE DevicesAtHome'
  BY <1>1, <1>8 DEF MeetingThread, Finds, Responds, deviceVars, threadVars, historyVars
<1>9. ASSUME NEW m \in Link, CancelsResponse(m) PROVE DevicesAtHome'
  BY <1>1, <1>9, CancelFrame
<1>10. CASE UNCHANGED vars
  BY <1>1, <1>10 DEF vars, deviceVars, threadVars, historyVars
<1> QED
  BY <1>2, <1>3, <1>4, <1>5, <1>6, <1>7, <1>8, <1>9, <1>10
     DEF Next, Agent, Peers, LinkAction

-----------------------------------------------------------------------------
(* Connections of controllers *)

\* What a thread that relays a request does to the network.
LEMMA SendsOnly ==
    ASSUME TypeOK, NEW c \in Device, DeviceThread(c)
    PROVE  /\ UNCHANGED toAgent
           /\ \/ UNCHANGED toMeeting
              \/ /\ Sends(c) /\ target[c] \in MeetingFd
                 /\ meeting[target[c]] # 0 /\ meeting[target[c]] \notin cut
                 /\ toMeeting' = toMeeting \cup
                        {[link |-> meeting[target[c]], key |-> KeyOf(c), about |-> req[c]]}
<1>1. CASE Counts(c) \/ Reads(c) \/ Stores(c) \/ Picks(c)
  BY <1>1 DEF Counts, Reads, Stores, Picks, netVars
<1>2. CASE Sends(c)
  <2>1. target[c] \in MeetingFd
    BY <1>2 DEF Sends, TypeOK, ThreadsOK
  <2> QED
    BY <1>2, <2>1 DEF Sends
<1> QED
  BY <1>1, <1>2 DEF DeviceThread

\* What onDeviceCommand keeps at most one of.
LEMMA FindsOnly ==
    ASSUME TypeOK, NEW p \in toAgent, Finds(p)
    PROVE  /\ p.link \in Link /\ toAgent' = toAgent \ {p}
           /\ \A m \in Link \ {p.link} : found'[m] = found[m]
           /\ found'[p.link] # Nothing =>
                 /\ deviceMapData[p.key] # NoEntry
                 /\ found'[p.link].key = p.key /\ found'[p.link].about = p.about
                 /\ found'[p.link].fd = deviceMapData[p.key].fd
                 /\ found'[p.link].seq = deviceMapData[p.key].seq
<1>1. p.link \in Link /\ found \in [Link -> Found \cup {Nothing}] /\ found[p.link] = Nothing
  BY DEF Finds, Receives, TypeOK, PacketsOK, Packet, TableOK
<1> DEFINE g == [key |-> p.key, fd |-> deviceMapData[p.key].fd,
                 seq |-> deviceMapData[p.key].seq, about |-> p.about]
<1>2. UNCHANGED found \/ found' = [found EXCEPT ![p.link] = g]
  BY DEF Finds
<1>3. UNCHANGED found \/ deviceMapData[p.key] # NoEntry
  BY DEF Finds
<1>4. toAgent' = toAgent \ {p}
  BY DEF Finds
<1>5. /\ g.key = p.key /\ g.about = p.about
      /\ g.fd = deviceMapData[p.key].fd /\ g.seq = deviceMapData[p.key].seq
  OBVIOUS
<1> HIDE DEF g
<1>6. (\A m \in Link \ {p.link} : found'[m] = found[m])
      /\ (found'[p.link] = Nothing \/ found'[p.link] = g)
  BY <1>1, <1>2
<1>7. found'[p.link] # Nothing => deviceMapData[p.key] # NoEntry
  BY <1>1, <1>3
<1> QED
  BY <1>1, <1>4, <1>5, <1>6, <1>7

\* What travels to or from a controller, or is handled for it, belongs to a
\* connection that is not closed yet.
LEMMA LinksStep ==
    TypeOK /\ LinksAtHome /\ [Next]_vars => LinksAtHome'
<1> SUFFICES ASSUME TypeOK, LinksAtHome, [Next]_vars PROVE LinksAtHome'
  OBVIOUS
<1>0. /\ meeting \in [MeetingFd -> Link \cup {0}] /\ links \in Nat /\ 0 \notin Link
      /\ \A g \in MeetingFd : meeting[g] \in Nat
      /\ Link \subseteq Nat /\ cut \subseteq Link /\ ended \subseteq cut
      /\ found \in [Link -> Found \cup {Nothing}]
      /\ toMeeting \subseteq Packet /\ toAgent \subseteq Packet
      /\ \A p \in Packet : p.link \in Link
  BY RelayAssumption DEF TypeOK, MeetingsOK, TableOK, PacketsOK, Packet, Link
<1>1. ASSUME UNCHANGED <<meeting, links, cut, ended, toMeeting, toAgent, found>>
      PROVE  LinksAtHome'
  BY <1>1 DEF LinksAtHome, Connected
<1>2. ASSUME NEW f \in MeetingFd, MeetingConnects(f) PROVE LinksAtHome'
  <2>1. /\ meeting[f] = 0 /\ links' = links + 1
        /\ meeting' = [meeting EXCEPT ![f] = links + 1]
        /\ UNCHANGED <<cut, ended, toMeeting, toAgent, found>>
    BY <1>2 DEF MeetingConnects, netVars
  <2> DEFINE n == links + 1
  <2>9. /\ meeting'[f] = n
        /\ \A g \in MeetingFd \ {f} : meeting'[g] = meeting[g] /\ meeting[g] < n
    BY <1>0, <2>1 DEF LinksAtHome
  <2>2. \A g \in MeetingFd : meeting'[g] <= links'
    BY <1>0, <2>1, <2>9
  <2>3. \A g, h \in MeetingFd : meeting'[g] = meeting'[h] /\ meeting'[g] # 0 => g = h
    <3> SUFFICES ASSUME NEW g \in MeetingFd, NEW h \in MeetingFd,
                        meeting'[g] = meeting'[h], meeting'[g] # 0, g # h
                 PROVE  FALSE
      OBVIOUS
    <3>1. CASE g # f /\ h # f
      BY <2>9, <3>1 DEF LinksAtHome
    <3>2. CASE g = f \/ h = f
      <4>1. \A k \in MeetingFd \ {f} : meeting[k] \in Nat /\ n \in Nat
        BY <1>0
      <4> HIDE DEF n
      <4> QED
        BY <2>9, <3>2, <4>1
    <3> QED
      BY <3>1, <3>2
  <2>4. \A m \in Link : Connected(m) => Connected(m)'
    BY <1>0, <2>1 DEF Connected
  <2> QED
    BY <1>0, <2>1, <2>2, <2>3, <2>4 DEF LinksAtHome
<1>3. ASSUME NEW f \in MeetingFd,
             Clears(f) \/ Pushes(f) \/ onUnbind(f) \/ onClientDisconnect(f)
      PROVE  LinksAtHome'
  BY <1>1, <1>3 DEF Clears, Pushes, onUnbind, onClientDisconnect, linkVars, netVars
<1>4. ASSUME NEW f \in MeetingFd, MeetingLeaves(f) PROVE LinksAtHome'
  BY <1>0, <1>4 DEF MeetingLeaves, LinksAtHome, Connected, Of
<1>5. ASSUME NEW m \in Link,
             /\ UNCHANGED <<meeting, links, cut, toMeeting>>
             /\ ended' = ended \cup {m} /\ toAgent' = toAgent \ Of(toAgent, m)
             /\ found'[m] = Nothing
             /\ \A k \in Link : found'[k] \in {found[k], Nothing}
      PROVE  LinksAtHome'
  <2>1. \A k \in Link : Connected(k)' <=> Connected(k)
    BY <1>5 DEF Connected
  <2>2. \A k \in ended' : found'[k] = Nothing /\ \A p \in toAgent' : p.link # k
    BY <1>0, <1>5 DEF LinksAtHome, Of
  <2>3. \A k \in Link : found'[k] # Nothing => Connected(k)
    BY <1>5 DEF LinksAtHome
  <2> QED
    BY <1>0, <1>5, <2>1, <2>2, <2>3 DEF LinksAtHome
<1>6. ASSUME NEW f \in MeetingFd, ReceiveEnds(f) PROVE LinksAtHome'
  <2>1. meeting[f] \in Link /\ found[meeting[f]] = Nothing
    BY <1>0, <1>6 DEF ReceiveEnds, Receives
  <2> QED
    BY <1>5, <1>6, <2>1 DEF ReceiveEnds
<1>7. ASSUME NEW m \in Link, CancelsResponse(m) PROVE LinksAtHome'
  <2>1. found'[m] = Nothing
    BY <1>0, <1>7, CancelFrame
  <2> QED
    BY <1>5, <1>7, <2>1, CancelFrame
<1>8. ASSUME NEW f \in MeetingFd, eraseClient(f) PROVE LinksAtHome'
  <2>1. /\ meeting[f] \in ended
        /\ meeting' = [meeting EXCEPT ![f] = 0]
        /\ UNCHANGED <<links, cut, ended, toMeeting, toAgent, found>>
    BY <1>8 DEF eraseClient, netVars
  <2>2. \A m \in Link : Connected(m) /\ m # meeting[f] => Connected(m)'
    BY <1>0, <2>1 DEF Connected
  <2>3. /\ \A g \in MeetingFd : meeting'[g] <= links'
        /\ \A g, h \in MeetingFd : meeting'[g] = meeting'[h] /\ meeting'[g] # 0 => g = h
    BY <1>0, <2>1 DEF LinksAtHome
  <2>4. \A p \in toMeeting : p.link # meeting[f]
    BY <1>0, <2>1 DEF LinksAtHome
  <2>5. \A p \in toAgent : p.link # meeting[f]
    BY <2>1 DEF LinksAtHome
  <2>6. found[meeting[f]] = Nothing
    BY <2>1 DEF LinksAtHome
  <2>7. \A p \in toMeeting' : p.link \notin cut' /\ Connected(p.link)'
    BY <1>0, <2>1, <2>2, <2>4 DEF LinksAtHome
  <2>8. \A p \in toAgent' : Connected(p.link)'
    BY <1>0, <2>1, <2>2, <2>5 DEF LinksAtHome
  <2>9. \A m \in Link : found'[m] # Nothing => Connected(m)'
    BY <1>0, <2>1, <2>2, <2>6 DEF LinksAtHome
  <2>10. \A m \in ended' : found'[m] = Nothing /\ \A p \in toAgent' : p.link # m
    BY <2>1 DEF LinksAtHome
  <2> QED
    BY <2>3, <2>7, <2>8, <2>9, <2>10 DEF LinksAtHome
<1>9. ASSUME NEW f \in DeviceFd, DeviceConnects(f) \/ DeviceAsks(f) \/ DeviceLeaves(f)
      PROVE  LinksAtHome'
  BY <1>1, <1>9 DEF DeviceConnects, DeviceAsks, DeviceLeaves, meetingVars, linkVars, netVars
<1>10. ASSUME NEW c \in Device, DeviceThread(c) PROVE LinksAtHome'
  <2>1. UNCHANGED <<meeting, links, cut, ended, found, toAgent>>
    BY <1>10, DeviceThreadFrame, SendsOnly
  <2>2. \A m \in Link : Connected(m)' <=> Connected(m)
    BY <2>1 DEF Connected
  <2>3. \A p \in toMeeting' : p.link \notin cut /\ Connected(p.link)
    BY <1>10, SendsOnly DEF LinksAtHome, Connected
  <2> QED
    BY <2>1, <2>3 DEF LinksAtHome, Connected
<1>11. ASSUME NEW p \in toMeeting, MeetingAnswers(p) PROVE LinksAtHome'
  BY <1>0, <1>11 DEF MeetingAnswers, LinksAtHome, Connected, meetingVars, linkVars
<1>12. ASSUME NEW p \in toAgent, Finds(p) PROVE LinksAtHome'
  <2>1. UNCHANGED <<meeting, links, cut, ended, toMeeting>> /\ p.link \notin ended
    BY <1>12 DEF Finds, Receives, meetingVars, linkVars
  <2>2. \A q \in toAgent' : Connected(q.link)
    BY <1>12, FindsOnly DEF LinksAtHome
  <2>3. \A m \in Link : found'[m] # Nothing => Connected(m)
    <3>1. Connected(p.link)
      BY DEF LinksAtHome
    <3>2. \A m \in Link \ {p.link} : found'[m] = found[m]
      BY <1>12, FindsOnly
    <3> QED
      BY <3>1, <3>2 DEF LinksAtHome
  <2>4. \A m \in ended : found'[m] = Nothing /\ \A q \in toAgent' : q.link # m
    BY <1>0, <1>12, <2>1, FindsOnly DEF LinksAtHome
  <2> QED
    BY <2>1, <2>2, <2>3, <2>4 DEF LinksAtHome, Connected
<1>13. ASSUME NEW m \in Link, Responds(m) PROVE LinksAtHome'
  BY <1>0, <1>13 DEF Responds, LinksAtHome, Connected, meetingVars, linkVars, netVars
<1>14. CASE UNCHANGED vars
  BY <1>1, <1>14 DEF vars, meetingVars, linkVars, netVars
<1> QED
  BY <1>2, <1>3, <1>4, <1>6, <1>7, <1>8, <1>9, <1>10, <1>11, <1>12, <1>13, <1>14
     DEF Next, Agent, Peers, MeetingThread, Of

-----------------------------------------------------------------------------
(* Who has bound *)

\* BoundsAtHome, when an action at most takes elements out of mapClient.
LEMMA BoundsShrink ==
    ASSUME TypeOK, BoundsAtHome, mapClient' \in Seq(Bound),
           NEW i \in Nat,
           \A j \in DOMAIN mapClient' :
               /\ (IF j < i THEN j ELSE j + 1) \in DOMAIN mapClient
               /\ mapClient'[j] = mapClient[IF j < i THEN j ELSE j + 1]
    PROVE  /\ \A j \in DOMAIN mapClient' : ~mapClient'[j].late =>
                  /\ meeting[mapClient'[j].fd] = mapClient'[j].conn
                  /\ mapClient'[j].conn # leaving
           /\ \A j, k \in DOMAIN mapClient' : mapClient'[j].fd = mapClient'[k].fd => j = k
           /\ \A f \in MeetingFd : meeting[f] \in adds => ~HasBound(f)'
<1> DEFINE at(j) == IF j < i THEN j ELSE j + 1
<1>1. DOMAIN mapClient' \subseteq Nat
  OBVIOUS
<1>2. \A j, k \in DOMAIN mapClient' : at(j) = at(k) => j = k
  BY <1>1
<1>3. \A j \in DOMAIN mapClient' :
          at(j) \in DOMAIN mapClient /\ mapClient'[j] = mapClient[at(j)]
  OBVIOUS
<1> HIDE DEF at
<1> QED
  BY <1>2, <1>3 DEF BoundsAtHome, BoundIsConnected, HasBound

\* The same for deleteClient, after which no element has the descriptor.
LEMMA BoundsDelete ==
    ASSUME TypeOK, BoundsAtHome, NEW f \in MeetingFd, deleteClient(f)
    PROVE  /\ \A j \in DOMAIN mapClient' : ~mapClient'[j].late =>
                  /\ meeting[mapClient'[j].fd] = mapClient'[j].conn
                  /\ mapClient'[j].conn # leaving
           /\ \A j, k \in DOMAIN mapClient' : mapClient'[j].fd = mapClient'[k].fd => j = k
           /\ \A g \in MeetingFd : meeting[g] \in adds => ~HasBound(g)'
           /\ ~HasBound(f)'
           /\ \A g \in MeetingFd \ {f} : HasBound(g) => HasBound(g)'
<1>1. mapClient \in Seq(Bound) /\ mapClient' \in Seq(Bound)
  BY deleteClientOnly DEF TypeOK, MeetingsOK
<1>2. CASE UNCHANGED mapClient /\ ~HasBound(f)
  BY <1>2 DEF BoundsAtHome, BoundIsConnected, HasBound
<1>3. ASSUME NEW i \in DOMAIN mapClient, mapClient[i].fd = f,
             Len(mapClient') = Len(mapClient) - 1,
             \A j \in DOMAIN mapClient' :
                 mapClient'[j] = mapClient[IF j < i THEN j ELSE j + 1]
      PROVE  /\ \A j \in DOMAIN mapClient' : ~mapClient'[j].late =>
                    /\ meeting[mapClient'[j].fd] = mapClient'[j].conn
                    /\ mapClient'[j].conn # leaving
             /\ \A j, k \in DOMAIN mapClient' : mapClient'[j].fd = mapClient'[k].fd => j = k
             /\ \A g \in MeetingFd : meeting[g] \in adds => ~HasBound(g)'
             /\ ~HasBound(f)'
             /\ \A g \in MeetingFd \ {f} : HasBound(g) => HasBound(g)'
  <2> DEFINE at(j) == IF j < i THEN j ELSE j + 1
  <2>1. /\ Len(mapClient) \in Nat /\ DOMAIN mapClient = 1..Len(mapClient)
        /\ DOMAIN mapClient' = 1..(Len(mapClient) - 1) /\ i \in Nat
    BY <1>1, <1>3
  <2>2. \A j \in DOMAIN mapClient' : at(j) \in DOMAIN mapClient /\ at(j) # i
    BY <2>1
  <2>3. \A j \in DOMAIN mapClient' : mapClient'[j] = mapClient[at(j)]
    BY <1>3
  <2>4. ~HasBound(f)'
    <3> HIDE DEF at
    <3> QED
      BY <1>3, <2>2, <2>3 DEF HasBound, BoundsAtHome
  <2>5. ASSUME NEW g \in MeetingFd \ {f}, HasBound(g) PROVE HasBound(g)'
    <3>1. PICK k \in DOMAIN mapClient : mapClient[k].fd = g
      BY <2>5 DEF HasBound
    <3>2. k # i
      BY <1>3, <2>5, <3>1
    <3>3. CASE k < i
      <4>1. k \in DOMAIN mapClient' /\ at(k) = k
        BY <2>1, <3>3
      <4> HIDE DEF at
      <4> QED
        BY <2>3, <3>1, <4>1 DEF HasBound
    <3>4. CASE ~(k < i)
      <4>1. (k - 1) \in DOMAIN mapClient' /\ at(k - 1) = k
        BY <2>1, <3>2, <3>4
      <4> HIDE DEF at
      <4> QED
        BY <2>3, <3>1, <4>1 DEF HasBound
    <3> QED
      BY <3>3, <3>4
  <2>6. \A j \in DOMAIN mapClient' :
            /\ (IF j < i THEN j ELSE j + 1) \in DOMAIN mapClient
            /\ mapClient'[j] = mapClient[IF j < i THEN j ELSE j + 1]
    BY <2>2, <2>3
  <2> HIDE DEF at
  <2>7. /\ \A j \in DOMAIN mapClient' : ~mapClient'[j].late =>
               /\ meeting[mapClient'[j].fd] = mapClient'[j].conn
               /\ mapClient'[j].conn # leaving
        /\ \A j, k \in DOMAIN mapClient' : mapClient'[j].fd = mapClient'[k].fd => j = k
        /\ \A g \in MeetingFd : meeting[g] \in adds => ~HasBound(g)'
    BY <1>1, <2>1, <2>6, BoundsShrink
  <2> QED
    BY <2>4, <2>5, <2>7
<1> QED
  BY <1>2, <1>3, deleteClientOnly

\* Every step keeps the descriptors in mapClient at home.
LEMMA BoundStep ==
    TypeOK /\ LinksAtHome /\ BoundsAtHome /\ [Next]_vars => BoundsAtHome'
<1> SUFFICES ASSUME TypeOK, LinksAtHome, BoundsAtHome, [Next]_vars PROVE BoundsAtHome'
  OBVIOUS
<1>0. /\ meeting \in [MeetingFd -> Link \cup {0}] /\ links \in Nat
      /\ 0 \notin Link /\ Link \subseteq Nat
      /\ adds \subseteq Link /\ ended \subseteq Link /\ closing \subseteq Link
      /\ leaving \in Link \cup {0}
      /\ mapClient \in Seq(Bound)
      /\ \A i \in DOMAIN mapClient :
             /\ mapClient[i] \in Bound
             /\ mapClient[i].fd \in MeetingFd /\ mapClient[i].conn \in Link
             /\ mapClient[i].late \in BOOLEAN
  <2>1. mapClient \in Seq(Bound)
    BY DEF TypeOK, MeetingsOK
  <2>2. \A i \in DOMAIN mapClient : mapClient[i] \in Bound
    BY <2>1
  <2> QED
    BY <2>1, <2>2, RelayAssumption DEF TypeOK, MeetingsOK, Bound, Link
<1>1. ASSUME UNCHANGED <<meeting, links, leaving, adds, mapClient>> PROVE BoundsAtHome'
  BY <1>1 DEF BoundsAtHome, BoundIsConnected, HasBound
<1>2. ASSUME NEW f \in MeetingFd, MeetingConnects(f) PROVE BoundsAtHome'
  <2>1. /\ meeting[f] = 0 /\ links' = links + 1
        /\ UNCHANGED <<leaving, adds, mapClient>>
        /\ meeting'[f] = links + 1
        /\ \A g \in MeetingFd \ {f} : meeting'[g] = meeting[g]
    BY <1>0, <1>2 DEF MeetingConnects
  <2>2. \A i \in DOMAIN mapClient : ~mapClient[i].late =>
            mapClient[i].fd # f /\ meeting'[mapClient[i].fd] = mapClient[i].conn
    BY <1>0, <2>1 DEF BoundsAtHome, BoundIsConnected
  <2>3. \A m \in adds : m <= links' /\ m # links + 1
    BY <1>0, <2>1 DEF BoundsAtHome
  <2>4. \A g \in MeetingFd : meeting'[g] \in adds => ~HasBound(g)
    BY <2>1, <2>3 DEF BoundsAtHome
  <2> QED
    BY <2>1, <2>2, <2>3, <2>4 DEF BoundsAtHome, BoundIsConnected, HasBound
<1>3. ASSUME NEW f \in MeetingFd, Clears(f) PROVE BoundsAtHome'
  <2>1. /\ mapClient' = <<>> /\ adds' = adds \cup {meeting[f]}
        /\ UNCHANGED <<meeting, links, leaving>>
    BY <1>3 DEF Clears, linkVars
  <2>2. DOMAIN mapClient' = {}
    BY <2>1
  <2>3. \A m \in adds' : m <= links'
    BY <2>1 DEF BoundsAtHome, LinksAtHome
  <2> QED
    BY <2>2, <2>3 DEF BoundsAtHome, BoundIsConnected, HasBound
<1>4. ASSUME NEW f \in MeetingFd, Pushes(f) PROVE BoundsAtHome'
  <2> DEFINE m == meeting[f]
             e == [fd |-> f, conn |-> m, late |-> leaving = m]
             n == Len(mapClient) + 1
  <2>1. /\ m \in adds /\ adds' = adds \ {m} /\ mapClient' = Append(mapClient, e)
        /\ UNCHANGED <<meeting, links, leaving>>
    BY <1>4 DEF Pushes
  <2>2. /\ e.fd = f /\ e.conn = m /\ e.late = (leaving = m)
    OBVIOUS
  <2>3. /\ DOMAIN mapClient = 1..Len(mapClient) /\ Len(mapClient) \in Nat
        /\ DOMAIN mapClient' = DOMAIN mapClient \cup {n}
        /\ n \notin DOMAIN mapClient
        /\ mapClient'[n] = e
        /\ \A i \in DOMAIN mapClient : mapClient'[i] = mapClient[i]
    <3>1. ASSUME NEW x PROVE
              /\ DOMAIN mapClient = 1..Len(mapClient) /\ Len(mapClient) \in Nat
              /\ DOMAIN Append(mapClient, x) = DOMAIN mapClient \cup {n}
              /\ n \notin DOMAIN mapClient
              /\ Append(mapClient, x)[n] = x
              /\ \A i \in DOMAIN mapClient : Append(mapClient, x)[i] = mapClient[i]
      BY <1>0
    <3> QED
      BY <2>1, <3>1
  <2> HIDE DEF e, n
  <2>4. \A i \in DOMAIN mapClient : mapClient[i].fd # f
    BY <2>1 DEF BoundsAtHome, HasBound
  <2>5. BoundIsConnected'
    BY <2>1, <2>2, <2>3 DEF BoundsAtHome, BoundIsConnected
  <2>6. \A i \in DOMAIN mapClient' : ~mapClient'[i].late => mapClient'[i].conn # leaving
    BY <2>2, <2>3 DEF BoundsAtHome
  <2>7. \A i, j \in DOMAIN mapClient' : mapClient'[i].fd = mapClient'[j].fd => i = j
    BY <2>2, <2>3, <2>4 DEF BoundsAtHome
  <2>8. ASSUME NEW g \in MeetingFd, meeting[g] \in adds' PROVE ~HasBound(g)'
    <3>1. g # f /\ ~HasBound(g)
      BY <2>1, <2>8 DEF BoundsAtHome
    <3> QED
      BY <2>2, <2>3, <3>1 DEF HasBound
  <2> QED
    BY <2>1, <2>5, <2>6, <2>7, <2>8 DEF BoundsAtHome
<1>5. ASSUME NEW f \in MeetingFd, onUnbind(f) PROVE BoundsAtHome'
  <2>1. deleteClient(f) /\ UNCHANGED <<meeting, links, leaving, adds>>
    BY <1>5 DEF onUnbind, linkVars
  <2> QED
    BY <2>1, BoundsDelete DEF BoundsAtHome, BoundIsConnected
<1>6. ASSUME NEW f \in MeetingFd, onClientDisconnect(f) PROVE BoundsAtHome'
  <2>1. /\ deleteClient(f) /\ UNCHANGED <<meeting, links, adds>>
        /\ leaving' = meeting[f] /\ meeting[f] \in Link
    BY <1>0, <1>6 DEF onClientDisconnect
  <2>2. mapClient' \in Seq(Bound)
    BY <2>1, deleteClientOnly
  <2>3. \A i \in DOMAIN mapClient' : mapClient'[i].fd \in MeetingFd
    <3>1. \A i \in DOMAIN mapClient' : mapClient'[i] \in Bound
      BY <2>2
    <3> QED
      BY <3>1 DEF Bound
  <2>4. ASSUME NEW i \in DOMAIN mapClient', ~mapClient'[i].late
        PROVE  mapClient'[i].conn # meeting[f]
    <3>1. meeting[mapClient'[i].fd] = mapClient'[i].conn /\ mapClient'[i].fd # f
      BY <2>1, <2>4, BoundsDelete DEF HasBound
    <3> QED
      BY <1>0, <2>1, <2>3, <3>1 DEF LinksAtHome
  <2>5. BoundIsConnected'
    BY <2>1, BoundsDelete DEF BoundIsConnected
  <2> QED
    BY <2>1, <2>4, <2>5, BoundsDelete DEF BoundsAtHome
<1>7. ASSUME NEW f \in MeetingFd, eraseClient(f) PROVE BoundsAtHome'
  <2>1. /\ meeting[f] = leaving /\ leaving' = 0
        /\ UNCHANGED <<links, adds, mapClient>>
        /\ meeting'[f] = 0 /\ \A g \in MeetingFd \ {f} : meeting'[g] = meeting[g]
    BY <1>0, <1>7 DEF eraseClient
  <2>2. \A i \in DOMAIN mapClient : ~mapClient[i].late =>
            meeting'[mapClient[i].fd] = mapClient[i].conn
    BY <1>0, <2>1 DEF BoundsAtHome, BoundIsConnected
  <2>3. \A i \in DOMAIN mapClient : mapClient[i].conn # 0
    BY <1>0
  <2>4. \A g \in MeetingFd : meeting'[g] \in adds => ~HasBound(g)
    BY <1>0, <2>1 DEF BoundsAtHome
  <2> QED
    BY <2>1, <2>2, <2>3, <2>4 DEF BoundsAtHome, BoundIsConnected, HasBound
<1>8. ASSUME NEW f \in MeetingFd, MeetingLeaves(f) \/ ReceiveEnds(f) PROVE BoundsAtHome'
  BY <1>1, <1>8 DEF MeetingLeaves, ReceiveEnds
<1>9. ASSUME NEW f \in DeviceFd, DeviceConnects(f) \/ DeviceAsks(f) \/ DeviceLeaves(f)
      PROVE  BoundsAtHome'
  BY <1>1, <1>9 DEF DeviceConnects, DeviceAsks, DeviceLeaves, meetingVars, linkVars
<1>10. ASSUME NEW c \in Device, DeviceThread(c) PROVE BoundsAtHome'
  BY <1>1, <1>10, DeviceThreadFrame
<1>11. ASSUME NEW p \in toMeeting, MeetingAnswers(p) PROVE BoundsAtHome'
  BY <1>1, <1>11 DEF MeetingAnswers, meetingVars, linkVars
<1>12. ASSUME NEW m \in Link, MeetingThread(m) PROVE BoundsAtHome'
  BY <1>1, <1>12 DEF MeetingThread, Finds, Responds, meetingVars, linkVars
<1>13. ASSUME NEW m \in Link, CancelsResponse(m) PROVE BoundsAtHome'
  BY <1>1, <1>13, CancelFrame
<1>14. CASE UNCHANGED vars
  BY <1>1, <1>14 DEF vars, meetingVars, linkVars
<1> QED
  BY <1>2, <1>3, <1>4, <1>5, <1>6, <1>7, <1>8, <1>9, <1>10, <1>11, <1>12, <1>13, <1>14
     DEF Next, Agent, Peers

\* No controller has bound yet.
LEMMA BoundsInit == Init => LinksAtHome /\ BoundsAtHome
<1> SUFFICES ASSUME Init PROVE LinksAtHome /\ BoundsAtHome
  OBVIOUS
<1>1. LinksAtHome
  BY DEF Init, LinksAtHome
<1>2. DOMAIN mapClient = {} /\ adds = {}
  BY DEF Init
<1> QED
  BY <1>1, <1>2 DEF BoundsAtHome, BoundIsConnected, HasBound

\* However controllers bind, unbind, break off and reconnect, a descriptor in
\* mapClient is that of the connection that bound on it, unless the bind was read
\* after onClientDisconnect had handled the end of that connection.
THEOREM BoundIsConnectedHolds == Spec => []BoundIsConnected
<1> DEFINE Inv == TypeOK /\ LinksAtHome /\ BoundsAtHome
<1>1. Init => Inv
  BY TypeInit, BoundsInit
<1>2. Inv /\ [Next]_vars => Inv'
  BY TypeStep, LinksStep, BoundStep
<1>3. Inv => BoundIsConnected
  BY DEF BoundsAtHome
<1> QED
  BY <1>1, <1>2, <1>3, PTL DEF Spec

\* A step takes a controller out of mapClient only for its own end, its own unbind or
\* a bind.
LEMMA ForgottenStep ==
    ASSUME TypeOK, BoundsAtHome, [Next]_vars, NEW f \in MeetingFd, HasBound(f), ~HasBound(f)'
    PROVE  meeting[f] \in cut \/ onUnbind(f) \/ \E g \in MeetingFd : Clears(g)
<1>1. mapClient' # mapClient
  BY DEF HasBound
<1>2. ASSUME NEW g \in MeetingFd, Pushes(g) PROVE FALSE
  <2> DEFINE e == [fd |-> g, conn |-> meeting[g], late |-> leaving = meeting[g]]
  <2>1. mapClient' = Append(mapClient, e) /\ mapClient \in Seq(Bound)
    BY <1>2 DEF Pushes, TypeOK, MeetingsOK
  <2> HIDE DEF e
  <2>2. \A i \in DOMAIN mapClient : i \in DOMAIN mapClient' /\ mapClient'[i] = mapClient[i]
    BY <2>1
  <2> QED
    BY <2>2 DEF HasBound
<1>3. ASSUME NEW g \in MeetingFd, onUnbind(g) PROVE onUnbind(f)
  <2>1. f = g
    BY <1>3, BoundsDelete DEF onUnbind
  <2> QED
    BY <1>3, <2>1
<1>4. ASSUME NEW g \in MeetingFd, onClientDisconnect(g) PROVE meeting[f] \in cut
  <2>1. f = g
    BY <1>4, BoundsDelete DEF onClientDisconnect
  <2> QED
    BY <1>4, <2>1 DEF onClientDisconnect, TypeOK, MeetingsOK
<1>5. ASSUME NEW g \in MeetingFd,
             MeetingConnects(g) \/ MeetingLeaves(g) \/ ReceiveEnds(g) \/ eraseClient(g)
      PROVE  FALSE
  BY <1>1, <1>5 DEF MeetingConnects, MeetingLeaves, ReceiveEnds, eraseClient
<1>6. ASSUME NEW g \in DeviceFd, DeviceConnects(g) \/ DeviceAsks(g) \/ DeviceLeaves(g)
      PROVE  FALSE
  BY <1>1, <1>6 DEF DeviceConnects, DeviceAsks, DeviceLeaves, meetingVars
<1>7. ASSUME NEW c \in Device, DeviceThread(c) PROVE FALSE
  BY <1>1, <1>7, DeviceThreadFrame
<1>8. ASSUME NEW p \in toMeeting, MeetingAnswers(p) PROVE FALSE
  BY <1>1, <1>8 DEF MeetingAnswers, meetingVars
<1>9. ASSUME NEW m \in Link, MeetingThread(m) PROVE FALSE
  BY <1>1, <1>9 DEF MeetingThread, Finds, Responds, meetingVars
<1>10. ASSUME NEW m \in Link, CancelsResponse(m) PROVE FALSE
  BY <1>1, <1>10, CancelFrame
<1>11. CASE UNCHANGED vars
  BY <1>1, <1>11 DEF vars, meetingVars
<1> QED
  BY <1>2, <1>3, <1>4, <1>5, <1>6, <1>7, <1>8, <1>9, <1>10, <1>11 DEF Next, Agent, Peers

\* The late end of a connection that was replaced does not make the agent forget the
\* controller that replaced it.
THEOREM BoundUntilItLeavesHolds == Spec => BoundUntilItLeaves
<1> DEFINE Inv == TypeOK /\ LinksAtHome /\ BoundsAtHome
<1>1. Init => Inv
  BY TypeInit, BoundsInit
<1>2. Inv /\ [Next]_vars => Inv'
  BY TypeStep, LinksStep, BoundStep
<1>3. Inv /\ [Next]_vars =>
          [\A f \in MeetingFd : HasBound(f) /\ ~HasBound(f)' =>
               meeting[f] \in cut \/ onUnbind(f) \/ \E g \in MeetingFd : Clears(g)]_vars
  BY ForgottenStep
<1> QED
  BY <1>1, <1>2, <1>3, PTL DEF Spec, BoundUntilItLeaves

-----------------------------------------------------------------------------
(* Both servers within what CATcpServer promises *)

\* A handler is in DeviceHandlers for as long as its thread is not idle.
LEMMA DeviceHandlersStay ==
    UNCHANGED <<asked, pc, req>> => UNCHANGED DeviceHandlers
BY DEF DeviceHandlers

\* A step of the relay is a step of the device server, or none.
LEMMA DeviceServerStep ==
    ASSUME TypeOK, DevicesAtHome, [Next]_vars
    PROVE  DeviceServer!Serves \/ UNCHANGED <<device, devices, DeviceHandlers>>
<1>1. ASSUME UNCHANGED <<device, devices, asked, pc, req>>
      PROVE  UNCHANGED <<device, devices, DeviceHandlers>>
  BY <1>1, DeviceHandlersStay
<1>2. ASSUME NEW f \in DeviceFd, DeviceConnects(f) PROVE DeviceServer!Opens(f)
  BY <1>2, DeviceHandlersStay DEF DeviceConnects, DeviceServer!Opens, threadVars, historyVars
<1>3. ASSUME NEW f \in DeviceFd, DeviceAsks(f) PROVE DeviceServer!Enters(f)
  <2> DEFINE c == device[f]
  <2>1. /\ c \in Device /\ pc[c] = "idle" /\ c # 0
        /\ UNCHANGED <<device, devices>>
    BY <1>3, AskedGrows DEF DeviceAsks, deviceVars
  <2>2. pc'[c] = "count" /\ asked'[req'[c]].fd = f
    BY <1>3, <2>1, AskedGrows DEF TypeOK, ThreadsOK
  <2>3. \A d \in Device \ {c} :
            /\ pc'[d] = pc[d] /\ req'[d] = req[d]
            /\ pc[d] # "idle" => asked'[req[d]] = asked[req[d]]
    BY <1>3, <2>1, AskedGrows, AskedType DEF TypeOK, ThreadsOK
  <2>4. DeviceHandlers' = DeviceHandlers \cup {<<f, c>>}
    <3> HIDE DEF c
    <3>1. \A d \in Device : pc'[d] # "idle" =>
              <<asked'[req'[d]].fd, d>> \in DeviceHandlers \cup {<<f, c>>}
      BY <2>1, <2>2, <2>3 DEF DeviceHandlers
    <3>2. \A d \in Device : pc[d] # "idle" => <<asked[req[d]].fd, d>> \in DeviceHandlers'
      BY <2>1, <2>2, <2>3 DEF DeviceHandlers
    <3>3. <<f, c>> \in DeviceHandlers'
      BY <2>1, <2>2 DEF DeviceHandlers
    <3> QED
      BY <3>1, <3>2, <3>3 DEF DeviceHandlers
  <2> QED
    BY <2>1, <2>4 DEF DeviceServer!Enters
<1>4. ASSUME NEW f \in DeviceFd, DeviceLeaves(f) PROVE DeviceServer!Closes(f)
  <2>1. \A h \in DeviceHandlers : h[1] # f
    BY <1>4 DEF DeviceHandlers, DevicesAtHome, DeviceLeaves
  <2>2. UNCHANGED <<devices, DeviceHandlers>> /\ device' = [device EXCEPT ![f] = 0]
    BY <1>4, DeviceHandlersStay DEF DeviceLeaves, threadVars, historyVars
  <2> QED
    BY <2>1, <2>2 DEF DeviceServer!Closes
<1>5. ASSUME NEW c \in Device, DeviceThread(c)
      PROVE  DeviceServer!Serves \/ UNCHANGED <<device, devices, DeviceHandlers>>
  <2> DEFINE h == <<asked[req[c]].fd, c>>
  <2>1. /\ UNCHANGED <<device, devices, asked>> /\ pc[c] # "idle"
        /\ \A d \in Device \ {c} : pc'[d] = pc[d] /\ req'[d] = req[d]
        /\ pc'[c] # "idle" => req'[c] = req[c]
    BY <1>5, DeviceThreadFrame
  <2>2. h \in DeviceHandlers
    BY <2>1 DEF DeviceHandlers
  <2>3. CASE pc'[c] # "idle"
    BY <2>1, <2>3 DEF DeviceHandlers
  <2>4. CASE pc'[c] = "idle"
    <3>1. DeviceHandlers' = DeviceHandlers \ {h}
      BY <2>1, <2>4 DEF DeviceHandlers
    <3>2. DeviceServer!Leaves(h)
      BY <2>1, <3>1 DEF DeviceServer!Leaves
    <3> QED
      BY <2>2, <3>2 DEF DeviceServer!Serves
  <2> QED
    BY <2>3, <2>4
<1>6. ASSUME NEW f \in MeetingFd, LinkAction(f)
      PROVE  UNCHANGED <<device, devices, asked, pc, req>>
  BY <1>6, LinkFrame
<1>7. ASSUME NEW p \in toMeeting, MeetingAnswers(p)
      PROVE  UNCHANGED <<device, devices, asked, pc, req>>
  BY <1>7 DEF MeetingAnswers, deviceVars, threadVars, historyVars
<1>8. ASSUME NEW m \in Link, MeetingThread(m)
      PROVE  UNCHANGED <<device, devices, asked, pc, req>>
  BY <1>8 DEF MeetingThread, Finds, Responds, deviceVars, threadVars, historyVars
<1>9. ASSUME NEW m \in Link, CancelsResponse(m)
      PROVE  UNCHANGED <<device, devices, asked, pc, req>>
  BY <1>9, CancelFrame
<1>10. CASE UNCHANGED vars
  BY <1>1, <1>10 DEF vars, deviceVars, threadVars, historyVars
<1> QED
  BY <1>1, <1>2, <1>3, <1>4, <1>5, <1>6, <1>7, <1>8, <1>9, <1>10
     DEF Next, Agent, Peers, LinkAction, DeviceServer!Serves

\* A step of the relay is a step of the meeting server, or none.
LEMMA MeetingServerStep ==
    ASSUME TypeOK, LinksAtHome, [Next]_vars
    PROVE  MeetingServer!Serves \/ UNCHANGED <<meeting, links, MeetingHandlers>>
<1>0. /\ meeting \in [MeetingFd -> Link \cup {0}] /\ 0 \notin Link
      /\ found \in [Link -> Found \cup {Nothing}]
      /\ ended \subseteq Link
  BY DEF TypeOK, MeetingsOK, TableOK, Link
<1>1. ASSUME UNCHANGED <<meeting, links, found>>
      PROVE  UNCHANGED <<meeting, links, MeetingHandlers>>
  BY <1>1 DEF MeetingHandlers
<1>2. ASSUME NEW f \in MeetingFd, MeetingConnects(f) PROVE MeetingServer!Opens(f)
  <2>1. /\ meeting[f] = 0 /\ links' = links + 1 /\ UNCHANGED found
        /\ meeting' = [meeting EXCEPT ![f] = links + 1]
    BY <1>2 DEF MeetingConnects
  <2>2. links + 1 \in Link /\ links \in Nat
    BY <1>2, RelayAssumption DEF MeetingConnects, TypeOK, MeetingsOK, Link
  <2>3. found[links + 1] = Nothing
    <3>1. ~Connected(links + 1)
      BY <1>0, <2>2 DEF Connected, LinksAtHome, Link
    <3> QED
      BY <2>2, <3>1 DEF LinksAtHome
  <2> DEFINE n == links + 1
  <2>4. MeetingHandlers' = MeetingHandlers
    <3>1. meeting' = [meeting EXCEPT ![f] = n] /\ found[n] = Nothing /\ UNCHANGED found
      BY <2>1, <2>3
    <3> HIDE DEF n
    <3>2. \A g \in MeetingFd \ {f} : meeting'[g] = meeting[g]
      BY <1>0, <3>1
    <3>3. meeting'[f] = n /\ meeting[f] = 0
      BY <1>0, <2>1, <3>1
    <3> QED
      BY <3>1, <3>2, <3>3 DEF MeetingHandlers
  <2> QED
    BY <2>1, <2>4 DEF MeetingServer!Opens
<1>3. ASSUME NEW f \in MeetingFd, eraseClient(f) PROVE MeetingServer!Closes(f)
  <2>1. /\ meeting[f] \in ended /\ found[meeting[f]] = Nothing
        /\ meeting' = [meeting EXCEPT ![f] = 0] /\ UNCHANGED <<links, found>>
        /\ meeting[f] # 0
    BY <1>0, <1>3 DEF eraseClient, LinksAtHome
  <2>2. \A h \in MeetingHandlers : h[1] # f
    BY <2>1 DEF MeetingHandlers
  <2>3. MeetingHandlers' = MeetingHandlers
    <3>1. meeting'[f] = 0 /\ \A g \in MeetingFd \ {f} : meeting'[g] = meeting[g]
      BY <1>0, <2>1
    <3> QED
      BY <2>1, <3>1 DEF MeetingHandlers
  <2> QED
    BY <2>1, <2>2, <2>3 DEF MeetingServer!Closes
<1>4. ASSUME NEW p \in toAgent, Finds(p)
      PROVE  MeetingServer!Serves \/ UNCHANGED <<meeting, links, MeetingHandlers>>
  <2>1. PICK f \in MeetingFd : meeting[f] = p.link
    BY DEF LinksAtHome, Connected
  <2>2. /\ p.link \in Link /\ found[p.link] = Nothing /\ UNCHANGED <<meeting, links>>
        /\ \A m \in Link \ {p.link} : found'[m] = found[m]
    BY <1>4, FindsOnly DEF Finds, Receives, meetingVars, linkVars
  <2>3. \A g \in MeetingFd : meeting[g] = p.link => g = f
    BY <1>0, <2>1, <2>2 DEF LinksAtHome
  <2>4. CASE found'[p.link] = Nothing
    BY <1>0, <2>2, <2>4 DEF MeetingHandlers
  <2>5. CASE found'[p.link] # Nothing
    <3>1. <<f, meeting[f]>> \in MeetingHandlers'
      BY <1>0, <2>1, <2>2, <2>5 DEF MeetingHandlers
    <3>2. \A g \in MeetingFd \ {f} : meeting[g] # 0 => found'[meeting[g]] = found[meeting[g]]
      BY <1>0, <2>2, <2>3
    <3>3. MeetingHandlers' = MeetingHandlers \cup {<<f, meeting[f]>>}
      <4>1. \A g \in MeetingFd : meeting[g] # 0 /\ found'[meeting[g]] # Nothing =>
                <<g, meeting[g]>> \in MeetingHandlers \cup {<<f, meeting[f]>>}
        BY <3>2 DEF MeetingHandlers
      <4>2. \A g \in MeetingFd : meeting[g] # 0 /\ found[meeting[g]] # Nothing =>
                <<g, meeting[g]>> \in MeetingHandlers'
        BY <2>1, <2>2, <3>1, <3>2 DEF MeetingHandlers
      <4> QED
        BY <2>2, <3>1, <4>1, <4>2 DEF MeetingHandlers
    <3>4. MeetingServer!Enters(f)
      BY <1>0, <2>1, <2>2, <3>3 DEF MeetingServer!Enters
    <3> QED
      BY <3>4 DEF MeetingServer!Serves
  <2> QED
    BY <2>4, <2>5
<1>5. ASSUME NEW m \in Link, Responds(m) \/ CancelsResponse(m)
      PROVE  MeetingServer!Serves \/ UNCHANGED <<meeting, links, MeetingHandlers>>
  <2>1. /\ found[m] # Nothing /\ found' = [found EXCEPT ![m] = Nothing]
        /\ UNCHANGED <<meeting, links>>
    BY <1>5, CancelFrame DEF Responds, meetingVars, linkVars
  <2>2. PICK f \in MeetingFd : meeting[f] = m
    BY <2>1 DEF LinksAtHome, Connected
  <2>3. <<f, m>> \in MeetingHandlers
    BY <1>0, <2>1, <2>2 DEF MeetingHandlers
  <2>4. MeetingHandlers' = MeetingHandlers \ {<<f, m>>}
    <3>1. \A g \in MeetingFd \ {f} : meeting[g] # m
      BY <1>0, <2>2 DEF LinksAtHome
    <3>2. found'[m] = Nothing /\ \A k \in Link \ {m} : found'[k] = found[k]
      BY <1>0, <2>1
    <3>3. \A g \in MeetingFd : meeting[g] # 0 =>
              (found'[meeting[g]] # Nothing <=> found[meeting[g]] # Nothing /\ g # f)
      BY <1>0, <2>2, <3>1, <3>2
    <3> QED
      BY <2>1, <2>2, <3>3 DEF MeetingHandlers
  <2>5. MeetingServer!Leaves(<<f, m>>)
    BY <2>1, <2>4 DEF MeetingServer!Leaves
  <2> QED
    BY <2>3, <2>5 DEF MeetingServer!Serves
<1>6. ASSUME NEW f \in MeetingFd,
             \/ Clears(f) \/ Pushes(f) \/ onUnbind(f) \/ MeetingLeaves(f)
             \/ ReceiveEnds(f) \/ onClientDisconnect(f)
      PROVE  UNCHANGED <<meeting, links, found>>
  BY <1>6 DEF Clears, Pushes, onUnbind, MeetingLeaves, ReceiveEnds, onClientDisconnect,
     linkVars
<1>7. ASSUME NEW f \in DeviceFd, DeviceConnects(f) \/ DeviceAsks(f) \/ DeviceLeaves(f)
      PROVE  UNCHANGED <<meeting, links, found>>
  BY <1>7 DEF DeviceConnects, DeviceAsks, DeviceLeaves, meetingVars, linkVars
<1>8. ASSUME NEW c \in Device, DeviceThread(c) PROVE UNCHANGED <<meeting, links, found>>
  BY <1>8, DeviceThreadFrame
<1>9. ASSUME NEW p \in toMeeting, MeetingAnswers(p) PROVE UNCHANGED <<meeting, links, found>>
  BY <1>9 DEF MeetingAnswers, meetingVars, linkVars
<1>10. CASE UNCHANGED vars
  BY <1>1, <1>10 DEF vars, meetingVars, linkVars
<1> QED
  BY <1>1, <1>2, <1>3, <1>4, <1>5, <1>6, <1>7, <1>8, <1>9, <1>10
     DEF Next, Agent, Peers, MeetingThread, Of, MeetingServer!Serves

\* The relay relies on no more than CATcpServer promises (module Connections): in
\* every behaviour no connection is closed while its handler runs, and a handler
\* runs only for the connection of its descriptor.
THEOREM RelayWithinPromise == Spec => WithinPromise
<1> DEFINE Inv == TypeOK /\ DevicesAtHome /\ LinksAtHome
<1>1. Init => Inv /\ DeviceServer!NothingYet /\ MeetingServer!NothingYet
  <2> SUFFICES ASSUME Init
               PROVE  Inv /\ DeviceServer!NothingYet /\ MeetingServer!NothingYet
    OBVIOUS
  <2>1. DevicesAtHome
    BY DEF Init, DevicesAtHome
  <2>2. LinksAtHome
    BY DEF Init, LinksAtHome
  <2>3. DeviceHandlers = {} /\ MeetingHandlers = {}
    BY DEF Init, DeviceHandlers, MeetingHandlers
  <2> QED
    BY <2>1, <2>2, <2>3, TypeInit DEF Init, DeviceServer!NothingYet, MeetingServer!NothingYet
<1>2. Inv /\ [Next]_vars => Inv'
  BY TypeStep, DevicesStep, LinksStep
<1>3. Inv /\ [Next]_vars =>
          [TRUE' => TRUE /\ DeviceServer!Serves]_(DeviceServer!connectionVars)
  BY DeviceServerStep DEF DeviceServer!connectionVars
<1>4. Inv /\ [Next]_vars =>
          [TRUE' => TRUE /\ MeetingServer!Serves]_(MeetingServer!connectionVars)
  BY MeetingServerStep DEF MeetingServer!connectionVars
<1> QED
  BY <1>1, <1>2, <1>3, <1>4, PTL
     DEF Spec, WithinPromise, DeviceServer!Promise, MeetingServer!Promise

-----------------------------------------------------------------------------
(* Numbers *)

\* Packets and what was found, without records.
LEMMA PacketType ==
    ASSUME TypeOK
    PROVE  /\ \A p \in toMeeting \cup toAgent :
                 p.link \in Link /\ p.key \in Number /\ p.about \in Request
           /\ \A m \in Link : found[m] # Nothing =>
                 /\ found[m].key \in Number /\ found[m].fd \in DeviceFd
                 /\ found[m].seq \in Request /\ found[m].about \in Request
           /\ 0 \notin Number /\ Nothing.key = 0
BY RelayAssumption DEF TypeOK, PacketsOK, Packet, TableOK, Found, Nothing, Number

\* What a step that only moves or drops packets and findings leaves to be proved.
LEMMA NumbersFrame ==
    ASSUME TypeOK, NumbersMatch, UNCHANGED <<asked, number, pc, req>>,
           toMeeting' \cup toAgent' \subseteq toMeeting \cup toAgent,
           \A m \in Link : found'[m] \in {found[m], Nothing}
    PROVE  NumbersMatch'
BY DEF NumbersMatch

\* Threads that are not idle handle different requests.
LEMMA DifferentRequests ==
    ASSUME DevicesAtHome, NEW c \in Device, NEW d \in Device,
           pc[c] # "idle", pc[d] # "idle", req[c] = req[d]
    PROVE  c = d
BY DEF DevicesAtHome

\* Packets carry the number their request has drawn.
LEMMA NumbersStep == Homes /\ [Next]_vars => NumbersMatch'
<1> SUFFICES ASSUME Homes, [Next]_vars PROVE NumbersMatch'
  OBVIOUS
<1> USE DEF Homes
<1>1. ASSUME UNCHANGED <<asked, number, pc, req, toMeeting, toAgent, found>>
      PROVE  NumbersMatch'
  BY <1>1 DEF NumbersMatch
<1>2. ASSUME NEW f \in DeviceFd, DeviceConnects(f) \/ DeviceLeaves(f) PROVE NumbersMatch'
  BY <1>1, <1>2 DEF DeviceConnects, DeviceLeaves, threadVars, historyVars, netVars
<1>3. ASSUME NEW f \in DeviceFd, DeviceAsks(f) PROVE NumbersMatch'
  <2> DEFINE c == device[f]
  <2>1. /\ c \in Device /\ UNCHANGED <<number, toMeeting, toAgent, found>>
        /\ Len(asked) \in Nat /\ Len(asked') = Len(asked) + 1 /\ Len(asked) + 1 \in Request
    BY <1>3, AskedGrows DEF DeviceAsks, netVars
  <2>2. pc'[c] = "count" /\ req'[c] = Len(asked) + 1
    BY <1>3, <2>1, AskedGrows DEF TypeOK, ThreadsOK
  <2>3. \A d \in Device \ {c} : pc'[d] = pc[d] /\ req'[d] = req[d]
    BY <1>3, <2>1, AskedGrows DEF TypeOK, ThreadsOK
  <2>4. \A r \in Request : r > Len(asked) + 1 => r > Len(asked)
    BY <2>1 DEF Request
  <2>5. Len(asked) + 1 > Len(asked)
    BY <2>1
  <2> HIDE DEF c
  <2> QED
    BY <2>1, <2>2, <2>3, <2>4, <2>5 DEF NumbersMatch
<1>4. ASSUME NEW c \in Device, Counts(c) \/ Stores(c) \/ Picks(c) PROVE NumbersMatch'
  <2>1. /\ UNCHANGED <<asked, number, toMeeting, toAgent, found>>
        /\ pc'[c] \in {"count", "read"} => pc[c] = "count" /\ req'[c] = req[c]
    BY <1>4 DEF Counts, Stores, Picks, Finishes, netVars, historyVars, TypeOK, ThreadsOK
  <2>2. \A d \in Device \ {c} : pc'[d] = pc[d] /\ req'[d] = req[d]
    BY <1>4, DeviceThreadFrame DEF DeviceThread
  <2> QED
    BY <2>1, <2>2 DEF NumbersMatch
<1>5. ASSUME NEW c \in Device, Reads(c) PROVE NumbersMatch'
  <2>1. /\ pc[c] = "read" /\ req[c] \in 1..Len(asked) /\ pc'[c] = "store"
        /\ number' = [number EXCEPT ![req[c]] = msnSequence]
        /\ number[req[c]] = 0
        /\ UNCHANGED <<asked, toMeeting, toAgent, found>>
    BY <1>5 DEF Reads, netVars, NumbersMatch, TypeOK, ThreadsOK
  <2>2. \A d \in Device \ {c} : pc'[d] = pc[d] /\ req'[d] = req[d]
    BY <1>5, DeviceThreadFrame DEF DeviceThread
  <2>3. \A r \in Request \ {req[c]} : number'[r] = number[r]
    BY <2>1 DEF TypeOK, ThreadsOK
  <2>4. \A r \in Request : r > Len(asked) => r # req[c]
    BY <2>1, AskedType DEF Request
  <2>5. \A d \in Device \ {c} : pc[d] \in {"count", "read"} =>
            req[d] \in Request \ {req[c]}
    BY <2>1, DifferentRequests, AskedType DEF TypeOK, AskedOK, ThreadsOK, Request
  <2>6. \A p \in toMeeting \cup toAgent : p.about # req[c]
    BY <2>1, PacketType DEF NumbersMatch
  <2>7. \A m \in Link : found[m] # Nothing => found[m].about # req[c]
    BY <2>1, PacketType DEF NumbersMatch
  <2>8. \A p \in toMeeting \cup toAgent : number'[p.about] = p.key
    BY <2>3, <2>6, PacketType DEF NumbersMatch
  <2>9. \A m \in Link : found[m] # Nothing => number'[found[m].about] = found[m].key
    BY <2>3, <2>7, PacketType DEF NumbersMatch
  <2>10. \A d \in Device : pc'[d] \in {"count", "read"} => number'[req'[d]] = 0
    BY <2>1, <2>2, <2>3, <2>5 DEF NumbersMatch
  <2>11. \A r \in Request : r > Len(asked) => number'[r] = 0
    BY <2>3, <2>4 DEF NumbersMatch
  <2> QED
    BY <2>1, <2>8, <2>9, <2>10, <2>11 DEF NumbersMatch
<1>6. ASSUME NEW c \in Device, Sends(c) PROVE NumbersMatch'
  <2> DEFINE p == [link |-> meeting[target[c]], key |-> KeyOf(c), about |-> req[c]]
  <2>1. /\ UNCHANGED <<asked, number, found, toAgent>> /\ pc'[c] = "idle"
    BY <1>6 DEF Sends, Finishes, TypeOK, ThreadsOK
  <2>2. \A d \in Device \ {c} : pc'[d] = pc[d] /\ req'[d] = req[d]
    BY <1>6, DeviceThreadFrame DEF DeviceThread
  <2>3. toMeeting' \subseteq toMeeting \cup {p}
    BY <1>6, SendsOnly DEF DeviceThread
  <2>4. number[p.about] = p.key
    BY DEF KeyOf
  <2> HIDE DEF p
  <2> QED
    BY <2>1, <2>2, <2>3, <2>4 DEF NumbersMatch
<1>7. ASSUME NEW f \in MeetingFd, LinkAction(f) PROVE NumbersMatch'
  BY <1>7, LinkFrame, NumbersFrame
<1>8. ASSUME NEW m \in Link, CancelsResponse(m) PROVE NumbersMatch'
  BY <1>8, CancelFrame, NumbersFrame
<1>9. ASSUME NEW p \in toMeeting, MeetingAnswers(p) PROVE NumbersMatch'
  BY <1>9, NumbersFrame DEF MeetingAnswers, threadVars, historyVars
<1>10. ASSUME NEW p \in toAgent, Finds(p) PROVE NumbersMatch'
  <2>1. UNCHANGED <<asked, number, pc, req, toMeeting>>
    BY <1>10 DEF Finds, threadVars, historyVars
  <2>2. /\ p.link \in Link /\ toAgent' = toAgent \ {p}
        /\ \A m \in Link \ {p.link} : found'[m] = found[m]
        /\ found'[p.link] # Nothing =>
               found'[p.link].key = p.key /\ found'[p.link].about = p.about
    BY <1>10, FindsOnly
  <2> QED
    BY <2>1, <2>2 DEF NumbersMatch
<1>11. ASSUME NEW m \in Link, Responds(m) PROVE NumbersMatch'
  <2>1. \A k \in Link : found'[k] \in {found[k], Nothing}
    BY <1>11 DEF Responds, TypeOK, TableOK
  <2> QED
    BY <1>11, <2>1, NumbersFrame DEF Responds, threadVars, netVars
<1>12. CASE UNCHANGED vars
  BY <1>1, <1>12 DEF vars, threadVars, historyVars, netVars
<1> QED
  BY <1>2, <1>3, <1>4, <1>5, <1>6, <1>7, <1>8, <1>9, <1>10, <1>11, <1>12
     DEF Next, Agent, Peers, DeviceThread, MeetingThread, LinkAction, Of

\* The number of a thread that uses one.
LEMMA KeyType ==
    ASSUME TypeOK, NEW c \in Device, pc[c] \in Using
    PROVE  KeyOf(c) \in Number /\ req[c] \in Request /\ pc[c] # "idle"
BY AskedType DEF TypeOK, ThreadsOK, AskedOK, Using, KeyOf, Request

\* A step that adds no thread with a number, no packet and no finding.
LEMMA UsedOnceFrame ==
    ASSUME TypeOK, NumbersUsedOnce,
           \A c \in Device : pc'[c] \in Using => pc[c] \in Using /\ KeyOf(c)' = KeyOf(c),
           toMeeting' \cup toAgent' \subseteq toMeeting \cup toAgent,
           \A m \in Link : found'[m] \in {found[m], Nothing}
    PROVE  NumbersUsedOnce'
BY PacketType, KeyType DEF NumbersUsedOnce

\* Unless a number is drawn while it is in use, no two requests under way share one.
LEMMA UsedOnceStep ==
    Homes /\ NumbersUsedOnce /\ [Next]_vars /\ ~shared' => NumbersUsedOnce'
<1> SUFFICES ASSUME Homes, NumbersUsedOnce, [Next]_vars, ~shared' PROVE NumbersUsedOnce'
  OBVIOUS
<1> USE DEF Homes
<1>0. found \in [Link -> Found \cup {Nothing}]
  BY DEF TypeOK, TableOK
<1>1. ASSUME UNCHANGED <<number, pc, req, toMeeting, toAgent, found>>
      PROVE  NumbersUsedOnce'
  BY <1>1, UsedOnceFrame DEF KeyOf
<1>2. ASSUME NEW f \in DeviceFd, DeviceConnects(f) \/ DeviceLeaves(f) PROVE NumbersUsedOnce'
  BY <1>1, <1>2 DEF DeviceConnects, DeviceLeaves, threadVars, historyVars, netVars
<1>3. ASSUME NEW f \in DeviceFd, DeviceAsks(f) PROVE NumbersUsedOnce'
  <2>1. UNCHANGED <<number, toMeeting, toAgent, found>>
    BY <1>3 DEF DeviceAsks, netVars
  <2>2. \A d \in Device : pc'[d] \in Using =>
            pc'[d] = pc[d] /\ req'[d] = req[d]
    BY <1>3, AskedGrows DEF TypeOK, ThreadsOK, Using
  <2> QED
    BY <2>1, <2>2, UsedOnceFrame DEF KeyOf
<1>4. ASSUME NEW c \in Device, Counts(c) \/ Stores(c) \/ Picks(c) PROVE NumbersUsedOnce'
  <2>1. UNCHANGED <<number, toMeeting, toAgent, found>>
    BY <1>4 DEF Counts, Stores, Picks, netVars, historyVars
  <2>2. pc'[c] \in Using => pc[c] \in Using /\ req'[c] = req[c]
    BY <1>4 DEF Counts, Stores, Picks, Finishes, TypeOK, ThreadsOK, Using
  <2>3. \A d \in Device \ {c} : pc'[d] = pc[d] /\ req'[d] = req[d]
    BY <1>4, DeviceThreadFrame DEF DeviceThread
  <2> QED
    BY <2>1, <2>2, <2>3, UsedOnceFrame DEF KeyOf
<1>5. ASSUME NEW c \in Device, Reads(c) PROVE NumbersUsedOnce'
  <2> DEFINE n == msnSequence
  <2>1. /\ pc[c] = "read" /\ req[c] \in Request /\ n \in Number /\ req'[c] = req[c]
        /\ number' = [number EXCEPT ![req[c]] = n]
        /\ UNCHANGED <<toMeeting, toAgent, found>>
    BY <1>5, AskedType DEF Reads, netVars, TypeOK, ThreadsOK, AskedOK, Request
  <2>2. ~InUse(n)
    BY <1>5 DEF Reads
  <2>3. \A d \in Device \ {c} : pc'[d] = pc[d] /\ req'[d] = req[d]
    BY <1>5, DeviceThreadFrame DEF DeviceThread
  <2>4. KeyOf(c)' = n
    BY <2>1 DEF KeyOf, TypeOK, ThreadsOK
  <2>5. ASSUME NEW d \in Device \ {c}, pc[d] \in Using
        PROVE  KeyOf(d)' = KeyOf(d) /\ KeyOf(d) # n
    <3>1. req[d] \in Request /\ req[d] # req[c]
      BY <2>1, <2>5, KeyType, DifferentRequests
    <3>2. KeyOf(d)' = KeyOf(d)
      BY <2>1, <2>3, <3>1 DEF KeyOf, TypeOK, ThreadsOK
    <3>3. KeyOf(d) # n
      BY <2>2, <2>5 DEF InUse, KeyOf, Using
    <3> QED
      BY <3>2, <3>3
  <2>6. (\A p \in toMeeting \cup toAgent : p.key # n) /\ (\A m \in Link : found[m].key # n)
    BY <2>2 DEF InUse
  <2> HIDE DEF n
  <2>7. \A d \in Device : pc'[d] \in Using => d = c \/ pc[d] \in Using
    BY <2>3
  <2>8. ASSUME NEW d \in Device, pc'[d] \in Using
        PROVE  /\ \A e \in Device : pc'[e] \in Using /\ KeyOf(e)' = KeyOf(d)' => d = e
               /\ \A p \in toMeeting \cup toAgent : p.key # KeyOf(d)'
               /\ \A m \in Link : found[m].key # KeyOf(d)'
    <3>1. CASE d = c
      BY <3>1, <2>3, <2>4, <2>5, <2>6
    <3>2. CASE d # c
      BY <3>2, <2>3, <2>4, <2>5, <2>8 DEF NumbersUsedOnce
    <3> QED
      BY <3>1, <3>2
  <2> QED
    BY <2>1, <2>8 DEF NumbersUsedOnce
<1>6. ASSUME NEW c \in Device, Sends(c) PROVE NumbersUsedOnce'
  <2> DEFINE p == [link |-> meeting[target[c]], key |-> KeyOf(c), about |-> req[c]]
  <2>1. /\ UNCHANGED <<number, found, toAgent>> /\ pc'[c] = "idle" /\ pc[c] \in Using
    BY <1>6 DEF Sends, Finishes, TypeOK, ThreadsOK, Using
  <2>2. \A d \in Device \ {c} : pc'[d] = pc[d] /\ req'[d] = req[d]
    BY <1>6, DeviceThreadFrame DEF DeviceThread
  <2>3. toMeeting' \subseteq toMeeting \cup {p}
    BY <1>6, SendsOnly DEF DeviceThread
  <2>4. p.key = KeyOf(c)
    OBVIOUS
  <2> HIDE DEF p
  <2>5. \A d \in Device : pc'[d] \in Using => d # c /\ pc[d] \in Using /\ KeyOf(d)' = KeyOf(d)
    BY <2>1, <2>2 DEF KeyOf, Using
  <2> QED
    BY <2>1, <2>3, <2>4, <2>5 DEF NumbersUsedOnce
<1>7. ASSUME NEW f \in MeetingFd, LinkAction(f) PROVE NumbersUsedOnce'
  BY <1>7, LinkFrame, UsedOnceFrame DEF KeyOf
<1>8. ASSUME NEW m \in Link, CancelsResponse(m) PROVE NumbersUsedOnce'
  BY <1>8, CancelFrame, UsedOnceFrame DEF KeyOf
<1>9. ASSUME NEW p \in toMeeting, MeetingAnswers(p) PROVE NumbersUsedOnce'
  BY <1>9, UsedOnceFrame DEF MeetingAnswers, threadVars, historyVars, KeyOf
<1>10. ASSUME NEW p \in toAgent, Finds(p) PROVE NumbersUsedOnce'
  <2>1. UNCHANGED <<number, pc, req, toMeeting>>
    BY <1>10 DEF Finds, threadVars, historyVars
  <2>2. /\ p.link \in Link /\ toAgent' = toAgent \ {p}
        /\ \A m \in Link \ {p.link} : found'[m] = found[m]
        /\ found'[p.link] = Nothing \/ found'[p.link].key = p.key
    BY <1>10, FindsOnly
  <2>3. \A c \in Device : KeyOf(c)' = KeyOf(c)
    BY <2>1 DEF KeyOf
  <2>4. ASSUME NEW c \in Device, pc[c] \in Using, NEW m \in Link
        PROVE  found'[m].key # KeyOf(c)
    BY <2>2, <2>4, KeyType, PacketType DEF NumbersUsedOnce
  <2> QED
    BY <2>1, <2>2, <2>3, <2>4 DEF NumbersUsedOnce
<1>11. ASSUME NEW m \in Link, Responds(m) PROVE NumbersUsedOnce'
  <2>1. \A k \in Link : found'[k] \in {found[k], Nothing}
    BY <1>0, <1>11 DEF Responds
  <2> QED
    BY <1>11, <2>1, UsedOnceFrame DEF Responds, threadVars, netVars, KeyOf
<1>12. CASE UNCHANGED vars
  BY <1>1, <1>12 DEF vars, threadVars, historyVars, netVars
<1> QED
  BY <1>2, <1>3, <1>4, <1>5, <1>6, <1>7, <1>8, <1>9, <1>10, <1>11, <1>12
     DEF Next, Agent, Peers, DeviceThread, MeetingThread, LinkAction, Of

-----------------------------------------------------------------------------
(* Entries *)

\* Packets and findings are about requests that were asked.
LEMMA AboutAsked ==
    ASSUME Homes
    PROVE  /\ \A p \in toMeeting \cup toAgent : p.about \in 1..Len(asked)
           /\ \A m \in Link : found[m] # Nothing => found[m].about \in 1..Len(asked)
           /\ \A r \in Request : number[r] \in Number => r \in 1..Len(asked)
<1>1. \A r \in Request : number[r] \in Number => r \in 1..Len(asked)
  <2>1. \A r \in Request : r > Len(asked) \/ r \in 1..Len(asked)
    BY AskedType DEF Homes, Request
  <2> QED
    BY <2>1, PacketType DEF Homes, NumbersMatch
<1> QED
  BY <1>1, PacketType DEF Homes, NumbersMatch

\* Drawing a number changes that of its own request.
LEMMA ReadsOnly ==
    ASSUME Homes, NEW c \in Device, Reads(c), ~shared'
    PROVE  /\ pc'[c] = "store" /\ req'[c] = req[c] /\ msnSequence \in Number
           /\ KeyOf(c)' = msnSequence /\ ~InUse(msnSequence) /\ ~shared
           /\ \A d \in Device \ {c} :
                 /\ pc'[d] = pc[d] /\ req'[d] = req[d]
                 /\ pc[d] \in Using => KeyOf(d)' = KeyOf(d)
           /\ \A r \in Request : number[r] # 0 => number'[r] = number[r]
           /\ UNCHANGED <<asked, deviceMapData, toMeeting, toAgent, found, got, relayed, device>>
<1> USE DEF Homes
<1>1. /\ pc[c] = "read" /\ req[c] \in Request /\ msnSequence \in Number
      /\ pc'[c] = "store" /\ req'[c] = req[c]
      /\ number[req[c]] = 0
      /\ number' = [number EXCEPT ![req[c]] = msnSequence]
      /\ UNCHANGED <<asked, deviceMapData, toMeeting, toAgent, found, got, relayed, device>>
  BY AskedType DEF Reads, netVars, deviceVars, TypeOK, ThreadsOK, AskedOK, Request, NumbersMatch
<1>2. ~InUse(msnSequence)
  BY DEF Reads
<1>3. ~shared
  BY DEF Reads
<1>4. \A d \in Device \ {c} : pc'[d] = pc[d] /\ req'[d] = req[d]
  BY DeviceThreadFrame DEF DeviceThread
<1>5. KeyOf(c)' = msnSequence
  BY <1>1 DEF KeyOf, TypeOK, ThreadsOK
<1>6. ASSUME NEW d \in Device \ {c}, pc[d] \in Using PROVE KeyOf(d)' = KeyOf(d)
  <2>1. req[d] \in Request /\ req[d] # req[c]
    BY <1>1, <1>6, KeyType, DifferentRequests
  <2> QED
    BY <1>1, <1>4, <2>1 DEF KeyOf, TypeOK, ThreadsOK
<1>7. \A r \in Request : number[r] # 0 => number'[r] = number[r]
  BY <1>1 DEF TypeOK, ThreadsOK
<1> QED
  BY <1>1, <1>2, <1>3, <1>4, <1>5, <1>6, <1>7

\* A step that stores nothing, and adds no thread with a number, packet or finding.
LEMMA EntriesFrame ==
    ASSUME Homes, EntriesMatch, UNCHANGED asked,
           \A c \in Device : pc'[c] \in Using =>
               pc[c] \in Using /\ KeyOf(c)' = KeyOf(c) /\ req'[c] = req[c],
           toMeeting' \cup toAgent' \subseteq toMeeting \cup toAgent,
           \A m \in Link : found'[m] \in {found[m], Nothing},
           \A n \in Number : deviceMapData'[n] \in {deviceMapData[n], NoEntry}
    PROVE  EntriesMatch'
<1> USE DEF Homes
<1>1. ASSUME NEW c \in Device, pc'[c] \in Using PROVE OwnEntry(c)'
  <2>1. OwnEntry(c) /\ KeyOf(c) \in Number /\ KeyOf(c)' = KeyOf(c) /\ req'[c] = req[c]
    BY <1>1, KeyType DEF EntriesMatch
  <2> QED
    BY <2>1 DEF OwnEntry, EntryOf
<1>2. ASSUME NEW p \in toMeeting' \cup toAgent'
      PROVE  deviceMapData'[p.key] \in {NoEntry, EntryOf(p.about)'}
  <2>1. deviceMapData[p.key] \in {NoEntry, EntryOf(p.about)} /\ p.key \in Number
    BY <1>2, PacketType DEF EntriesMatch
  <2> QED
    BY <2>1 DEF EntryOf
<1>3. \A m \in Link : found'[m] # Nothing =>
          /\ found'[m].fd = asked'[found'[m].about].fd
          /\ found'[m].seq = asked'[found'[m].about].seq
  BY DEF EntriesMatch
<1> QED
  BY <1>1, <1>2, <1>3 DEF EntriesMatch

\* Until a number is drawn while it is in use, the entry under the number of a request
\* is that of the request.
LEMMA EntriesStep ==
    Homes /\ NumbersUsedOnce /\ EntriesMatch /\ [Next]_vars /\ ~shared' => EntriesMatch'
<1> SUFFICES ASSUME Homes, NumbersUsedOnce, EntriesMatch, [Next]_vars, ~shared'
             PROVE  EntriesMatch'
  OBVIOUS
<1> USE DEF Homes
<1>0. /\ found \in [Link -> Found \cup {Nothing}]
      /\ deviceMapData \in [Number -> Entry \cup {NoEntry}]
  BY DEF TypeOK, TableOK
<1>1. ASSUME UNCHANGED <<asked, number, pc, req, toMeeting, toAgent, found, deviceMapData>>
      PROVE  EntriesMatch'
  BY <1>1, EntriesFrame DEF KeyOf
<1>2. ASSUME NEW f \in DeviceFd, DeviceConnects(f) \/ DeviceLeaves(f) PROVE EntriesMatch'
  BY <1>1, <1>2 DEF DeviceConnects, DeviceLeaves, threadVars, historyVars, netVars
<1>3. ASSUME NEW f \in DeviceFd, DeviceAsks(f) PROVE EntriesMatch'
  <2>1. UNCHANGED <<number, toMeeting, toAgent, found, deviceMapData>>
    BY <1>3 DEF DeviceAsks, netVars
  <2>2. \A d \in Device : pc'[d] \in Using => pc'[d] = pc[d] /\ req'[d] = req[d]
    BY <1>3, AskedGrows DEF TypeOK, ThreadsOK, Using
  <2>3. \A i \in 1..Len(asked) : asked'[i] = asked[i]
    BY <1>3, AskedGrows
  <2>4. ASSUME NEW c \in Device, pc'[c] \in Using PROVE OwnEntry(c)'
    <3>1. /\ OwnEntry(c) /\ KeyOf(c)' = KeyOf(c) /\ req'[c] = req[c]
          /\ asked'[req[c]] = asked[req[c]]
      BY <2>1, <2>2, <2>3, <2>4, KeyType, AskedType DEF EntriesMatch, KeyOf
    <3> QED
      BY <2>1, <3>1 DEF OwnEntry, EntryOf
  <2>5. ASSUME NEW p \in toMeeting' \cup toAgent'
        PROVE  deviceMapData'[p.key] \in {NoEntry, EntryOf(p.about)'}
    <3>1. deviceMapData[p.key] \in {NoEntry, EntryOf(p.about)}
          /\ asked'[p.about] = asked[p.about]
      BY <2>1, <2>3, AboutAsked DEF EntriesMatch
    <3> QED
      BY <2>1, <3>1 DEF EntryOf
  <2>6. \A m \in Link : found'[m] # Nothing =>
            /\ found'[m].fd = asked'[found'[m].about].fd
            /\ found'[m].seq = asked'[found'[m].about].seq
    BY <2>1, <2>3, AboutAsked DEF EntriesMatch
  <2> QED
    BY <2>4, <2>5, <2>6 DEF EntriesMatch
<1>4. ASSUME NEW c \in Device, Counts(c) \/ Picks(c) PROVE EntriesMatch'
  <2>1. UNCHANGED <<asked, number, toMeeting, toAgent, found, deviceMapData>>
    BY <1>4 DEF Counts, Picks, netVars, historyVars
  <2>2. pc'[c] \in Using => pc[c] \in Using /\ req'[c] = req[c]
    BY <1>4 DEF Counts, Picks, Finishes, TypeOK, ThreadsOK, Using
  <2>3. \A d \in Device \ {c} : pc'[d] = pc[d] /\ req'[d] = req[d]
    BY <1>4, DeviceThreadFrame DEF DeviceThread
  <2> QED
    BY <2>1, <2>2, <2>3, EntriesFrame DEF KeyOf
<1>5. ASSUME NEW c \in Device, Reads(c) PROVE EntriesMatch'
  <2>1. deviceMapData[msnSequence] = NoEntry
    BY <1>5, ReadsOnly DEF InUse
  <2>2. ASSUME NEW d \in Device, pc'[d] \in Using PROVE OwnEntry(d)'
    <3>1. CASE d = c
      BY <1>5, <2>1, <3>1, ReadsOnly DEF OwnEntry
    <3>2. CASE d # c
      <4>1. OwnEntry(d) /\ KeyOf(d)' = KeyOf(d) /\ req'[d] = req[d]
            /\ UNCHANGED <<asked, deviceMapData>>
        BY <1>5, <2>2, <3>2, ReadsOnly DEF EntriesMatch
      <4> QED
        BY <4>1 DEF OwnEntry, EntryOf
    <3> QED
      BY <3>1, <3>2
  <2>3. UNCHANGED <<asked, deviceMapData, toMeeting, toAgent, found>>
    BY <1>5, ReadsOnly
  <2> QED
    BY <2>2, <2>3 DEF EntriesMatch, EntryOf
<1>6. ASSUME NEW c \in Device, Stores(c) PROVE EntriesMatch'
  <2>1. /\ UNCHANGED <<asked, number, toMeeting, toAgent, found, req>>
        /\ deviceMapData' = [deviceMapData EXCEPT ![KeyOf(c)] = EntryOf(req[c])]
        /\ pc[c] \in Using /\ pc'[c] = "pick"
    BY <1>6 DEF Stores, netVars, historyVars, TypeOK, ThreadsOK, Using, EntryOf
  <2>2. \A d \in Device \ {c} : pc'[d] = pc[d]
    BY <1>6, DeviceThreadFrame DEF DeviceThread
  <2>3. /\ KeyOf(c) \in Number
        /\ deviceMapData'[KeyOf(c)] = EntryOf(req[c])
        /\ \A n \in Number \ {KeyOf(c)} : deviceMapData'[n] = deviceMapData[n]
    BY <1>0, <2>1, KeyType
  <2>4. ASSUME NEW d \in Device, pc'[d] \in Using PROVE OwnEntry(d)'
    <3>1. KeyOf(d)' = KeyOf(d) /\ pc[d] \in Using
      BY <2>1, <2>2, <2>4 DEF KeyOf
    <3>2. CASE d = c
      BY <2>1, <2>3, <3>1, <3>2 DEF OwnEntry, EntryOf
    <3>3. CASE d # c
      <4>1. KeyOf(d) # KeyOf(c) /\ KeyOf(d) \in Number /\ OwnEntry(d)
        BY <2>1, <3>1, <3>3, KeyType DEF NumbersUsedOnce, EntriesMatch
      <4> QED
        BY <2>1, <2>3, <3>1, <4>1 DEF OwnEntry, EntryOf
    <3> QED
      BY <3>2, <3>3
  <2>5. ASSUME NEW p \in toMeeting' \cup toAgent'
        PROVE  deviceMapData'[p.key] \in {NoEntry, EntryOf(p.about)'}
    <3>1. /\ deviceMapData[p.key] \in {NoEntry, EntryOf(p.about)}
          /\ p.key \in Number /\ p.key # KeyOf(c)
      BY <2>1, PacketType DEF EntriesMatch, NumbersUsedOnce
    <3> QED
      BY <2>1, <2>3, <3>1 DEF EntryOf
  <2> QED
    BY <2>1, <2>4, <2>5 DEF EntriesMatch
<1>7. ASSUME NEW c \in Device, Sends(c) PROVE EntriesMatch'
  <2> DEFINE p == [link |-> meeting[target[c]], key |-> KeyOf(c), about |-> req[c]]
  <2>1. /\ UNCHANGED <<asked, number, found, toAgent, deviceMapData>>
        /\ pc'[c] = "idle" /\ pc[c] \in Using
    BY <1>7 DEF Sends, Finishes, TypeOK, ThreadsOK, Using
  <2>2. \A d \in Device \ {c} : pc'[d] = pc[d] /\ req'[d] = req[d]
    BY <1>7, DeviceThreadFrame DEF DeviceThread
  <2>3. toMeeting' \subseteq toMeeting \cup {p}
    BY <1>7, SendsOnly DEF DeviceThread
  <2>4. deviceMapData[p.key] \in {NoEntry, EntryOf(p.about)}
    BY <2>1 DEF EntriesMatch, OwnEntry
  <2> HIDE DEF p
  <2>5. ASSUME NEW d \in Device, pc'[d] \in Using PROVE OwnEntry(d)'
    <3>1. OwnEntry(d) /\ KeyOf(d)' = KeyOf(d) /\ req'[d] = req[d]
      BY <2>1, <2>2, <2>5 DEF EntriesMatch, KeyOf, Using
    <3> QED
      BY <2>1, <3>1 DEF OwnEntry, EntryOf
  <2>6. ASSUME NEW q \in toMeeting' \cup toAgent'
        PROVE  deviceMapData'[q.key] \in {NoEntry, EntryOf(q.about)'}
    <3>1. deviceMapData[q.key] \in {NoEntry, EntryOf(q.about)}
      BY <2>1, <2>3, <2>4, <2>6 DEF EntriesMatch
    <3> QED
      BY <2>1, <3>1 DEF EntryOf
  <2> QED
    BY <2>1, <2>5, <2>6 DEF EntriesMatch
<1>8. ASSUME NEW f \in MeetingFd, LinkAction(f) PROVE EntriesMatch'
  BY <1>8, LinkFrame, EntriesFrame DEF KeyOf
<1>9. ASSUME NEW m \in Link, CancelsResponse(m) PROVE EntriesMatch'
  BY <1>9, CancelFrame, EntriesFrame DEF KeyOf
<1>10. ASSUME NEW p \in toMeeting, MeetingAnswers(p) PROVE EntriesMatch'
  BY <1>10, EntriesFrame DEF MeetingAnswers, threadVars, historyVars, KeyOf
<1>11. ASSUME NEW p \in toAgent, Finds(p) PROVE EntriesMatch'
  <2>1. UNCHANGED <<asked, number, pc, req, toMeeting, deviceMapData>>
    BY <1>11 DEF Finds, threadVars, historyVars
  <2>2. /\ p.link \in Link /\ toAgent' \subseteq toAgent
        /\ \A m \in Link \ {p.link} : found'[m] = found[m]
        /\ found'[p.link] # Nothing =>
              /\ deviceMapData[p.key] # NoEntry
              /\ found'[p.link].about = p.about
              /\ found'[p.link].fd = deviceMapData[p.key].fd
              /\ found'[p.link].seq = deviceMapData[p.key].seq
    BY <1>11, FindsOnly
  <2>3. deviceMapData[p.key] \in {NoEntry, EntryOf(p.about)}
    BY DEF EntriesMatch
  <2>4. deviceMapData[p.key] # NoEntry =>
            /\ deviceMapData[p.key].fd = asked[p.about].fd
            /\ deviceMapData[p.key].seq = asked[p.about].seq
    BY <2>3 DEF EntryOf
  <2>5. \A m \in Link : found'[m] # Nothing =>
            /\ found'[m].fd = asked[found'[m].about].fd
            /\ found'[m].seq = asked[found'[m].about].seq
    BY <2>2, <2>4 DEF EntriesMatch
  <2>6. \A c \in Device : pc'[c] \in Using => OwnEntry(c)'
    BY <2>1 DEF EntriesMatch, OwnEntry, KeyOf, EntryOf
  <2>7. \A q \in toMeeting' \cup toAgent' :
            deviceMapData'[q.key] \in {NoEntry, EntryOf(q.about)'}
    BY <2>1, <2>2 DEF EntriesMatch, EntryOf
  <2> QED
    BY <2>1, <2>5, <2>6, <2>7 DEF EntriesMatch
<1>12. ASSUME NEW m \in Link, Responds(m) PROVE EntriesMatch'
  <2>1. \A k \in Link : found'[k] \in {found[k], Nothing}
    BY <1>0, <1>12 DEF Responds
  <2>2. \A n \in Number : deviceMapData'[n] \in {deviceMapData[n], NoEntry}
    BY <1>0, <1>12 DEF Responds, Erases
  <2> QED
    BY <1>12, <2>1, <2>2, EntriesFrame DEF Responds, threadVars, netVars, KeyOf
<1>13. CASE UNCHANGED vars
  BY <1>1, <1>13 DEF vars, threadVars, historyVars, netVars
<1> QED
  BY <1>2, <1>3, <1>4, <1>5, <1>6, <1>7, <1>8, <1>9, <1>10, <1>11, <1>12, <1>13
     DEF Next, Agent, Peers, DeviceThread, MeetingThread, LinkAction, Of

-----------------------------------------------------------------------------
(* Answers *)

\* What devices have received matches what they asked, and only a device that has
\* left can have missed its answer.
LEMMA AnswersStep ==
    Homes /\ EntriesMatch /\ AnswersMatch /\ [Next]_vars => AnswersMatch'
<1> SUFFICES ASSUME Homes, EntriesMatch, AnswersMatch, [Next]_vars PROVE AnswersMatch'
  OBVIOUS
<1> USE DEF Homes
<1>0. device \in [DeviceFd -> Device \cup {0}] /\ devices \in Nat /\ 0 \notin Device
      /\ Device \subseteq Nat
  BY RelayAssumption DEF TypeOK, DevicesOK, Device
<1>1. ASSUME UNCHANGED <<asked, device, got>> PROVE AnswersMatch'
  BY <1>1 DEF AnswersMatch
<1>2. ASSUME NEW f \in DeviceFd, DeviceConnects(f) PROVE AnswersMatch'
  <2>1. /\ UNCHANGED <<asked, got>>
        /\ device' = [device EXCEPT ![f] = devices + 1]
    BY <1>2 DEF DeviceConnects, historyVars
  <2>2. ASSUME NEW g \in DeviceFd, NEW i \in 1..Len(asked), device[g] # asked[i].conn
        PROVE  device'[g] # asked[i].conn
    <3>1. asked[i].conn \in Nat /\ asked[i].conn <= devices
      BY <1>0, AskedType DEF DevicesAtHome, Device
    <3> QED
      BY <1>0, <2>1, <2>2, <3>1
  <2> QED
    BY <2>1, <2>2, AskedType DEF AnswersMatch
<1>3. ASSUME NEW f \in DeviceFd, DeviceAsks(f) PROVE AnswersMatch'
  <2>1. UNCHANGED <<device, got>>
    BY <1>3 DEF DeviceAsks, deviceVars
  <2>2. \A i \in 1..Len(asked) : i \in 1..Len(asked') /\ asked'[i] = asked[i]
    BY <1>3, AskedGrows
  <2> QED
    BY <2>1, <2>2 DEF AnswersMatch
<1>4. ASSUME NEW f \in DeviceFd, DeviceLeaves(f) PROVE AnswersMatch'
  <2>1. /\ UNCHANGED <<asked, got>>
        /\ device' = [device EXCEPT ![f] = 0]
    BY <1>4 DEF DeviceLeaves, historyVars
  <2>2. ASSUME NEW g \in DeviceFd, NEW i \in 1..Len(asked), device[g] # asked[i].conn
        PROVE  device'[g] # asked[i].conn
    BY <1>0, <2>1, <2>2, AskedType
  <2> QED
    BY <2>1, <2>2, AskedType DEF AnswersMatch
<1>5. ASSUME NEW c \in Device, DeviceThread(c) PROVE AnswersMatch'
  BY <1>1, <1>5, DeviceThreadFrame
<1>6. ASSUME NEW f \in MeetingFd, LinkAction(f) PROVE AnswersMatch'
  BY <1>1, <1>6, LinkFrame
<1>7. ASSUME NEW p \in toMeeting, MeetingAnswers(p) PROVE AnswersMatch'
  BY <1>1, <1>7 DEF MeetingAnswers, deviceVars, historyVars
<1>8. ASSUME NEW p \in toAgent, Finds(p) PROVE AnswersMatch'
  BY <1>1, <1>8 DEF Finds, deviceVars, historyVars
<1>9. ASSUME NEW m \in Link, Responds(m) PROVE AnswersMatch'
  <2> DEFINE e == found[m]
             g == [fd |-> e.fd, conn |-> device[e.fd], seq |-> e.seq, about |-> e.about]
  <2>1. e # Nothing /\ UNCHANGED <<asked, device>>
    BY <1>9 DEF Responds, deviceVars
  <2>2. got' = got \/ got' = got \cup {g}
    BY <1>9 DEF Responds
  <2>3. /\ e.about \in 1..Len(asked)
        /\ e.fd = asked[e.about].fd /\ e.seq = asked[e.about].seq
    BY <2>1, AboutAsked DEF EntriesMatch
  <2>4. g.fd = e.fd /\ g.conn = device[e.fd] /\ g.seq = e.seq /\ g.about = e.about
    OBVIOUS
  <2> HIDE DEF e, g
  <2> QED
    BY <2>1, <2>2, <2>3, <2>4 DEF AnswersMatch
<1>10. ASSUME NEW m \in Link, CancelsResponse(m) PROVE AnswersMatch'
  BY <1>1, <1>10, CancelFrame
<1>11. CASE UNCHANGED vars
  BY <1>1, <1>11 DEF vars, deviceVars, historyVars
<1> QED
  BY <1>2, <1>3, <1>4, <1>5, <1>6, <1>7, <1>8, <1>9, <1>10, <1>11
     DEF Next, Agent, Peers, MeetingThread, LinkAction, Of

\* What a step that answers nothing and stores nothing leaves to be proved.
LEMMA OpenFrame ==
    ASSUME EntriesAreOpen, UNCHANGED <<relayed, number>>,
           \A n \in Number : deviceMapData'[n] \in {deviceMapData[n], NoEntry},
           1..Len(asked) \subseteq 1..Len(asked'),
           \A c \in Device : pc'[c] # "idle" =>
               req'[c] \notin relayed \/ (pc[c] # "idle" /\ req'[c] = req[c])
    PROVE  EntriesAreOpen'
BY DEF EntriesAreOpen

\* Until a number is shared, every entry belongs to a request without an answer.
LEMMA OpenStep ==
    Homes /\ NumbersUsedOnce /\ EntriesAreOpen /\ [Next]_vars /\ ~shared' => EntriesAreOpen'
<1> SUFFICES ASSUME Homes, NumbersUsedOnce, EntriesAreOpen, [Next]_vars, ~shared'
             PROVE  EntriesAreOpen'
  OBVIOUS
<1> USE DEF Homes
<1>0. deviceMapData \in [Number -> Entry \cup {NoEntry}]
  BY DEF TypeOK, TableOK
<1>1. ASSUME UNCHANGED <<asked, number, pc, req, relayed, deviceMapData>> PROVE EntriesAreOpen'
  BY <1>1 DEF EntriesAreOpen
<1>2. ASSUME NEW f \in DeviceFd, DeviceConnects(f) \/ DeviceLeaves(f) PROVE EntriesAreOpen'
  BY <1>1, <1>2 DEF DeviceConnects, DeviceLeaves, threadVars, historyVars
<1>3. ASSUME NEW f \in DeviceFd, DeviceAsks(f) PROVE EntriesAreOpen'
  <2>1. UNCHANGED <<number, relayed, deviceMapData>>
    BY <1>3 DEF DeviceAsks
  <2>2. 1..Len(asked) \subseteq 1..Len(asked') /\ Len(asked) + 1 \notin 1..Len(asked)
    BY <1>3, AskedGrows
  <2>3. \A d \in Device : pc'[d] # "idle" =>
            req'[d] = Len(asked) + 1 \/ (pc[d] # "idle" /\ req'[d] = req[d])
    <3>1. /\ device[f] \in Device
          /\ pc' = [pc EXCEPT ![device[f]] = "count"]
          /\ req' = [req EXCEPT ![device[f]] = Len(asked) + 1]
      BY <1>3, AskedGrows
    <3>2. /\ req'[device[f]] = Len(asked) + 1
          /\ \A d \in Device \ {device[f]} : pc'[d] = pc[d] /\ req'[d] = req[d]
      BY <3>1 DEF TypeOK, ThreadsOK
    <3> QED
      BY <3>2
  <2> QED
    BY <2>1, <2>2, <2>3, OpenFrame DEF EntriesAreOpen
<1>4. ASSUME NEW c \in Device, Counts(c) \/ Picks(c) \/ Sends(c) PROVE EntriesAreOpen'
  <2>1. UNCHANGED <<asked, number, relayed, deviceMapData>>
    BY <1>4 DEF Counts, Picks, Sends, historyVars
  <2>2. /\ \A d \in Device \ {c} : pc'[d] = pc[d] /\ req'[d] = req[d]
        /\ pc[c] # "idle" /\ (pc'[c] # "idle" => req'[c] = req[c])
    BY <1>4, DeviceThreadFrame DEF DeviceThread
  <2> QED
    BY <2>1, <2>2, OpenFrame
<1>5. ASSUME NEW c \in Device, Reads(c) PROVE EntriesAreOpen'
  <2>1. /\ UNCHANGED <<asked, relayed, deviceMapData>>
        /\ \A r \in Request : number[r] # 0 => number'[r] = number[r]
    BY <1>5, ReadsOnly
  <2>2. /\ \A d \in Device \ {c} : pc'[d] = pc[d] /\ req'[d] = req[d]
        /\ pc[c] # "idle" /\ (pc'[c] # "idle" => req'[c] = req[c])
    BY <1>5, DeviceThreadFrame DEF DeviceThread
  <2>3. \A n \in Number : deviceMapData'[n] # NoEntry =>
            \E q \in Request \ relayed' : number'[q] = n
    BY <2>1, PacketType DEF EntriesAreOpen
  <2>4. \A d \in Device : pc'[d] # "idle" => req'[d] \notin relayed'
    BY <2>1, <2>2 DEF EntriesAreOpen
  <2>5. \A r \in relayed : number'[r] \in Number
    BY <2>1, PacketType DEF EntriesAreOpen, TypeOK, HistoryOK
  <2> QED
    BY <2>1, <2>3, <2>4, <2>5 DEF EntriesAreOpen
<1>6. ASSUME NEW c \in Device, Stores(c) PROVE EntriesAreOpen'
  <2>1. /\ UNCHANGED <<asked, number, relayed, req>>
        /\ deviceMapData' = [deviceMapData EXCEPT ![KeyOf(c)] = EntryOf(req[c])]
        /\ pc[c] \in Using
    BY <1>6 DEF Stores, historyVars, TypeOK, ThreadsOK, Using, EntryOf
  <2>2. \A d \in Device : pc'[d] # "idle" => pc[d] # "idle"
    BY <1>6, DeviceThreadFrame DEF DeviceThread
  <2>3. req[c] \in Request \ relayed /\ number[req[c]] = KeyOf(c) /\ KeyOf(c) \in Number
    BY <2>1, KeyType DEF EntriesAreOpen, KeyOf
  <2>4. \A n \in Number \ {KeyOf(c)} : deviceMapData'[n] = deviceMapData[n]
    BY <1>0, <2>1, <2>3
  <2>5. \A n \in Number : deviceMapData'[n] # NoEntry =>
            \E q \in Request \ relayed' : number'[q] = n
    BY <2>1, <2>3, <2>4 DEF EntriesAreOpen
  <2> QED
    BY <2>1, <2>2, <2>5 DEF EntriesAreOpen
<1>7. ASSUME NEW f \in MeetingFd, LinkAction(f) PROVE EntriesAreOpen'
  BY <1>1, <1>7, LinkFrame
<1>8. ASSUME NEW p \in toMeeting, MeetingAnswers(p) PROVE EntriesAreOpen'
  BY <1>1, <1>8 DEF MeetingAnswers, threadVars, historyVars
<1>9. ASSUME NEW p \in toAgent, Finds(p) PROVE EntriesAreOpen'
  BY <1>1, <1>9 DEF Finds, threadVars, historyVars
<1>10. ASSUME NEW m \in Link, Responds(m) PROVE EntriesAreOpen'
  <2> DEFINE k == found[m].key
             r == found[m].about
  <2>1. /\ found[m] # Nothing /\ UNCHANGED <<asked, number, pc, req>>
        /\ deviceMapData' = [deviceMapData EXCEPT ![k] = NoEntry]
        /\ relayed' = relayed \cup {r}
    BY <1>10 DEF Responds, Erases, threadVars
  <2>2. k \in Number /\ r \in 1..Len(asked) /\ r \in Request /\ number[r] = k
    BY <2>1, AboutAsked, PacketType DEF NumbersMatch
  <2>3. ASSUME NEW c \in Device, pc[c] # "idle" PROVE req[c] # r
    <3>1. CASE pc[c] \in Using
      BY <2>2, <3>1 DEF NumbersUsedOnce, KeyOf
    <3>2. CASE pc[c] \notin Using
      <4>1. pc[c] \in {"count", "read"}
        BY <2>3, <3>2 DEF TypeOK, ThreadsOK, Using
      <4> QED
        BY <2>2, <4>1, PacketType DEF NumbersMatch
    <3> QED
      BY <3>1, <3>2
  <2> HIDE DEF k, r
  <2>4. /\ deviceMapData'[k] = NoEntry
        /\ \A n \in Number \ {k} : deviceMapData'[n] = deviceMapData[n]
    BY <1>0, <2>1, <2>2
  <2>5. \A n \in Number : deviceMapData'[n] # NoEntry =>
            \E q \in Request \ relayed' : number'[q] = n
    BY <2>1, <2>2, <2>4 DEF EntriesAreOpen
  <2> QED
    BY <2>1, <2>2, <2>3, <2>5 DEF EntriesAreOpen
<1>11. ASSUME NEW m \in Link, CancelsResponse(m) PROVE EntriesAreOpen'
  BY <1>11, CancelFrame, OpenFrame
<1>12. CASE UNCHANGED vars
  BY <1>1, <1>12 DEF vars, threadVars, historyVars
<1> QED
  BY <1>2, <1>3, <1>4, <1>5, <1>6, <1>7, <1>8, <1>9, <1>10, <1>11, <1>12
     DEF Next, Agent, Peers, DeviceThread, MeetingThread, LinkAction, Of

-----------------------------------------------------------------------------
(* The theorems on answers *)

\* The relay starts in the invariant.
LEMMA InvariantInit == Init => IInv
<1> SUFFICES ASSUME Init PROVE IInv
  OBVIOUS
<1>1. DevicesAtHome /\ LinksAtHome
  BY DEF Init, DevicesAtHome, LinksAtHome
<1>2. NumbersMatch
  BY DEF Init, NumbersMatch
<1>3. NumbersUsedOnce /\ EntriesMatch /\ AnswersMatch
  BY DEF Init, NumbersUsedOnce, EntriesMatch, AnswersMatch, Using
<1>4. EntriesAreOpen
  BY DEF Init, EntriesAreOpen
<1> QED
  BY <1>1, <1>2, <1>3, <1>4, TypeInit DEF IInv, Homes

\* Once a number is shared, it stays so.
LEMMA SharedStays == TypeOK /\ [Next]_vars /\ shared => shared'
<1> SUFFICES ASSUME TypeOK, [Next]_vars, shared PROVE shared'
  OBVIOUS
<1>1. ASSUME NEW f \in DeviceFd, DeviceConnects(f) \/ DeviceAsks(f) \/ DeviceLeaves(f)
      PROVE  shared'
  BY <1>1 DEF DeviceConnects, DeviceAsks, DeviceLeaves, historyVars
<1>2. ASSUME NEW c \in Device, DeviceThread(c) PROVE shared'
  BY <1>2 DEF DeviceThread, Counts, Reads, Stores, Picks, Sends, historyVars
<1>3. ASSUME NEW f \in MeetingFd, LinkAction(f) PROVE shared'
  BY <1>3, LinkFrame
<1>4. ASSUME NEW p \in toMeeting, MeetingAnswers(p) PROVE shared'
  BY <1>4 DEF MeetingAnswers, historyVars
<1>5. ASSUME NEW m \in Link, MeetingThread(m) PROVE shared'
  BY <1>5 DEF MeetingThread, Finds, Responds, historyVars
<1>6. ASSUME NEW m \in Link, CancelsResponse(m) PROVE shared'
  BY <1>6, CancelFrame
<1>7. CASE UNCHANGED vars
  BY <1>7 DEF vars, historyVars
<1> QED
  BY <1>1, <1>2, <1>3, <1>4, <1>5, <1>6, <1>7 DEF Next, Agent, Peers, LinkAction

\* Every step keeps the invariant.
LEMMA InvariantStep == IInv /\ [Next]_vars => IInv'
<1> SUFFICES ASSUME IInv, [Next]_vars PROVE IInv'
  OBVIOUS
<1>1. Homes'
  BY TypeStep, DevicesStep, LinksStep, NumbersStep DEF IInv, Homes
<1>2. CASE shared'
  BY <1>1, <1>2 DEF IInv
<1>3. CASE ~shared'
  <2>1. /\ Homes /\ NumbersUsedOnce /\ EntriesMatch /\ AnswersMatch /\ EntriesAreOpen
    BY <1>3, SharedStays DEF IInv, Homes
  <2> QED
    BY <1>1, <1>3, <2>1, UsedOnceStep, EntriesStep, AnswersStep, OpenStep DEF IInv
<1> QED
  BY <1>2, <1>3

\* Until a number is drawn while it is in use, every answer a device receives is to
\* its own request, and goes to the connection that asked unless that has left.
THEOREM AnswersGoHomeHolds == Spec => []AnswersGoHome
<1>1. IInv => AnswersGoHome
  BY DEF IInv, AnswersMatch, AnswersGoHome
<1> QED
  BY <1>1, InvariantInit, InvariantStep, PTL DEF Spec

\* Until then what is left in deviceMapData belongs to requests without an answer.
THEOREM NoEntryAfterAnswerHolds == Spec => []NoEntryAfterAnswer
<1>1. IInv => NoEntryAfterAnswer
  <2> SUFFICES ASSUME IInv, ~shared, NEW r \in relayed, deviceMapData[number[r]] # NoEntry
               PROVE  \E q \in Request \ relayed : number[q] = number[r]
    BY DEF NoEntryAfterAnswer
  <2>1. r \in Request
    BY DEF IInv, Homes, TypeOK, HistoryOK
  <2> QED
    BY <2>1 DEF IInv, EntriesAreOpen
<1> QED
  BY <1>1, InvariantInit, InvariantStep, PTL DEF Spec

=============================================================================
