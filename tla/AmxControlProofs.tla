-------------------------- MODULE AmxControlProofs --------------------------
(***************************************************************************)
(* Proofs about AmxControl, for every finite set of devices, every set of   *)
(* users and every bound.                                                   *)
(***************************************************************************)
EXTENDS AmxControl, FiniteSetTheorems, SequenceTheorems, TLAPS

-----------------------------------------------------------------------------
(* Counting the messages of a queue *)

At(q, S) == {i \in DOMAIN q : q[i] \in S}

Count(q, S) == Cardinality(At(q, S))

\* A queue holds finitely many messages of any kind.
LEMMA CountType ==
    ASSUME NEW q \in Seq(Message), NEW S
    PROVE  /\ IsFiniteSet(At(q, S)) /\ Count(q, S) \in Nat
           /\ Count(q, S) = 0 <=> At(q, S) = {}
           /\ Count(q, S) <= 1 <=> \A i, j \in At(q, S) : i = j
<1>1. Len(q) \in Nat /\ DOMAIN q = 1..Len(q)
  BY LenProperties
<1>2. IsFiniteSet(1..Len(q))
  BY <1>1, FS_Interval
<1>3. At(q, S) \in SUBSET (1..Len(q))
  BY <1>1 DEF At
<1>4. IsFiniteSet(At(q, S))
  BY <1>2, <1>3, FS_Subset
<1>5. Count(q, S) \in Nat /\ (Count(q, S) = 0 <=> At(q, S) = {})
  BY <1>4, FS_CardinalityType, FS_EmptySet DEF Count
<1>6. ASSUME \A i, j \in At(q, S) : i = j
      PROVE  Count(q, S) <= 1
  <2>1. CASE At(q, S) = {}
    BY <1>5, <2>1
  <2>2. CASE At(q, S) # {}
    <3>1. PICK i : At(q, S) = {i}
      BY <1>6, <2>2
    <3>2. Cardinality({i}) = 1
      BY FS_Singleton
    <3> QED
      BY <3>1, <3>2 DEF Count
  <2> QED
    BY <2>1, <2>2
<1>7. ASSUME Count(q, S) <= 1
      PROVE  \A i, j \in At(q, S) : i = j
  <2>1. CASE Count(q, S) = 0
    BY <1>5, <2>1
  <2>2. CASE Count(q, S) = 1
    <3>1. \E i : At(q, S) = {i}
      BY <1>4, <2>2, FS_Singleton DEF Count
    <3> QED
      BY <3>1
  <2> QED
    BY <1>5, <1>7, <2>1, <2>2
<1> QED
  BY <1>4, <1>5, <1>6, <1>7

\* What sending a message adds.
LEMMA CountAppend ==
    ASSUME NEW q \in Seq(Message), NEW m \in Message, NEW S
    PROVE  /\ Append(q, m) \in Seq(Message) /\ Len(Append(q, m)) = Len(q) + 1
           /\ At(Append(q, m), S) = At(q, S) \cup (IF m \in S THEN {Len(q) + 1} ELSE {})
           /\ Count(Append(q, m), S) = Count(q, S) + (IF m \in S THEN 1 ELSE 0)
<1> DEFINE r == Append(q, m)
<1>1. /\ Len(q) \in Nat /\ DOMAIN q = 1..Len(q)
      /\ r \in Seq(Message) /\ Len(r) = Len(q) + 1 /\ DOMAIN r = 1..(Len(q) + 1)
      /\ \A i \in 1..Len(q) : r[i] = q[i]
      /\ r[Len(q) + 1] = m
  BY AppendProperties, LenProperties
<1>2. At(r, S) = At(q, S) \cup (IF m \in S THEN {Len(q) + 1} ELSE {})
  BY <1>1 DEF At
<1>3. Len(q) + 1 \notin At(q, S)
  BY <1>1 DEF At
<1>4. IsFiniteSet(At(q, S))
  BY CountType
<1>5. CASE m \in S
  <2>1. At(r, S) = At(q, S) \cup {Len(q) + 1}
    BY <1>2, <1>5
  <2> QED
    BY <1>1, <1>2, <1>3, <1>4, <1>5, <2>1, FS_AddElement DEF Count
<1>6. CASE m \notin S
  <2>1. At(r, S) = At(q, S)
    BY <1>2, <1>6
  <2> QED
    BY <1>1, <1>2, <1>6, <2>1, CountType DEF Count
<1> QED
  BY <1>5, <1>6

\* What taking the first message removes; the other messages move up by one.
LEMMA CountTail ==
    ASSUME NEW q \in Seq(Message), q # <<>>, NEW S
    PROVE  /\ Tail(q) \in Seq(Message) /\ Len(Tail(q)) = Len(q) - 1
           /\ Head(q) \in Message /\ Head(q) = q[1] /\ 1 \in DOMAIN q
           /\ \A i \in At(Tail(q), S) : i + 1 \in At(q, S)
           /\ Count(q, S) = Count(Tail(q), S) + (IF Head(q) \in S THEN 1 ELSE 0)
<1> DEFINE r == Tail(q)
<1>1. /\ Len(q) \in Nat \ {0} /\ DOMAIN q = 1..Len(q)
      /\ r \in Seq(Message) /\ Len(r) = Len(q) - 1 /\ DOMAIN r = 1..(Len(q) - 1)
      /\ \A i \in 1..(Len(q) - 1) : r[i] = q[i + 1]
      /\ Head(q) = q[1] /\ q[1] \in Message /\ 1 \in DOMAIN q
  BY HeadTailProperties, LenProperties, EmptySeq, ElementOfSeq
<1> DEFINE T == At(q, S) \ {1}
           f == [i \in At(r, S) |-> i + 1]
<1>2. \A i \in At(r, S) : i + 1 \in T
  BY <1>1 DEF At
<1>3. \A j \in T : j - 1 \in At(r, S) /\ f[j - 1] = j
  <2> SUFFICES ASSUME NEW j \in T
               PROVE  j - 1 \in At(r, S) /\ f[j - 1] = j
    OBVIOUS
  <2>1. j \in 2..Len(q) /\ q[j] \in S
    BY <1>1 DEF At
  <2>2. j - 1 \in 1..(Len(q) - 1) /\ (j - 1) + 1 = j
    BY <1>1, <2>1
  <2>3. j - 1 \in At(r, S)
    BY <1>1, <2>1, <2>2 DEF At
  <2> QED
    BY <2>2, <2>3
<1>4. f \in Bijection(At(r, S), T)
  <2>1. f \in [At(r, S) -> T]
    BY <1>2
  <2>2. \A i, j \in At(r, S) : f[i] = f[j] => i = j
    BY <1>1 DEF At
  <2>3. \A j \in T : \E i \in At(r, S) : f[i] = j
    BY <1>3
  <2> HIDE DEF f, T
  <2> QED
    BY <2>1, <2>2, <2>3 DEF Bijection, Injection, IsInjective, Surjection
<1>5. ExistsBijection(At(r, S), T)
  <2> HIDE DEF f, T
  <2> QED
    BY <1>4 DEF ExistsBijection
<1>6. IsFiniteSet(At(r, S)) /\ IsFiniteSet(At(q, S)) /\ Count(q, S) \in Nat
  BY <1>1, CountType
<1>7. Cardinality(T) = Count(r, S)
  <2> HIDE DEF f, T
  <2> QED
    BY <1>5, <1>6, FS_Bijection DEF Count
<1>8. Cardinality(T) = IF 1 \in At(q, S) THEN Count(q, S) - 1 ELSE Count(q, S)
  BY <1>6, FS_RemoveElement DEF Count
<1>9. 1 \in At(q, S) <=> Head(q) \in S
  BY <1>1 DEF At
<1>10. Count(r, S) \in Nat
  BY <1>1, CountType
<1> QED
  BY <1>1, <1>2, <1>6, <1>7, <1>8, <1>9, <1>10

\* The messages of a queue that has grown.
LEMMA AppendElements ==
    ASSUME NEW q \in Seq(Message), NEW m \in Message, NEW i \in DOMAIN Append(q, m)
    PROVE  \/ i \in DOMAIN q /\ Append(q, m)[i] = q[i]
           \/ i = Len(q) + 1 /\ Append(q, m)[i] = m
<1>1. /\ Len(q) \in Nat /\ DOMAIN q = 1..Len(q)
      /\ DOMAIN Append(q, m) = 1..(Len(q) + 1)
      /\ \A j \in 1..Len(q) : Append(q, m)[j] = q[j]
      /\ Append(q, m)[Len(q) + 1] = m
  BY AppendProperties, LenProperties
<1> QED
  BY <1>1

\* The messages of a queue whose first message was taken.
LEMMA TailElements ==
    ASSUME NEW q \in Seq(Message), q # <<>>, NEW i \in DOMAIN Tail(q)
    PROVE  i \in Nat /\ i + 1 \in DOMAIN q /\ Tail(q)[i] = q[i + 1]
<1>1. /\ Len(q) \in Nat \ {0} /\ DOMAIN q = 1..Len(q)
      /\ DOMAIN Tail(q) = 1..(Len(q) - 1)
      /\ \A j \in 1..(Len(q) - 1) : Tail(q)[j] = q[j + 1]
  BY HeadTailProperties, LenProperties, EmptySeq
<1> QED
  BY <1>1

-----------------------------------------------------------------------------
(* The kinds of messages *)

ControlsOf(c) == {m \in Message : m.what = "amx_control_request" /\ m.cmd = c}
AnswersOf(u) == {m \in Message : m.what = "authentication_response" /\ m.user = u}
RequestsOf(u) == {m \in Message : m.what = "authentication_request" /\ m.user = u}
AsksOf(c) == {m \in Message : m.what = "authentication_request" /\ m.id = c}
Reboots == {m \in Message : m.what = "reboot_request"}

RequestMessage(n, u) == [what |-> "authentication_request", id |-> n, user |-> u]
ControlMessage(n, c) == [what |-> "amx_control_request", id |-> n, cmd |-> c]
AnswerMessage(u, yes) == [what |-> "authentication_response", user |-> u, yes |-> yes]
RebootMessage == [what |-> "reboot_request"]

\* A request for authentication, and the kinds it belongs to.
LEMMA RequestKind ==
    ASSUME NEW n \in Cmd, NEW u \in User
    PROVE  /\ RequestMessage(n, u) \in Message
           /\ RequestMessage(n, u).what = "authentication_request"
           /\ RequestMessage(n, u).id = n /\ RequestMessage(n, u).user = u
           /\ \A c : RequestMessage(n, u) \notin ControlsOf(c)
           /\ \A v : RequestMessage(n, u) \notin AnswersOf(v)
           /\ \A v : RequestMessage(n, u) \in RequestsOf(v) <=> v = u
           /\ \A c : RequestMessage(n, u) \in AsksOf(c) <=> c = n
           /\ RequestMessage(n, u) \notin Reboots
<1>1. RequestMessage(n, u) \in Message
  BY DEF RequestMessage, Message
<1> QED
  BY <1>1 DEF RequestMessage, ControlsOf, AnswersOf, RequestsOf, AsksOf, Reboots

\* A control request.
LEMMA ControlKind ==
    ASSUME NEW n \in Cmd, NEW x \in Cmd
    PROVE  /\ ControlMessage(n, x) \in Message
           /\ ControlMessage(n, x).what = "amx_control_request"
           /\ ControlMessage(n, x).id = n /\ ControlMessage(n, x).cmd = x
           /\ \A c : ControlMessage(n, x) \in ControlsOf(c) <=> c = x
           /\ \A v : ControlMessage(n, x) \notin AnswersOf(v)
           /\ \A v : ControlMessage(n, x) \notin RequestsOf(v)
           /\ \A c : ControlMessage(n, x) \notin AsksOf(c)
           /\ ControlMessage(n, x) \notin Reboots
<1>1. ControlMessage(n, x) \in Message
  BY DEF ControlMessage, Message
<1> QED
  BY <1>1 DEF ControlMessage, ControlsOf, AnswersOf, RequestsOf, AsksOf, Reboots

\* An answer of the authentication server.
LEMMA AnswerKind ==
    ASSUME NEW u \in User, NEW yes \in BOOLEAN
    PROVE  /\ AnswerMessage(u, yes) \in Message
           /\ AnswerMessage(u, yes).what = "authentication_response"
           /\ AnswerMessage(u, yes).user = u
           /\ \A c : AnswerMessage(u, yes) \notin ControlsOf(c)
           /\ \A v : AnswerMessage(u, yes) \in AnswersOf(v) <=> v = u
           /\ \A v : AnswerMessage(u, yes) \notin RequestsOf(v)
           /\ \A c : AnswerMessage(u, yes) \notin AsksOf(c)
           /\ AnswerMessage(u, yes) \notin Reboots
<1>1. AnswerMessage(u, yes) \in Message
  BY DEF AnswerMessage, Message
<1> QED
  BY <1>1 DEF AnswerMessage, ControlsOf, AnswersOf, RequestsOf, AsksOf, Reboots

\* The message of the timer.
LEMMA RebootKind ==
    /\ RebootMessage \in Message
    /\ RebootMessage.what = "reboot_request"
    /\ \A c : RebootMessage \notin ControlsOf(c)
    /\ \A v : RebootMessage \notin AnswersOf(v)
    /\ \A v : RebootMessage \notin RequestsOf(v)
    /\ \A c : RebootMessage \notin AsksOf(c)
    /\ RebootMessage \in Reboots
<1>1. RebootMessage \in Message
  BY DEF RebootMessage, Message
<1> QED
  BY <1>1 DEF RebootMessage, ControlsOf, AnswersOf, RequestsOf, AsksOf, Reboots

\* Every message is of one of these kinds.
LEMMA MessageKinds ==
    ASSUME NEW m \in Message
    PROVE  /\ m.what = "authentication_request" =>
                  m.id \in Cmd /\ m.user \in User /\ m = RequestMessage(m.id, m.user)
           /\ m.what = "amx_control_request" =>
                  m.id \in Cmd /\ m.cmd \in Cmd /\ m = ControlMessage(m.id, m.cmd)
           /\ m.what = "authentication_response" =>
                  m.user \in User /\ m.yes \in BOOLEAN /\ m = AnswerMessage(m.user, m.yes)
           /\ m.what = "reboot_request" => m = RebootMessage
BY DEF Message, RequestMessage, ControlMessage, AnswerMessage, RebootMessage

-----------------------------------------------------------------------------
(* The invariant *)

Shape ==
    /\ mq \in Seq(Message)
    /\ alive \in Nat /\ Len(mq) + alive <= QCap
    /\ seq \in 0..MaxCmd
    /\ dev \in [Device -> DeviceState]
    /\ mapCtrlAuth \in [Cmd -> [user : User \cup {NoUser}, cmd : 0..MaxCmd]]
    /\ ctl \in {"idle", "alive"}
    /\ mAuthServer \in BOOLEAN
    /\ asked \in [User -> Nat]
    /\ drops \in BOOLEAN
    /\ link \in 0..MaxLink
    /\ mAmxBox \in 0..MaxBox
    /\ boxes \subseteq 1..MaxBox
    /\ owner \in [Cmd -> User \cup {NoUser}]
    /\ shared \in BOOLEAN
    /\ sent \in [Cmd -> Nat]
    /\ dropped \subseteq Cmd
    /\ lost \subseteq dropped
    /\ handled \in [User -> Nat]
    /\ unread \in [User -> Nat]
    /\ regular \in BOOLEAN

\* The commands issued are the first seq.
Numbered == \A c \in Cmd : owner[c] # NoUser <=> c <= seq

\* What a receive thread holds while it is in onAmxControl.
DevicesWhole == \A d \in Device :
    /\ dev[d].pc \in {"counted", "drawn", "control"} => dev[d].cmd \in Cmd
    /\ dev[d].pc \in {"counted", "drawn"} =>
           dev[d].user \in User /\ dev[d].user = owner[dev[d].cmd]
    /\ dev[d].pc \in {"drawn", "control"} => dev[d].id \in Cmd

\* An entry that holds a command has a user.
EntriesWhole == \A n \in Cmd : mapCtrlAuth[n].user = NoUser => mapCtrlAuth[n].cmd = 0

\* CommandInOnePlace, with the messages counted by kind.
OnePlace == \A c \in Cmd :
    Cardinality(AtDevice(c)) + Count(mq, ControlsOf(c)) + Cardinality(InTable(c))
        + sent[c] + (IF c \in dropped THEN 1 ELSE 0)
      = IF owner[c] = NoUser THEN 0 ELSE 1

Counted(u) == {d \in Device : dev[d].pc \in {"counted", "drawn"} /\ dev[d].user = u}

IssuedBy(u) == {c \in Cmd : owner[c] = u}

\* A user is never asked about, and never answered for, more often than commands
\* were issued in the user's name.
RequestsCounted == \A u \in User :
    Cardinality(Counted(u)) + Count(mq, RequestsOf(u)) + asked[u] + Count(mq, AnswersOf(u))
        + handled[u] + unread[u]
      <= Cardinality(IssuedBy(u))

\* What "regular" says of the link.
LinkUp == mAuthServer /\ ~drops /\ At(mq, Reboots) = {}

\* A command is its own number.
OwnNumber ==
    /\ \A d \in Device : dev[d].pc \in {"drawn", "control"} => dev[d].id = dev[d].cmd
    /\ \A i \in DOMAIN mq :
        /\ mq[i].what = "authentication_request" => mq[i].user = owner[mq[i].id]
        /\ mq[i].what = "amx_control_request" => mq[i].id = mq[i].cmd
    /\ \A n \in Cmd : mapCtrlAuth[n] # NoEntry =>
           mapCtrlAuth[n].user = owner[n] /\ mapCtrlAuth[n].cmd \in {0, n}

AsksAt(c) == {d \in Device : dev[d].pc \in {"counted", "drawn"} /\ dev[d].cmd = c}

\* The authentication of command c has not been decided.
Waiting(c) == AsksAt(c) # {} \/ At(mq, AsksOf(c)) # {} \/ mapCtrlAuth[c] # NoEntry

\* Each command is asked for once: by its thread, by a message, or in the table.
AsksOnce == \A c \in Cmd :
    /\ AsksAt(c) # {} => At(mq, AsksOf(c)) = {}
    /\ AsksAt(c) # {} \/ At(mq, AsksOf(c)) # {} => mapCtrlAuth[c] = NoEntry
    /\ \A i, j \in At(mq, AsksOf(c)) : i = j

\* The queue keeps the request in front of the command.
AsksFirst == \A c \in Cmd : \A i \in At(mq, ControlsOf(c)), j \in At(mq, AsksOf(c)) : j < i

\* A command that was sent had been decided.
SentDecided == \A c \in Cmd : sent[c] > 0 => ~Waiting(c)

\* EntriesAwaitAnswers, with the messages counted by kind.
EntriesMatch == \A u \in User : Cardinality(Entries(u)) = asked[u] + Count(mq, AnswersOf(u))

Approved(u) == {c \in Cmd : owner[c] = u /\ ~Waiting(c) /\ c \notin dropped}

\* Only an answer, or a request that could not be read, lets a command pass.
ApprovedByAnswers == \A u \in User : Cardinality(Approved(u)) <= handled[u] + unread[u]

\* While no number was given twice, whatever becomes of the link.
Unshared == ~shared => OwnNumber /\ AsksOnce /\ AsksFirst /\ lost = {}

\* While the link has held, too.
Regular == regular => ~shared /\ LinkUp /\ SentDecided /\ EntriesMatch /\ ApprovedByAnswers

AmxInv ==
    /\ Shape
    /\ Numbered
    /\ DevicesWhole
    /\ EntriesWhole
    /\ OnePlace
    /\ RequestsCounted
    /\ Unshared
    /\ Regular

-----------------------------------------------------------------------------
(* Sets of commands and of devices *)

\* They are finite.
LEMMA SubsetsFinite ==
    /\ \A S \in SUBSET Cmd : IsFiniteSet(S) /\ Cardinality(S) \in 0..MaxCmd
    /\ \A S \in SUBSET Device : IsFiniteSet(S) /\ Cardinality(S) \in Nat
<1>1. IsFiniteSet(Cmd) /\ Cardinality(Cmd) = MaxCmd
  BY FS_Interval, AmxConstantsOK DEF Cmd
<1>2. IsFiniteSet(Device)
  BY AmxConstantsOK
<1>3. ASSUME NEW S \in SUBSET Cmd
      PROVE  IsFiniteSet(S) /\ Cardinality(S) \in 0..MaxCmd
  <2>1. IsFiniteSet(S) /\ Cardinality(S) <= Cardinality(Cmd)
    BY <1>1, FS_Subset
  <2> QED
    BY <1>1, <2>1, FS_CardinalityType
<1>4. ASSUME NEW S \in SUBSET Device
      PROVE  IsFiniteSet(S) /\ Cardinality(S) \in Nat
  <2>1. IsFiniteSet(S)
    BY <1>2, FS_Subset
  <2> QED
    BY <2>1, FS_CardinalityType
<1> QED
  BY <1>3, <1>4

\* Two sets that agree but for one element.
LEMMA DifferAt ==
    ASSUME NEW S, NEW T, NEW x, IsFiniteSet(S), T \ {x} = S \ {x}
    PROVE  /\ IsFiniteSet(T)
           /\ Cardinality(T) + (IF x \in S THEN 1 ELSE 0)
                = Cardinality(S) + (IF x \in T THEN 1 ELSE 0)
<1>1. IsFiniteSet(S \ {x}) /\ Cardinality(S) \in Nat /\ Cardinality(S \ {x}) \in Nat
  BY FS_RemoveElement, FS_CardinalityType
<1>2. Cardinality(S) = Cardinality(S \ {x}) + (IF x \in S THEN 1 ELSE 0)
  BY <1>1, FS_RemoveElement
<1>3. CASE x \in T
  <2>1. T = (S \ {x}) \cup {x}
    BY <1>3
  <2>2. IsFiniteSet(T) /\ Cardinality(T) = Cardinality(S \ {x}) + 1
    BY <1>1, <2>1, FS_AddElement
  <2> QED
    BY <1>1, <1>2, <1>3, <2>2
<1>4. CASE x \notin T
  <2>1. T = S \ {x}
    BY <1>4
  <2> QED
    BY <1>1, <1>2, <1>4, <2>1
<1> QED
  BY <1>3, <1>4

\* As many commands were issued as were numbered.
LEMMA IssuedIsSeq ==
    ASSUME Shape, Numbered
    PROVE  Issued = seq
<1>1. seq \in Nat /\ seq <= MaxCmd
  BY AmxConstantsOK DEF Shape
<1>2. {c \in Cmd : owner[c] # NoUser} = {c \in Cmd : c <= seq}
  BY DEF Numbered
<1>3. {c \in Cmd : c <= seq} = 1..seq
  BY <1>1, AmxConstantsOK DEF Cmd
<1>4. Cardinality(1..seq) = seq
  BY <1>1, FS_Interval
<1> QED
  BY <1>2, <1>3, <1>4 DEF Issued

\* The numbers that OnePlace and RequestsCounted add up.
LEMMA CountsNat ==
    ASSUME Shape
    PROVE  /\ \A c \in Cmd : /\ Cardinality(AtDevice(c)) \in Nat
                             /\ Count(mq, ControlsOf(c)) \in Nat
                             /\ Cardinality(InTable(c)) \in Nat
                             /\ sent[c] \in Nat
           /\ \A u \in User : /\ Cardinality(Counted(u)) \in Nat
                              /\ Count(mq, RequestsOf(u)) \in Nat
                              /\ Count(mq, AnswersOf(u)) \in Nat
                              /\ asked[u] \in Nat /\ handled[u] \in Nat /\ unread[u] \in Nat
                              /\ Cardinality(IssuedBy(u)) \in 0..MaxCmd
                              /\ Cardinality(Entries(u)) \in Nat
                              /\ Cardinality(Approved(u)) \in Nat
<1>1. \A c : AtDevice(c) \in SUBSET Device /\ InTable(c) \in SUBSET Cmd
  BY DEF AtDevice, InTable
<1>2. \A u : /\ Counted(u) \in SUBSET Device /\ IssuedBy(u) \in SUBSET Cmd
             /\ Entries(u) \in SUBSET Cmd /\ Approved(u) \in SUBSET Cmd
  BY DEF Counted, IssuedBy, Entries, Approved
<1>3. MaxCmd \in Nat
  BY AmxConstantsOK
<1> QED
  BY <1>1, <1>2, <1>3, SubsetsFinite, CountType DEF Shape

-----------------------------------------------------------------------------
(* What the invariant says of the properties *)

\* The messages of a kind, as AmxControl counts them.
LEMMA QueuedAre ==
    ASSUME mq \in Seq(Message)
    PROVE  /\ \A c : InMessage(c) = At(mq, ControlsOf(c))
           /\ \A u : AnswersQueued(u) = At(mq, AnswersOf(u))
<1>1. \A i \in DOMAIN mq : mq[i] \in Message
  BY ElementOfSeq, LenProperties
<1> QED
  BY <1>1 DEF InMessage, AnswersQueued, At, ControlsOf, AnswersOf

\* Whether a command was dropped, as a number.
LEMMA DroppedIs ==
    \A c : Cardinality(dropped \cap {c}) = IF c \in dropped THEN 1 ELSE 0
<1> TAKE c
<1>1. CASE c \in dropped
  <2>1. dropped \cap {c} = {c}
    BY <1>1
  <2> QED
    BY <1>1, <2>1, FS_Singleton
<1>2. CASE c \notin dropped
  <2>1. dropped \cap {c} = {}
    BY <1>2
  <2> QED
    BY <1>2, <2>1, FS_EmptySet
<1> QED
  BY <1>1, <1>2

\* The four properties follow from the invariant.
LEMMA AmxProperties ==
    ASSUME AmxInv
    PROVE  TypeOK /\ CommandInOnePlace /\ EntriesAwaitAnswers /\ AnsweredFirst
<1> USE DEF AmxInv
<1>1. MaxCmd \in Nat
  BY AmxConstantsOK
<1>2. CommandInOnePlace
  <2> SUFFICES ASSUME NEW c \in Cmd
               PROVE  Places(c) = IF owner[c] = NoUser THEN 0 ELSE 1
    BY DEF CommandInOnePlace, Unshared
  <2>1. Cardinality(InMessage(c)) = Count(mq, ControlsOf(c))
    BY QueuedAre DEF Count, Shape
  <2>2. Cardinality(dropped \cap {c}) = IF c \in dropped THEN 1 ELSE 0
    BY DroppedIs
  <2> QED
    BY <2>1, <2>2 DEF OnePlace, Places
<1>3. EntriesAwaitAnswers
  BY QueuedAre DEF EntriesMatch, EntriesAwaitAnswers, Regular, Count, Shape
<1>4. ASSUME NEW c \in Cmd
      PROVE  sent[c] \in 0..1 /\ (sent[c] > 0 => c \notin dropped)
  <2>1. Cardinality(AtDevice(c)) + Count(mq, ControlsOf(c)) + Cardinality(InTable(c))
          + sent[c] + (IF c \in dropped THEN 1 ELSE 0) \in {0, 1}
    BY DEF OnePlace
  <2>2. /\ Cardinality(AtDevice(c)) \in Nat /\ Count(mq, ControlsOf(c)) \in Nat
        /\ Cardinality(InTable(c)) \in Nat /\ sent[c] \in Nat
    BY CountsNat
  <2> QED
    BY ONLY <2>1, <2>2
<1>5. \A u \in User : asked[u] \in 0..MaxCmd /\ handled[u] \in 0..MaxCmd /\ unread[u] \in 0..MaxCmd
  <2> SUFFICES ASSUME NEW u \in User
               PROVE  asked[u] \in 0..MaxCmd /\ handled[u] \in 0..MaxCmd /\ unread[u] \in 0..MaxCmd
    OBVIOUS
  <2>1. Cardinality(Counted(u)) + Count(mq, RequestsOf(u)) + asked[u] + Count(mq, AnswersOf(u))
          + handled[u] + unread[u] <= Cardinality(IssuedBy(u))
    BY DEF RequestsCounted
  <2> QED
    BY <1>1, <2>1, CountsNat
<1>6. TypeOK
  BY <1>4, <1>5 DEF Shape, TypeOK
<1>7. AnsweredFirst
  <2> SUFFICES ASSUME regular, NEW u \in User
               PROVE  Cardinality({c \in Cmd : owner[c] = u /\ sent[c] > 0}) <= handled[u] + unread[u]
    BY DEF AnsweredFirst
  <2>1. \A c \in Cmd : sent[c] > 0 => ~Waiting(c) /\ c \notin dropped
    BY <1>4 DEF Regular, SentDecided
  <2>2. {c \in Cmd : owner[c] = u /\ sent[c] > 0} \in SUBSET Approved(u)
    BY <2>1 DEF Approved
  <2>3. Approved(u) \in SUBSET Cmd
    BY DEF Approved
  <2>4. Cardinality({c \in Cmd : owner[c] = u /\ sent[c] > 0}) <= Cardinality(Approved(u))
    BY <2>2, <2>3, SubsetsFinite, FS_Subset
  <2>5. /\ Cardinality({c \in Cmd : owner[c] = u /\ sent[c] > 0}) \in Nat
        /\ Cardinality(Approved(u)) \in Nat /\ handled[u] \in Nat /\ unread[u] \in Nat
    BY <1>1, SubsetsFinite, CountsNat
  <2> QED
    BY <2>4, <2>5 DEF Regular, ApprovedByAnswers
<1> QED
  BY <1>2, <1>3, <1>6, <1>7

-----------------------------------------------------------------------------
(* The initial state *)

\* It satisfies the invariant.
LEMMA AmxInit == Init => AmxInv
<1> SUFFICES ASSUME Init
             PROVE  AmxInv
  OBVIOUS
<1> USE DEF Init
<1>1. mq = <<>> /\ mq \in Seq(Message) /\ Len(mq) = 0
  BY EmptySeq
<1>2. Shape
  <2>1. Idle \in DeviceState /\ NoEntry \in [user : User \cup {NoUser}, cmd : 0..MaxCmd]
    BY AmxConstantsOK DEF Idle, DeviceState, NoEntry
  <2>2. /\ seq \in 0..MaxCmd /\ link \in 0..MaxLink /\ mAmxBox \in 0..MaxBox
        /\ alive \in Nat /\ Len(mq) + alive <= QCap
    BY <1>1, AmxConstantsOK
  <2>3. /\ dev \in [Device -> DeviceState]
        /\ mapCtrlAuth \in [Cmd -> [user : User \cup {NoUser}, cmd : 0..MaxCmd]]
        /\ asked \in [User -> Nat] /\ handled \in [User -> Nat] /\ sent \in [Cmd -> Nat]
        /\ unread \in [User -> Nat]
        /\ owner \in [Cmd -> User \cup {NoUser}]
    BY <2>1
  <2> QED
    BY <1>1, <2>2, <2>3 DEF Shape
<1>3. \A S : At(mq, S) = {} /\ Count(mq, S) = 0
  <2>1. DOMAIN mq = {}
    BY <1>1, LenProperties
  <2>2. \A S : At(mq, S) = {}
    BY <2>1 DEF At
  <2> QED
    BY <2>2, FS_EmptySet DEF Count
<1>4. \A d \in Device : dev[d].pc = "idle"
  BY DEF Idle
<1>5. /\ \A c \in Cmd : AtDevice(c) = {} /\ InTable(c) = {} /\ AsksAt(c) = {}
      /\ \A u \in User : Counted(u) = {} /\ IssuedBy(u) = {} /\ Entries(u) = {} /\ Approved(u) = {}
  BY <1>4, AmxConstantsOK
     DEF AtDevice, InTable, AsksAt, Counted, IssuedBy, Entries, Approved, NoEntry, Cmd
<1>6. Numbered /\ DevicesWhole /\ EntriesWhole
  BY <1>4, AmxConstantsOK DEF Numbered, DevicesWhole, EntriesWhole, NoEntry, Cmd
<1>7. Cardinality({}) = 0
  BY FS_EmptySet
<1>8. OnePlace /\ RequestsCounted
  <2>1. ASSUME NEW c \in Cmd
        PROVE  /\ Cardinality(AtDevice(c)) = 0 /\ Count(mq, ControlsOf(c)) = 0
               /\ Cardinality(InTable(c)) = 0
               /\ sent[c] = 0 /\ c \notin dropped /\ owner[c] = NoUser
    BY <1>3, <1>5, <1>7
  <2>2. OnePlace
    BY <2>1 DEF OnePlace
  <2>3. ASSUME NEW u \in User
        PROVE  /\ Cardinality(Counted(u)) = 0 /\ Count(mq, RequestsOf(u)) = 0
               /\ asked[u] = 0 /\ Count(mq, AnswersOf(u)) = 0 /\ handled[u] = 0 /\ unread[u] = 0
               /\ Cardinality(IssuedBy(u)) = 0
    BY <1>3, <1>5, <1>7
  <2>4. RequestsCounted
    BY <2>3 DEF RequestsCounted
  <2> QED
    BY <2>2, <2>4
<1>9. Unshared /\ Regular
  <2>1. regular => LinkUp
    BY <1>3 DEF LinkUp
  <2>2. OwnNumber
    BY <1>1, <1>4, LenProperties DEF OwnNumber
  <2>3. AsksOnce /\ AsksFirst /\ SentDecided
    BY <1>3, <1>5 DEF AsksOnce, AsksFirst, SentDecided
  <2>4. ASSUME NEW u \in User
        PROVE  /\ Cardinality(Entries(u)) = 0 /\ asked[u] = 0 /\ Count(mq, AnswersOf(u)) = 0
               /\ Cardinality(Approved(u)) = 0 /\ handled[u] = 0 /\ unread[u] = 0
    BY <1>3, <1>5, <1>7
  <2>5. EntriesMatch /\ ApprovedByAnswers
    BY <2>4 DEF EntriesMatch, ApprovedByAnswers
  <2> QED
    BY <2>1, <2>2, <2>3, <2>5 DEF Unshared, Regular
<1> QED
  BY <1>2, <1>6, <1>8, <1>9 DEF AmxInv

-----------------------------------------------------------------------------
(* Steps that move no command *)

\* A step that changes only the link, the boxes or the CONNECT_ALIVE messages, or
\* loses answers when the link was not regular.
LEMMA QuietKeeps ==
    ASSUME AmxInv, Shape', UNCHANGED <<mq, deviceVars, mapCtrlAuth, fateVars, answerVars>>,
           \A u \in User : asked'[u] <= asked[u],
           regular' => regular /\ mAuthServer' /\ ~drops' /\ UNCHANGED asked
    PROVE  AmxInv'
<1> USE DEF AmxInv, deviceVars, fateVars, answerVars
<1>1. Numbered' /\ DevicesWhole' /\ EntriesWhole'
  BY DEF Numbered, DevicesWhole, EntriesWhole
<1>2. OnePlace'
  BY DEF OnePlace, AtDevice, InTable
<1>3. \A u \in User : Counted(u)' = Counted(u) /\ IssuedBy(u)' = IssuedBy(u)
  BY DEF Counted, IssuedBy
<1>4. RequestsCounted'
  <2> SUFFICES ASSUME NEW u \in User
               PROVE  Cardinality(Counted(u)) + Count(mq, RequestsOf(u)) + asked'[u]
                        + Count(mq, AnswersOf(u)) + handled[u] + unread[u] <= Cardinality(IssuedBy(u))
    BY <1>3 DEF RequestsCounted
  <2>1. Cardinality(Counted(u)) + Count(mq, RequestsOf(u)) + asked[u] + Count(mq, AnswersOf(u))
          + handled[u] + unread[u] <= Cardinality(IssuedBy(u))
    BY DEF RequestsCounted
  <2>2. asked'[u] \in Nat /\ asked[u] \in Nat /\ asked'[u] <= asked[u] /\ MaxCmd \in Nat
    BY AmxConstantsOK DEF Shape
  <2> QED
    BY <2>1, <2>2, CountsNat
<1>5. \A c : Waiting(c)' = Waiting(c)
  BY DEF Waiting, AsksAt
<1>6. Unshared'
  BY DEF Unshared, OwnNumber, AsksOnce, AsksAt, AsksFirst
<1>7. Regular'
  <2> SUFFICES ASSUME regular'
               PROVE  LinkUp' /\ SentDecided' /\ EntriesMatch' /\ ApprovedByAnswers'
    BY DEF Regular
  <2>1. LinkUp' /\ SentDecided'
    BY <1>5 DEF Regular, LinkUp, SentDecided
  <2>2. \A u : Entries(u)' = Entries(u) /\ Approved(u)' = Approved(u)
    BY <1>5 DEF Entries, Approved
  <2>3. EntriesMatch' /\ ApprovedByAnswers'
    BY <2>2 DEF Regular, EntriesMatch, ApprovedByAnswers
  <2> QED
    BY <2>1, <2>3
<1> QED
  BY <1>1, <1>2, <1>4, <1>6, <1>7

\* The servers' own threads, the timer that drops the authentication server, and the
\* environment, as far as they send nothing to the controller.
LEMMA QuietSteps ==
    ASSUME AmxInv,
           \/ UNCHANGED vars \/ TakeAlive \/ ControllerSendsAlive
           \/ onBind \/ onUnbind \/ onTimerDrops \/ AnswersAreLost
           \/ \E b \in 1..MaxBox : onClientConnect(b) \/ onClientDisconnect(b)
    PROVE  AmxInv'
<1> USE DEF AmxInv, authVars, boxVars, answerVars
<1>1. Len(mq) \in Nat /\ QCap \in Nat /\ alive \in Nat /\ MaxLink \in Nat /\ MaxBox \in Nat
  BY LenProperties, AmxConstantsOK DEF Shape
<1>2. asked \in [User -> Nat] /\ \A u \in User : asked[u] <= asked[u]
  BY DEF Shape
<1>3. regular => mAuthServer /\ ~drops
  BY DEF Regular, LinkUp
<1>4. CASE UNCHANGED vars
  <2>1. Shape'
    BY <1>4 DEF vars, Shape
  <2> QED
    BY <1>2, <1>3, <1>4, <2>1, QuietKeeps DEF vars, deviceVars, fateVars, answerVars
<1>5. CASE TakeAlive
  <2>1. Shape'
    BY <1>1, <1>5 DEF TakeAlive, deviceVars, fateVars, answerVars, Shape
  <2> QED
    BY <1>2, <1>3, <1>5, <2>1, QuietKeeps DEF TakeAlive
<1>6. CASE ControllerSendsAlive
  <2>1. Shape'
    BY <1>1, <1>6 DEF ControllerSendsAlive, sendAlive, Room, deviceVars, fateVars, answerVars, Shape
  <2> QED
    BY <1>2, <1>3, <1>6, <2>1, QuietKeeps DEF ControllerSendsAlive
<1>7. CASE onBind
  <2>1. Shape'
    BY <1>1, <1>7 DEF onBind, deviceVars, fateVars, answerVars, Shape
  <2> QED
    BY <1>2, <1>3, <1>7, <2>1, QuietKeeps DEF onBind
<1>8. CASE onUnbind
  <2>1. Shape'
    BY <1>8 DEF onUnbind, deviceVars, fateVars, answerVars, Shape
  <2> QED
    BY <1>2, <1>8, <2>1, QuietKeeps DEF onUnbind
<1>9. CASE onTimerDrops
  <2>1. Shape'
    BY <1>9 DEF onTimerDrops, deviceVars, fateVars, answerVars, Shape
  <2> QED
    BY <1>2, <1>3, <1>9, <2>1, QuietKeeps DEF onTimerDrops
<1>10. CASE AnswersAreLost
  <2>1. Shape'
    BY <1>10 DEF AnswersAreLost, deviceVars, fateVars, answerVars, Shape
  <2>2. \A u \in User : asked'[u] <= asked[u]
    BY <1>10 DEF AnswersAreLost, Shape
  <2> QED
    BY <1>10, <2>1, <2>2, QuietKeeps DEF AnswersAreLost
<1>11. ASSUME NEW b \in 1..MaxBox, onClientConnect(b) \/ onClientDisconnect(b)
       PROVE  AmxInv'
  <2>1. mAmxBox' \in 0..MaxBox /\ boxes' \subseteq 1..MaxBox
    <3>1. b \in 0..MaxBox /\ 0 \in 0..MaxBox
      BY <1>1
    <3> QED
      BY <1>11, <3>1 DEF onClientConnect, onClientDisconnect, Shape
  <2>2. Shape'
    BY <1>11, <2>1 DEF onClientConnect, onClientDisconnect, deviceVars, fateVars, answerVars, Shape
  <2> QED
    BY <1>2, <1>3, <1>11, <2>2, QuietKeeps DEF onClientConnect, onClientDisconnect
<1> QED
  BY <1>4, <1>5, <1>6, <1>7, <1>8, <1>9, <1>10, <1>11

-----------------------------------------------------------------------------
(* The receive threads of the device server *)

\* Device d goes to state r.
Goes(d, r) == dev' = [dev EXCEPT ![d] = r]

\* What changes in the state of the devices when one device takes a step, ...
LEMMA DeviceStep ==
    ASSUME Shape, NEW d \in Device, NEW r \in DeviceState, Goes(d, r)
    PROVE  /\ dev' \in [Device -> DeviceState]
           /\ \A e \in Device : dev'[e] = IF e = d THEN r ELSE dev[e]
BY DEF Shape, Goes

\* ... in the devices that hold a command ...
LEMMA AtDeviceStep ==
    ASSUME Shape, NEW d \in Device, NEW r \in DeviceState, Goes(d, r), NEW c
    PROVE  /\ Cardinality(AtDevice(c)') \in Nat
           /\ Cardinality(AtDevice(c)')
                + (IF dev[d].pc \in {"counted", "drawn", "control"} /\ dev[d].cmd = c THEN 1 ELSE 0)
              = Cardinality(AtDevice(c))
                + (IF r.pc \in {"counted", "drawn", "control"} /\ r.cmd = c THEN 1 ELSE 0)
<1>1. \A e \in Device : dev'[e] = IF e = d THEN r ELSE dev[e]
  BY DeviceStep
<1>2. AtDevice(c) \in SUBSET Device /\ AtDevice(c)' \in SUBSET Device
  BY DEF AtDevice
<1>3. AtDevice(c)' \ {d} = AtDevice(c) \ {d}
  BY <1>1 DEF AtDevice
<1>4. /\ d \in AtDevice(c) <=> dev[d].pc \in {"counted", "drawn", "control"} /\ dev[d].cmd = c
      /\ d \in AtDevice(c)' <=> r.pc \in {"counted", "drawn", "control"} /\ r.cmd = c
  BY <1>1 DEF AtDevice
<1>5. IsFiniteSet(AtDevice(c)) /\ Cardinality(AtDevice(c)') \in Nat
  BY <1>2, SubsetsFinite
<1> QED
  BY <1>3, <1>4, <1>5, DifferAt

\* ... and in those that have counted and not yet asked.
LEMMA CountedStep ==
    ASSUME Shape, NEW d \in Device, NEW r \in DeviceState, Goes(d, r), NEW u
    PROVE  /\ Cardinality(Counted(u)') \in Nat
           /\ Cardinality(Counted(u)')
                + (IF dev[d].pc \in {"counted", "drawn"} /\ dev[d].user = u THEN 1 ELSE 0)
              = Cardinality(Counted(u))
                + (IF r.pc \in {"counted", "drawn"} /\ r.user = u THEN 1 ELSE 0)
<1>1. \A e \in Device : dev'[e] = IF e = d THEN r ELSE dev[e]
  BY DeviceStep
<1>2. Counted(u) \in SUBSET Device /\ Counted(u)' \in SUBSET Device
  BY DEF Counted
<1>3. Counted(u)' \ {d} = Counted(u) \ {d}
  BY <1>1 DEF Counted
<1>4. /\ d \in Counted(u) <=> dev[d].pc \in {"counted", "drawn"} /\ dev[d].user = u
      /\ d \in Counted(u)' <=> r.pc \in {"counted", "drawn"} /\ r.user = u
  BY <1>1 DEF Counted
<1>5. IsFiniteSet(Counted(u)) /\ Cardinality(Counted(u)') \in Nat
  BY <1>2, SubsetsFinite
<1> QED
  BY <1>3, <1>4, <1>5, DifferAt

\* A command at a device is nowhere else.
LEMMA OnlyAtDevice ==
    ASSUME AmxInv, NEW c \in Cmd, NEW d \in AtDevice(c)
    PROVE  /\ AtDevice(c) = {d} /\ Cardinality(AtDevice(c)) = 1
           /\ Count(mq, ControlsOf(c)) = 0
           /\ At(mq, ControlsOf(c)) = {}
           /\ Cardinality(InTable(c)) = 0 /\ sent[c] = 0 /\ c \notin dropped
           /\ owner[c] # NoUser
<1>1. IsFiniteSet(AtDevice(c))
  <2>1. AtDevice(c) \in SUBSET Device
    BY DEF AtDevice
  <2> QED
    BY <2>1, SubsetsFinite
<1>2. Cardinality(AtDevice(c)) # 0
  BY <1>1, FS_EmptySet
<1>3. /\ Cardinality(AtDevice(c)) \in Nat /\ Count(mq, ControlsOf(c)) \in Nat
      /\ Cardinality(InTable(c)) \in Nat /\ sent[c] \in Nat
  BY CountsNat DEF AmxInv
<1>4. Cardinality(AtDevice(c)) + Count(mq, ControlsOf(c)) + Cardinality(InTable(c))
        + sent[c] + (IF c \in dropped THEN 1 ELSE 0) = IF owner[c] = NoUser THEN 0 ELSE 1
  BY DEF AmxInv, OnePlace
<1>5. /\ Cardinality(AtDevice(c)) = 1 /\ Count(mq, ControlsOf(c)) = 0
      /\ Cardinality(InTable(c)) = 0 /\ sent[c] = 0 /\ c \notin dropped /\ owner[c] # NoUser
  BY <1>2, <1>3, <1>4
<1>6. \E e : AtDevice(c) = {e}
  BY <1>1, <1>5, FS_Singleton
<1>7. At(mq, ControlsOf(c)) = {}
  BY <1>5, CountType DEF AmxInv, Shape
<1> QED
  BY <1>5, <1>6, <1>7

\* A command that was not issued is not waited for.
LEMMA FreshNotWaiting ==
    ASSUME AmxInv, ~shared, NEW c \in Cmd, owner[c] = NoUser
    PROVE  ~Waiting(c)
<1> USE DEF AmxInv, Unshared
<1>1. AsksAt(c) = {}
  BY AmxConstantsOK DEF DevicesWhole, AsksAt
<1>2. At(mq, AsksOf(c)) = {}
  <2> SUFFICES ASSUME NEW i \in At(mq, AsksOf(c))
               PROVE  FALSE
    OBVIOUS
  <2>1. i \in DOMAIN mq /\ mq[i] \in Message /\ mq[i].what = "authentication_request" /\ mq[i].id = c
    BY DEF At, AsksOf
  <2>2. mq[i].user \in User
    BY <2>1, MessageKinds
  <2>3. mq[i].user = owner[c]
    BY <2>1 DEF OwnNumber
  <2> QED
    BY <2>2, <2>3, AmxConstantsOK
<1>3. mapCtrlAuth[c] = NoEntry
  <2> SUFFICES ASSUME mapCtrlAuth[c] # NoEntry
               PROVE  FALSE
    OBVIOUS
  <2>1. mapCtrlAuth[c].user = NoUser /\ mapCtrlAuth[c].cmd = 0
    BY DEF OwnNumber, EntriesWhole
  <2>2. mapCtrlAuth[c] \in [user : User \cup {NoUser}, cmd : 0..MaxCmd]
    BY DEF Shape
  <2> QED
    BY <2>1, <2>2 DEF NoEntry
<1> QED
  BY <1>1, <1>2, <1>3 DEF Waiting

\* Fewer approved commands need no further answer.
LEMMA ApprovedShrinks ==
    ASSUME Shape, ApprovedByAnswers, UNCHANGED answerVars,
           \A u \in User : Approved(u)' \in SUBSET Approved(u)
    PROVE  ApprovedByAnswers'
<1> SUFFICES ASSUME NEW u \in User
             PROVE  Cardinality(Approved(u)') <= handled[u] + unread[u]
  BY DEF ApprovedByAnswers, answerVars
<1>1. Approved(u) \in SUBSET Cmd /\ Approved(u)' \in SUBSET Cmd
  BY DEF Approved
<1>2. /\ IsFiniteSet(Approved(u)) /\ Cardinality(Approved(u)) \in Nat
      /\ Cardinality(Approved(u)') \in Nat
  BY <1>1, SubsetsFinite, AmxConstantsOK
<1>3. Cardinality(Approved(u)') <= Cardinality(Approved(u))
  BY <1>2, FS_Subset
<1>4. /\ Cardinality(Approved(u)) <= handled[u] + unread[u]
      /\ handled[u] \in Nat /\ unread[u] \in Nat
  BY DEF ApprovedByAnswers, Shape
<1> QED
  BY <1>2, <1>3, <1>4

\* getSequence: a new command, numbered and kept by its thread.
LEMMA IncrementsKeeps ==
    ASSUME AmxInv, NEW d \in Device, NEW u \in User, Increments(d, u)
    PROVE  AmxInv'
<1> USE DEF AmxInv, authVars, boxVars, fateVars, answerVars
<1> SUFFICES ASSUME NEW k, NEW r, k = seq + 1,
                    r = [pc |-> "counted", cmd |-> k, id |-> 0, user |-> u]
             PROVE  AmxInv'
  OBVIOUS
<1>1. Issued = seq
  BY IssuedIsSeq
<1>2. /\ dev[d].pc = "idle" /\ seq < MaxCmd /\ seq' = k
      /\ owner' = [owner EXCEPT ![k] = u]
      /\ dev' = [dev EXCEPT ![d] = r]
      /\ UNCHANGED <<mq, alive, mapCtrlAuth, ctl, mAuthServer, asked, drops, link, mAmxBox,
                     boxes, shared, sent, dropped, lost, handled, unread, regular>>
  BY <1>1 DEF Increments
<1>3. k \in Cmd /\ k \in 0..MaxCmd /\ 0 \in 0..MaxCmd /\ seq \in 0..MaxCmd
  BY <1>2, AmxConstantsOK DEF Cmd, Shape
<1>4. r \in DeviceState /\ r.pc = "counted" /\ r.cmd = k /\ r.user = u
  BY <1>3 DEF DeviceState
<1>5. owner[k] = NoUser /\ u # NoUser
  BY <1>3, AmxConstantsOK DEF Numbered
<1>6. /\ owner' \in [Cmd -> User \cup {NoUser}] /\ owner'[k] = u
      /\ \A c \in Cmd \ {k} : owner'[c] = owner[c]
  BY <1>2, <1>3 DEF Shape
<1>7. /\ dev' \in [Device -> DeviceState]
      /\ \A e \in Device : dev'[e] = IF e = d THEN r ELSE dev[e]
      /\ \A c : /\ Cardinality(AtDevice(c)') \in Nat
                /\ Cardinality(AtDevice(c)')
                     = Cardinality(AtDevice(c)) + (IF k = c THEN 1 ELSE 0)
      /\ \A v : /\ Cardinality(Counted(v)') \in Nat
                /\ Cardinality(Counted(v)')
                     = Cardinality(Counted(v)) + (IF u = v THEN 1 ELSE 0)
  <2>1. Goes(d, r)
    BY <1>2 DEF Goes
  <2>2. /\ dev' \in [Device -> DeviceState]
        /\ \A e \in Device : dev'[e] = IF e = d THEN r ELSE dev[e]
    BY <1>4, <2>1, DeviceStep
  <2>3. ASSUME NEW c
        PROVE  /\ Cardinality(AtDevice(c)') \in Nat
               /\ Cardinality(AtDevice(c)')
                    = Cardinality(AtDevice(c)) + (IF k = c THEN 1 ELSE 0)
    <3>1. /\ Cardinality(AtDevice(c)') \in Nat
          /\ Cardinality(AtDevice(c)')
                 + (IF dev[d].pc \in {"counted", "drawn", "control"} /\ dev[d].cmd = c THEN 1 ELSE 0)
               = Cardinality(AtDevice(c))
                 + (IF r.pc \in {"counted", "drawn", "control"} /\ r.cmd = c THEN 1 ELSE 0)
      BY <1>4, <2>1, AtDeviceStep
    <3> QED
      BY <1>2, <1>4, <3>1
  <2>4. ASSUME NEW v
        PROVE  /\ Cardinality(Counted(v)') \in Nat
               /\ Cardinality(Counted(v)')
                    = Cardinality(Counted(v)) + (IF u = v THEN 1 ELSE 0)
    <3>1. /\ Cardinality(Counted(v)') \in Nat
          /\ Cardinality(Counted(v)')
                 + (IF dev[d].pc \in {"counted", "drawn"} /\ dev[d].user = v THEN 1 ELSE 0)
               = Cardinality(Counted(v)) + (IF r.pc \in {"counted", "drawn"} /\ r.user = v THEN 1 ELSE 0)
      BY <1>4, <2>1, CountedStep
    <3> QED
      BY <1>2, <1>4, <3>1
  <2> QED
    BY <2>2, <2>3, <2>4
<1>8. Shape'
  BY <1>2, <1>3, <1>6, <1>7 DEF Shape
<1>9. Numbered'
  <2>1. \A c \in Cmd : c <= k <=> c <= seq \/ c = k
    BY <1>3 DEF Cmd
  <2> QED
    BY <1>2, <1>5, <1>6, <2>1 DEF Numbered
<1>10. DevicesWhole'
  <2> SUFFICES ASSUME NEW e \in Device
               PROVE  DevicesWhole!(e)'
    BY DEF DevicesWhole
  <2>1. CASE e = d
    BY <1>3, <1>4, <1>6, <1>7, <2>1
  <2>2. CASE e # d
    BY <1>5, <1>6, <1>7, <2>2, AmxConstantsOK DEF DevicesWhole
  <2> QED
    BY <2>1, <2>2
<1>11. EntriesWhole'
  BY <1>2 DEF EntriesWhole
<1>12. OnePlace'
  <2> SUFFICES ASSUME NEW c \in Cmd
               PROVE  Cardinality(AtDevice(c)') + Count(mq, ControlsOf(c)) + Cardinality(InTable(c))
                        + sent[c] + (IF c \in dropped THEN 1 ELSE 0)
                        = IF owner'[c] = NoUser THEN 0 ELSE 1
    BY <1>2 DEF OnePlace, InTable
  <2>1. /\ Cardinality(AtDevice(c)) \in Nat /\ Count(mq, ControlsOf(c)) \in Nat
        /\ Cardinality(InTable(c)) \in Nat /\ sent[c] \in Nat
    BY CountsNat
  <2>2. Cardinality(AtDevice(c)) + Count(mq, ControlsOf(c)) + Cardinality(InTable(c))
          + sent[c] + (IF c \in dropped THEN 1 ELSE 0) = IF owner[c] = NoUser THEN 0 ELSE 1
    BY DEF OnePlace
  <2>3. Cardinality(AtDevice(c)') = Cardinality(AtDevice(c)) + (IF k = c THEN 1 ELSE 0)
    BY <1>7
  <2>4. CASE c = k
    BY <1>5, <1>6, <2>1, <2>2, <2>3, <2>4
  <2>5. CASE c # k
    BY <1>6, <2>1, <2>2, <2>3, <2>5
  <2> QED
    BY <2>4, <2>5
<1>13. RequestsCounted'
  <2> SUFFICES ASSUME NEW v \in User
               PROVE  Cardinality(Counted(v)') + Count(mq, RequestsOf(v)) + asked[v]
                        + Count(mq, AnswersOf(v)) + handled[v] + unread[v] <= Cardinality(IssuedBy(v)')
    BY <1>2 DEF RequestsCounted
  <2>1. IssuedBy(v)' \ {k} = IssuedBy(v) \ {k} /\ IssuedBy(v) \in SUBSET Cmd
    BY <1>6 DEF IssuedBy
  <2>2. k \notin IssuedBy(v) /\ (k \in IssuedBy(v)' <=> u = v)
    BY <1>3, <1>5, <1>6, AmxConstantsOK DEF IssuedBy
  <2>3. Cardinality(IssuedBy(v)') + 0 = Cardinality(IssuedBy(v)) + (IF u = v THEN 1 ELSE 0)
    BY <2>1, <2>2, DifferAt, SubsetsFinite
  <2>4. Cardinality(Counted(v)) + Count(mq, RequestsOf(v)) + asked[v]
          + Count(mq, AnswersOf(v)) + handled[v] + unread[v] <= Cardinality(IssuedBy(v))
    BY DEF RequestsCounted
  <2>5. Cardinality(Counted(v)') = Cardinality(Counted(v)) + (IF u = v THEN 1 ELSE 0)
    BY <1>7
  <2>6. /\ Cardinality(Counted(v)) \in Nat /\ Count(mq, RequestsOf(v)) \in Nat
        /\ Count(mq, AnswersOf(v)) \in Nat /\ asked[v] \in Nat /\ handled[v] \in Nat /\ unread[v] \in Nat
        /\ Cardinality(IssuedBy(v)) \in Nat
    BY CountsNat, AmxConstantsOK
  <2>7. Cardinality(IssuedBy(v)') = Cardinality(IssuedBy(v)) + (IF u = v THEN 1 ELSE 0)
    <3>1. IssuedBy(v)' \in SUBSET Cmd
      BY DEF IssuedBy
    <3>2. Cardinality(IssuedBy(v)') \in Nat
      BY <3>1, SubsetsFinite, AmxConstantsOK
    <3> QED
      BY <2>3, <3>2
  <2> QED
    BY <2>4, <2>5, <2>6, <2>7
<1>14. Unshared' /\ Regular'
  <2> SUFFICES ASSUME ~shared
               PROVE  /\ OwnNumber' /\ AsksOnce' /\ AsksFirst' /\ lost' = {}
                      /\ regular' =>
                           LinkUp' /\ SentDecided' /\ EntriesMatch' /\ ApprovedByAnswers'
    BY <1>2 DEF Unshared, Regular
  <2>1. AsksFirst' /\ lost' = {}
    BY <1>2 DEF Unshared, AsksFirst
  <2>2. ~Waiting(k)
    BY <1>3, <1>5, FreshNotWaiting
  <2>3. OwnNumber'
    <3>1. \A e \in Device : dev'[e].pc \in {"drawn", "control"} => dev'[e].id = dev'[e].cmd
      BY <1>4, <1>7 DEF Unshared, OwnNumber
    <3>2. ASSUME NEW i \in DOMAIN mq, mq[i].what = "authentication_request"
          PROVE  mq[i].user = owner'[mq[i].id]
      <4>1. mq[i] \in Message
        BY ElementOfSeq, LenProperties DEF Shape
      <4>2. mq[i].id \in Cmd /\ mq[i].user \in User /\ mq[i].user = owner[mq[i].id]
        BY <3>2, <4>1, MessageKinds DEF Unshared, OwnNumber
      <4> QED
        BY <1>5, <1>6, <4>2, AmxConstantsOK
    <3>3. \A n \in Cmd : mapCtrlAuth[n] # NoEntry =>
              mapCtrlAuth[n].user = owner'[n] /\ mapCtrlAuth[n].cmd \in {0, n}
      BY <1>6, <2>2 DEF Unshared, OwnNumber, Waiting
    <3> QED
      BY <1>2, <3>1, <3>2, <3>3 DEF Unshared, OwnNumber
  <2>4. \A c : c # k => AsksAt(c)' = AsksAt(c)
    BY <1>2, <1>4, <1>7 DEF AsksAt
  <2>5. \A c : c # k => Waiting(c)' = Waiting(c)
    BY <1>2, <2>4 DEF Waiting
  <2>6. d \in AsksAt(k)'
    BY <1>4, <1>7 DEF AsksAt
  <2>7. AsksOnce'
    BY <1>2, <2>2, <2>4 DEF Unshared, AsksOnce, Waiting
  <2> SUFFICES ASSUME regular'
               PROVE  LinkUp' /\ SentDecided' /\ EntriesMatch' /\ ApprovedByAnswers'
    BY <2>1, <2>3, <2>7
  <2>8. SentDecided'
    <3>1. Cardinality(AtDevice(k)') \in Nat /\ sent[k] = 0
      <4>1. Cardinality(AtDevice(k)) + Count(mq, ControlsOf(k)) + Cardinality(InTable(k))
              + sent[k] + (IF k \in dropped THEN 1 ELSE 0) = 0
        BY <1>3, <1>5 DEF OnePlace
      <4>2. /\ Cardinality(AtDevice(k)) \in Nat /\ Count(mq, ControlsOf(k)) \in Nat
            /\ Cardinality(InTable(k)) \in Nat /\ sent[k] \in Nat
        BY <1>3, CountsNat
      <4> QED
        BY <1>7, <4>1, <4>2
    <3> QED
      BY <1>2, <2>5, <3>1 DEF Regular, SentDecided
  <2>10. LinkUp' /\ EntriesMatch'
    BY <1>2 DEF Regular, LinkUp, EntriesMatch, Entries
  <2>9. ApprovedByAnswers'
    <3>1. Waiting(k)'
      BY <2>6 DEF Waiting
    <3>2. \A v \in User : Approved(v)' \in SUBSET Approved(v)
      <4> SUFFICES ASSUME NEW v \in User, NEW c \in Approved(v)'
                   PROVE  c \in Approved(v)
        OBVIOUS
      <4>1. c \in Cmd /\ owner'[c] = v /\ ~Waiting(c)' /\ c \notin dropped
        BY <1>2 DEF Approved
      <4> QED
        BY <1>6, <2>5, <3>1, <4>1 DEF Approved
    <3> QED
      BY <1>2, <3>2, ApprovedShrinks DEF Regular
  <2> QED
    BY <2>8, <2>9, <2>10
<1> QED
  BY <1>8, <1>9, <1>10, <1>11, <1>12, <1>13, <1>14

\* The shared counter is read.
LEMMA DrawsKeeps ==
    ASSUME AmxInv, NEW d \in Device, Draws(d)
    PROVE  AmxInv'
<1> USE DEF AmxInv, authVars, boxVars, fateVars, answerVars
<1> SUFFICES ASSUME NEW n, NEW x, NEW r,
                    n = seq, x = dev[d].cmd, r = [dev[d] EXCEPT !.pc = "drawn", !.id = n]
             PROVE  AmxInv'
  OBVIOUS
<1>1. /\ dev[d].pc = "counted"
      /\ dev' = [dev EXCEPT ![d] = r]
      /\ shared' = (shared \/ n # x)
      /\ regular' = (regular /\ n = x)
      /\ UNCHANGED <<mq, alive, seq, owner, mapCtrlAuth, ctl, mAuthServer, asked, drops, link,
                     mAmxBox, boxes, sent, dropped, lost, handled, unread>>
  BY DEF Draws, Shape
<1>2. x \in Cmd /\ dev[d].user \in User /\ dev[d].user = owner[x]
  BY <1>1 DEF DevicesWhole
<1>3. n \in Cmd
  <2>1. owner[x] # NoUser
    BY <1>2, AmxConstantsOK
  <2>2. x <= n
    BY <1>2, <2>1 DEF Numbered
  <2> QED
    BY <1>2, <2>2, AmxConstantsOK DEF Shape, Cmd
<1>4. /\ r \in DeviceState /\ r.pc = "drawn" /\ r.cmd = x /\ r.id = n
      /\ r.user = dev[d].user
  <2>1. dev[d] \in DeviceState
    BY DEF Shape
  <2>2. n \in 0..MaxCmd
    BY <1>3, AmxConstantsOK DEF Cmd
  <2> QED
    BY <2>1, <2>2 DEF DeviceState
<1>5. /\ dev' \in [Device -> DeviceState]
      /\ \A e \in Device : dev'[e] = IF e = d THEN r ELSE dev[e]
  BY <1>1, <1>4, DeviceStep DEF Goes
<1>6. \A c : /\ AtDevice(c)' = AtDevice(c)
             /\ Counted(c)' = Counted(c)
             /\ AsksAt(c)' = AsksAt(c)
  BY <1>1, <1>4, <1>5 DEF AtDevice, Counted, AsksAt
<1>7. Shape'
  BY <1>1, <1>5 DEF Shape
<1>8. Numbered' /\ EntriesWhole' /\ DevicesWhole'
  <2>1. Numbered' /\ EntriesWhole'
    BY <1>1 DEF Numbered, EntriesWhole
  <2>2. DevicesWhole'
    BY <1>1, <1>2, <1>3, <1>4, <1>5 DEF DevicesWhole
  <2> QED
    BY <2>1, <2>2
<1>9. OnePlace' /\ RequestsCounted'
  BY <1>1, <1>6 DEF OnePlace, InTable, RequestsCounted, IssuedBy
<1>10. \A c : Waiting(c)' <=> Waiting(c)
  BY <1>1, <1>6 DEF Waiting
<1>11. Unshared'
  <2> SUFFICES ASSUME ~shared, n = x
               PROVE  OwnNumber' /\ AsksOnce' /\ AsksFirst' /\ lost' = {}
    BY <1>1 DEF Unshared
  <2>1. OwnNumber'
    BY <1>1, <1>4, <1>5 DEF Unshared, OwnNumber
  <2>2. AsksOnce' /\ AsksFirst' /\ lost' = {}
    BY <1>1, <1>6 DEF Unshared, AsksOnce, AsksFirst
  <2> QED
    BY <2>1, <2>2
<1>12. Regular'
  <2> SUFFICES ASSUME regular, n = x
               PROVE  ~shared' /\ LinkUp' /\ SentDecided' /\ EntriesMatch' /\ ApprovedByAnswers'
    BY <1>1 DEF Regular
  <2>1. ~shared' /\ LinkUp' /\ SentDecided' /\ EntriesMatch'
    BY <1>1, <1>10 DEF Regular, LinkUp, SentDecided, EntriesMatch, Entries
  <2>2. ApprovedByAnswers'
    <3>1. \A v \in User : Approved(v)' = Approved(v)
      BY <1>1, <1>10 DEF Approved
    <3> QED
      BY <1>1, <3>1, ApprovedShrinks DEF Regular
  <2> QED
    BY <2>1, <2>2
<1> QED
  BY <1>7, <1>8, <1>9, <1>11, <1>12

\* The request for authentication, under the number that was drawn.
LEMMA SendAuthenticationKeeps ==
    ASSUME AmxInv, NEW d \in Device, SendAuthentication(d)
    PROVE  AmxInv'
<1> USE DEF AmxInv, authVars, boxVars, fateVars, answerVars
<1> SUFFICES ASSUME NEW n, NEW x, NEW u, NEW m, NEW r,
                    n = dev[d].id, x = dev[d].cmd, u = dev[d].user, m = RequestMessage(n, u),
                    r = [dev[d] EXCEPT !.pc = "control"]
             PROVE  AmxInv'
  OBVIOUS
<1>1. /\ dev[d].pc = "drawn" /\ mq' = Append(mq, m) /\ Len(mq) + alive < QCap
      /\ dev' = [dev EXCEPT ![d] = r]
      /\ UNCHANGED <<alive, seq, owner, mapCtrlAuth, ctl, mAuthServer, asked, drops, link, mAmxBox,
                     boxes, shared, sent, dropped, lost, handled, unread, regular>>
  BY DEF SendAuthentication, sendMessage, Room, RequestMessage, Shape
<1>2. x \in Cmd /\ u \in User /\ u = owner[x] /\ d \in AtDevice(x) /\ d \in AsksAt(x)
  BY <1>1 DEF DevicesWhole, AtDevice, AsksAt
<1>3. n \in Cmd
  BY <1>1 DEF DevicesWhole
<1>4. /\ dev[d] \in DeviceState
      /\ r \in DeviceState /\ r.pc = "control" /\ r.cmd = x /\ r.id = n /\ r.user = u
  <2>1. dev[d] \in DeviceState
    BY DEF Shape
  <2> QED
    BY <2>1 DEF DeviceState
<1>5. /\ dev' \in [Device -> DeviceState]
      /\ \A e \in Device : dev'[e] = IF e = d THEN r ELSE dev[e]
  BY <1>1, <1>4, DeviceStep DEF Goes
<1>6. /\ mq \in Seq(Message) /\ m \in Message
      /\ mq' \in Seq(Message) /\ Len(mq') = Len(mq) + 1
      /\ \A S : /\ At(mq', S) = At(mq, S) \cup (IF m \in S THEN {Len(mq) + 1} ELSE {})
                /\ Count(mq', S) = Count(mq, S) + (IF m \in S THEN 1 ELSE 0)
  <2>1. mq \in Seq(Message)
    BY DEF Shape
  <2>2. m \in Message
    BY <1>2, <1>3, RequestKind
  <2>3. mq' = Append(mq, m)
    BY <1>1
  <2> QED
    BY ONLY <2>1, <2>2, <2>3, CountAppend
<1>7. Len(mq) \in Nat /\ alive \in Nat /\ QCap \in Nat
  BY <1>6, LenProperties, AmxConstantsOK DEF Shape
<1>8. Shape'
  BY <1>1, <1>5, <1>6, <1>7 DEF Shape
<1>9. Numbered' /\ EntriesWhole'
  BY <1>1 DEF Numbered, EntriesWhole
<1>10. DevicesWhole'
  BY <1>1, <1>2, <1>3, <1>4, <1>5 DEF DevicesWhole
<1>11. OnePlace'
  <2> SUFFICES ASSUME NEW c \in Cmd
               PROVE  Cardinality(AtDevice(c)') + Count(mq', ControlsOf(c)) + Cardinality(InTable(c))
                        + sent[c] + (IF c \in dropped THEN 1 ELSE 0)
                        = IF owner[c] = NoUser THEN 0 ELSE 1
    BY <1>1 DEF OnePlace, InTable
  <2>1. AtDevice(c)' = AtDevice(c)
    BY <1>1, <1>4, <1>5 DEF AtDevice
  <2>2. m \notin ControlsOf(c) /\ Count(mq, ControlsOf(c)) \in Nat
    BY <1>2, <1>3, RequestKind, CountsNat
  <2>3. Count(mq', ControlsOf(c)) = Count(mq, ControlsOf(c))
    BY <1>6, <2>2
  <2> QED
    BY <2>1, <2>3 DEF OnePlace
<1>12. RequestsCounted'
  <2> SUFFICES ASSUME NEW v \in User
               PROVE  Cardinality(Counted(v)') + Count(mq', RequestsOf(v)) + asked[v]
                        + Count(mq', AnswersOf(v)) + handled[v] + unread[v] <= Cardinality(IssuedBy(v))
    BY <1>1 DEF RequestsCounted, IssuedBy
  <2>1. /\ Cardinality(Counted(v)') \in Nat
        /\ Cardinality(Counted(v)')
               + (IF dev[d].pc \in {"counted", "drawn"} /\ dev[d].user = v THEN 1 ELSE 0)
             = Cardinality(Counted(v)) + (IF r.pc \in {"counted", "drawn"} /\ r.user = v THEN 1 ELSE 0)
    <3>1. Goes(d, r)
      BY <1>1 DEF Goes
    <3> QED
      BY <1>4, <3>1, CountedStep
  <2>2. /\ Cardinality(Counted(v)) \in Nat /\ Count(mq, RequestsOf(v)) \in Nat
        /\ Count(mq, AnswersOf(v)) \in Nat /\ asked[v] \in Nat /\ handled[v] \in Nat /\ unread[v] \in Nat
        /\ Cardinality(IssuedBy(v)) \in Nat
    BY CountsNat, AmxConstantsOK
  <2>3. Cardinality(Counted(v)') + (IF u = v THEN 1 ELSE 0) = Cardinality(Counted(v))
    BY <1>1, <1>4, <2>1, <2>2
  <2>4. /\ Count(mq', RequestsOf(v)) = Count(mq, RequestsOf(v)) + (IF u = v THEN 1 ELSE 0)
        /\ Count(mq', AnswersOf(v)) = Count(mq, AnswersOf(v)) + 0
    BY <1>2, <1>3, <1>6, RequestKind
  <2>5. Cardinality(Counted(v)) + Count(mq, RequestsOf(v)) + asked[v]
          + Count(mq, AnswersOf(v)) + handled[v] + unread[v] <= Cardinality(IssuedBy(v))
    BY DEF RequestsCounted
  <2> QED
    BY <2>1, <2>2, <2>3, <2>4, <2>5
<1>13. Unshared' /\ Regular'
  <2> SUFFICES ASSUME ~shared
               PROVE  /\ OwnNumber' /\ AsksOnce' /\ AsksFirst' /\ lost' = {}
                      /\ regular' =>
                           LinkUp' /\ SentDecided' /\ EntriesMatch' /\ ApprovedByAnswers'
    BY <1>1 DEF Unshared, Regular
  <2>0. n = x /\ lost' = {}
    BY <1>1 DEF Unshared, OwnNumber
  <2>1. AtDevice(x) = {d} /\ At(mq, ControlsOf(x)) = {}
    BY <1>2, OnlyAtDevice
  <2>2. \A c : AsksAt(c)' = AsksAt(c) \ {d} /\ (c # x => d \notin AsksAt(c))
    BY <1>4, <1>5 DEF AsksAt
  <2>3. AsksAt(x)' = {}
    <3>1. AsksAt(x) \in SUBSET AtDevice(x)
      BY DEF AsksAt, AtDevice
    <3> QED
      BY <2>1, <2>2, <3>1
  <2>4. /\ At(mq', AsksOf(x)) = {Len(mq) + 1} /\ mapCtrlAuth[x] = NoEntry
        /\ \A c : c # x => At(mq', AsksOf(c)) = At(mq, AsksOf(c))
    <3>1. At(mq, AsksOf(x)) = {} /\ mapCtrlAuth[x] = NoEntry
      BY <1>2 DEF Unshared, AsksOnce
    <3>2. \A c : m \in AsksOf(c) <=> c = x
      BY <1>2, <1>3, <2>0, RequestKind
    <3>3. \A c : At(mq', AsksOf(c)) = At(mq, AsksOf(c))
                    \cup (IF m \in AsksOf(c) THEN {Len(mq) + 1} ELSE {})
      BY <1>6
    <3>4. \A c : c # x => At(mq', AsksOf(c)) = At(mq, AsksOf(c))
      BY <3>2, <3>3
    <3>5. At(mq', AsksOf(x)) = {Len(mq) + 1}
      BY <3>1, <3>2, <3>3
    <3> QED
      BY <3>1, <3>4, <3>5
  <2>5. /\ \A c : At(mq', ControlsOf(c)) = At(mq, ControlsOf(c))
        /\ At(mq', Reboots) = At(mq, Reboots)
    <3>1. (\A c : m \notin ControlsOf(c)) /\ m \notin Reboots
      BY <1>2, <1>3, RequestKind
    <3> QED
      BY <1>6, <3>1
  <2>7. OwnNumber'
    <3>1. \A e \in Device : dev'[e].pc \in {"drawn", "control"} => dev'[e].id = dev'[e].cmd
      BY <1>4, <1>5, <2>0 DEF Unshared, OwnNumber
    <3>2. ASSUME NEW i \in DOMAIN mq'
          PROVE  /\ mq'[i].what = "authentication_request" => mq'[i].user = owner[mq'[i].id]
                 /\ mq'[i].what = "amx_control_request" => mq'[i].id = mq'[i].cmd
      <4>1. (i \in DOMAIN mq /\ mq'[i] = mq[i]) \/ mq'[i] = m
        <5>1. mq' = Append(mq, m)
          BY <1>1
        <5> QED
          BY <1>6, <5>1, AppendElements
      <4>2. m.what = "authentication_request" /\ m.user = owner[m.id]
        BY <1>2, <1>3, <2>0, RequestKind
      <4>3. CASE mq'[i] = m
        BY <4>2, <4>3
      <4>4. CASE i \in DOMAIN mq /\ mq'[i] = mq[i]
        BY <4>4 DEF Unshared, OwnNumber
      <4> QED
        BY <4>1, <4>3, <4>4
    <3> QED
      BY <1>1, <3>1, <3>2 DEF Unshared, OwnNumber
  <2>8. \A c : Waiting(c)' <=> Waiting(c)
    <3> SUFFICES ASSUME NEW c
                 PROVE  Waiting(c)' <=> Waiting(c)
      OBVIOUS
    <3>1. CASE c = x
      <4>1. At(mq', AsksOf(c)) # {} /\ AsksAt(c) # {}
        BY <1>2, <2>4, <3>1
      <4> QED
        BY <4>1 DEF Waiting
    <3>2. CASE c # x
      <4>1. AsksAt(c)' = AsksAt(c) /\ At(mq', AsksOf(c)) = At(mq, AsksOf(c))
        BY <2>2, <2>4, <3>2
      <4> QED
        BY <1>1, <4>1 DEF Waiting
    <3> QED
      BY <3>1, <3>2
  <2>9. AsksOnce'
    <3> SUFFICES ASSUME NEW c \in Cmd
                 PROVE  /\ AsksAt(c)' # {} => At(mq', AsksOf(c)) = {}
                        /\ AsksAt(c)' # {} \/ At(mq', AsksOf(c)) # {} => mapCtrlAuth[c] = NoEntry
                        /\ \A i, j \in At(mq', AsksOf(c)) : i = j
      BY <1>1 DEF AsksOnce
    <3>1. CASE c = x
      BY <2>3, <2>4, <3>1
    <3>2. CASE c # x
      <4>1. AsksAt(c)' = AsksAt(c) /\ At(mq', AsksOf(c)) = At(mq, AsksOf(c))
        BY <2>2, <2>4, <3>2
      <4> QED
        BY <4>1 DEF Unshared, AsksOnce
    <3> QED
      BY <3>1, <3>2
  <2>10. AsksFirst'
    BY <2>1, <2>4, <2>5 DEF Unshared, AsksFirst
  <2> SUFFICES ASSUME regular'
               PROVE  LinkUp' /\ SentDecided' /\ EntriesMatch' /\ ApprovedByAnswers'
    BY <2>0, <2>7, <2>9, <2>10
  <2>6. LinkUp'
    BY <1>1, <2>5 DEF Regular, LinkUp
  <2>11. SentDecided'
    BY <1>1, <2>8 DEF Regular, SentDecided
  <2>12. EntriesMatch'
    <3>1. \A v \in User : Count(mq', AnswersOf(v)) = Count(mq, AnswersOf(v)) + 0
      BY <1>2, <1>3, <1>6, RequestKind
    <3>2. \A v \in User : Count(mq', AnswersOf(v)) = Count(mq, AnswersOf(v))
      BY <3>1, CountsNat
    <3> QED
      BY <1>1, <3>2 DEF Regular, EntriesMatch, Entries
  <2>13. ApprovedByAnswers'
    <3>1. \A v \in User : Approved(v)' = Approved(v)
      BY <1>1, <2>8 DEF Approved
    <3> QED
      BY <1>1, <3>1, ApprovedShrinks DEF Regular
  <2> QED
    BY <2>6, <2>11, <2>12, <2>13
<1> QED
  BY <1>8, <1>9, <1>10, <1>11, <1>12, <1>13

\* The places of a command, with the types of their numbers.
LEMMA PlaceSum ==
    ASSUME AmxInv, NEW c \in Cmd
    PROVE  /\ Cardinality(AtDevice(c)) + Count(mq, ControlsOf(c)) + Cardinality(InTable(c))
                + sent[c] + (IF c \in dropped THEN 1 ELSE 0) = IF owner[c] = NoUser THEN 0 ELSE 1
           /\ Cardinality(AtDevice(c)) \in Nat /\ Count(mq, ControlsOf(c)) \in Nat
           /\ Cardinality(InTable(c)) \in Nat /\ sent[c] \in Nat
BY CountsNat DEF AmxInv, OnePlace

\* How often a user is asked about, with the types of the numbers.
LEMMA RequestSum ==
    ASSUME AmxInv, NEW u \in User
    PROVE  /\ Cardinality(Counted(u)) + Count(mq, RequestsOf(u)) + asked[u]
                + Count(mq, AnswersOf(u)) + handled[u] + unread[u] <= Cardinality(IssuedBy(u))
           /\ Cardinality(Counted(u)) \in Nat /\ Count(mq, RequestsOf(u)) \in Nat
           /\ Count(mq, AnswersOf(u)) \in Nat /\ asked[u] \in Nat /\ handled[u] \in Nat /\ unread[u] \in Nat
           /\ Cardinality(IssuedBy(u)) \in Nat
BY CountsNat, AmxConstantsOK DEF AmxInv, RequestsCounted

\* The command follows its request into the queue.
LEMMA SendControlKeeps ==
    ASSUME AmxInv, NEW d \in Device, SendControl(d)
    PROVE  AmxInv'
<1> USE DEF AmxInv, authVars, boxVars, fateVars, answerVars
<1> SUFFICES ASSUME NEW n, NEW x, NEW m, NEW r,
                    n = dev[d].id, x = dev[d].cmd, m = ControlMessage(n, x),
                    r = [dev[d] EXCEPT !.pc = "respond"]
             PROVE  AmxInv'
  OBVIOUS
<1>1. /\ dev[d].pc = "control" /\ mq' = Append(mq, m) /\ Len(mq) + alive < QCap
      /\ dev' = [dev EXCEPT ![d] = r]
      /\ UNCHANGED <<alive, seq, owner, mapCtrlAuth, ctl, mAuthServer, asked, drops, link, mAmxBox,
                     boxes, shared, sent, dropped, lost, handled, unread, regular>>
  BY DEF SendControl, sendMessage, Room, ControlMessage, Shape
<1>2. x \in Cmd /\ n \in Cmd /\ d \in AtDevice(x)
  BY <1>1 DEF DevicesWhole, AtDevice
<1>3. /\ dev[d] \in DeviceState
      /\ r \in DeviceState /\ r.pc = "respond"
  <2>1. dev[d] \in DeviceState
    BY DEF Shape
  <2> QED
    BY <2>1 DEF DeviceState
<1>4. Goes(d, r)
  BY <1>1 DEF Goes
<1>5. /\ dev' \in [Device -> DeviceState]
      /\ \A e \in Device : dev'[e] = IF e = d THEN r ELSE dev[e]
  BY <1>3, <1>4, DeviceStep
<1>6. /\ mq \in Seq(Message) /\ m \in Message
      /\ mq' \in Seq(Message) /\ Len(mq') = Len(mq) + 1
      /\ \A S : /\ At(mq', S) = At(mq, S) \cup (IF m \in S THEN {Len(mq) + 1} ELSE {})
                /\ Count(mq', S) = Count(mq, S) + (IF m \in S THEN 1 ELSE 0)
  BY <1>1, <1>2, ControlKind, CountAppend DEF Shape
<1>7. Len(mq) \in Nat /\ alive \in Nat /\ QCap \in Nat
  BY <1>6, LenProperties, AmxConstantsOK DEF Shape
<1>8. Shape'
  BY <1>1, <1>5, <1>6, <1>7 DEF Shape
<1>9. Numbered' /\ EntriesWhole'
  BY <1>1 DEF Numbered, EntriesWhole
<1>10. DevicesWhole'
  BY <1>1, <1>3, <1>5 DEF DevicesWhole
<1>11. OnePlace'
  <2> SUFFICES ASSUME NEW c \in Cmd
               PROVE  Cardinality(AtDevice(c)') + Count(mq', ControlsOf(c)) + Cardinality(InTable(c))
                        + sent[c] + (IF c \in dropped THEN 1 ELSE 0)
                        = IF owner[c] = NoUser THEN 0 ELSE 1
    BY <1>1 DEF OnePlace, InTable
  <2>1. /\ Cardinality(AtDevice(c)') \in Nat
        /\ Cardinality(AtDevice(c)')
             + (IF dev[d].pc \in {"counted", "drawn", "control"} /\ dev[d].cmd = c THEN 1 ELSE 0)
           = Cardinality(AtDevice(c))
             + (IF r.pc \in {"counted", "drawn", "control"} /\ r.cmd = c THEN 1 ELSE 0)
    BY <1>3, <1>4, AtDeviceStep
  <2>2. m \in ControlsOf(c) <=> c = x
    BY <1>2, ControlKind
  <2>3. Count(mq', ControlsOf(c)) = Count(mq, ControlsOf(c)) + (IF c = x THEN 1 ELSE 0)
    BY <1>6, <2>2
  <2>4. Cardinality(AtDevice(c)) = Cardinality(AtDevice(c)') + (IF c = x THEN 1 ELSE 0)
    BY <1>1, <1>3, <2>1, CountsNat
  <2> QED
    BY <2>1, <2>3, <2>4, PlaceSum
<1>12. RequestsCounted'
  <2> SUFFICES ASSUME NEW v \in User
               PROVE  Cardinality(Counted(v)') + Count(mq', RequestsOf(v)) + asked[v]
                        + Count(mq', AnswersOf(v)) + handled[v] + unread[v] <= Cardinality(IssuedBy(v))
    BY <1>1 DEF RequestsCounted, IssuedBy
  <2>1. Counted(v)' = Counted(v)
    BY <1>1, <1>3, <1>5 DEF Counted
  <2>2. m \notin RequestsOf(v) /\ m \notin AnswersOf(v)
    BY <1>2, ControlKind
  <2>3. /\ Count(mq', RequestsOf(v)) = Count(mq, RequestsOf(v)) + 0
        /\ Count(mq', AnswersOf(v)) = Count(mq, AnswersOf(v)) + 0
    BY <1>6, <2>2
  <2> QED
    BY <2>1, <2>3, RequestSum
<1>13. Unshared' /\ Regular'
  <2> SUFFICES ASSUME ~shared
               PROVE  /\ OwnNumber' /\ AsksOnce' /\ AsksFirst' /\ lost' = {}
                      /\ regular' =>
                           LinkUp' /\ SentDecided' /\ EntriesMatch' /\ ApprovedByAnswers'
    BY <1>1 DEF Unshared, Regular
  <2>1. n = x /\ lost' = {}
    BY <1>1 DEF Unshared, OwnNumber
  <2>2. \A c : AsksAt(c)' = AsksAt(c)
    BY <1>1, <1>3, <1>5 DEF AsksAt
  <2>3. /\ \A c : At(mq', AsksOf(c)) = At(mq, AsksOf(c))
        /\ At(mq', Reboots) = At(mq, Reboots)
    <3>1. (\A c : m \notin AsksOf(c)) /\ m \notin Reboots
      BY <1>2, ControlKind
    <3> QED
      BY <1>6, <3>1
  <2>5. OwnNumber'
    <3>1. \A e \in Device : dev'[e].pc \in {"drawn", "control"} => dev'[e].id = dev'[e].cmd
      <4>1. \A e \in Device : dev[e].pc \in {"drawn", "control"} => dev[e].id = dev[e].cmd
        BY DEF Unshared, OwnNumber
      <4>2. r.pc \notin {"drawn", "control"}
        BY <1>3
      <4> QED
        BY <1>5, <4>1, <4>2
    <3>2. ASSUME NEW i \in DOMAIN mq'
          PROVE  /\ mq'[i].what = "authentication_request" => mq'[i].user = owner[mq'[i].id]
                 /\ mq'[i].what = "amx_control_request" => mq'[i].id = mq'[i].cmd
      <4>1. (i \in DOMAIN mq /\ mq'[i] = mq[i]) \/ mq'[i] = m
        <5>1. mq' = Append(mq, m)
          BY <1>1
        <5> QED
          BY <1>6, <5>1, AppendElements
      <4>2. m.what = "amx_control_request" /\ m.id = m.cmd
        BY <1>2, <2>1, ControlKind
      <4>3. CASE mq'[i] = m
        BY <4>2, <4>3
      <4>4. CASE i \in DOMAIN mq /\ mq'[i] = mq[i]
        BY <4>4 DEF Unshared, OwnNumber
      <4> QED
        BY <4>1, <4>3, <4>4
    <3> QED
      BY <1>1, <3>1, <3>2 DEF Unshared, OwnNumber
  <2>6. \A c : Waiting(c)' <=> Waiting(c)
    BY <1>1, <2>2, <2>3 DEF Waiting
  <2>7. AsksOnce'
    BY <1>1, <2>2, <2>3 DEF Unshared, AsksOnce
  <2>8. AsksFirst'
    <3> SUFFICES ASSUME NEW c \in Cmd, NEW i \in At(mq', ControlsOf(c)), NEW j \in At(mq, AsksOf(c))
                 PROVE  j < i
      BY <2>3 DEF AsksFirst
    <3>1. j \in 1..Len(mq)
      BY <1>6, LenProperties DEF At
    <3>2. i \in At(mq, ControlsOf(c)) \/ i = Len(mq) + 1
      BY <1>6
    <3> QED
      BY <1>7, <3>1, <3>2 DEF Unshared, AsksFirst
  <2> SUFFICES ASSUME regular'
               PROVE  LinkUp' /\ SentDecided' /\ EntriesMatch' /\ ApprovedByAnswers'
    BY <2>1, <2>5, <2>7, <2>8
  <2>4. LinkUp'
    BY <1>1, <2>3 DEF Regular, LinkUp
  <2>9. SentDecided'
    BY <1>1, <2>6 DEF Regular, SentDecided
  <2>10. EntriesMatch'
    <3>1. ASSUME NEW v \in User
          PROVE  Count(mq', AnswersOf(v)) = Count(mq, AnswersOf(v))
      <4>1. m \notin AnswersOf(v)
        BY <1>2, ControlKind
      <4>2. Count(mq', AnswersOf(v)) = Count(mq, AnswersOf(v)) + 0
        BY <1>6, <4>1
      <4> QED
        BY <4>2, RequestSum
    <3> QED
      BY <1>1, <3>1 DEF Regular, EntriesMatch, Entries
  <2>11. ApprovedByAnswers'
    <3>1. \A v \in User : Approved(v)' = Approved(v)
      BY <1>1, <2>6 DEF Approved
    <3> QED
      BY <1>1, <3>1, ApprovedShrinks DEF Regular
  <2> QED
    BY <2>4, <2>9, <2>10, <2>11
<1> QED
  BY <1>8, <1>9, <1>10, <1>11, <1>12, <1>13

\* A packet without a command: what the thread had is dropped.
LEMMA NoCommandKeeps ==
    ASSUME AmxInv, NEW d \in Device, NoCommand(d)
    PROVE  AmxInv'
<1> USE DEF AmxInv, authVars, boxVars, answerVars
<1> SUFFICES ASSUME NEW x, NEW r, x = dev[d].cmd, r = [dev[d] EXCEPT !.pc = "respond"]
             PROVE  AmxInv'
  OBVIOUS
<1>1. /\ dev[d].pc \in {"drawn", "control"}
      /\ dev' = [dev EXCEPT ![d] = r]
      /\ dropped' = dropped \cup {x}
      /\ UNCHANGED <<mq, alive, seq, owner, mapCtrlAuth, ctl, mAuthServer, asked, drops, link,
                     mAmxBox, boxes, shared, sent, lost, handled, unread, regular>>
  BY DEF NoCommand, Discards, Shape
<1>2. x \in Cmd /\ d \in AtDevice(x)
  BY <1>1 DEF DevicesWhole, AtDevice
<1>3. /\ dev[d] \in DeviceState
      /\ r \in DeviceState /\ r.pc = "respond"
  <2>1. dev[d] \in DeviceState
    BY DEF Shape
  <2> QED
    BY <2>1 DEF DeviceState
<1>4. Goes(d, r)
  BY <1>1 DEF Goes
<1>5. /\ dev' \in [Device -> DeviceState]
      /\ \A e \in Device : dev'[e] = IF e = d THEN r ELSE dev[e]
  BY <1>3, <1>4, DeviceStep
<1>6. Shape'
  BY <1>1, <1>2, <1>5 DEF Shape
<1>7. Numbered' /\ EntriesWhole'
  BY <1>1 DEF Numbered, EntriesWhole
<1>8. DevicesWhole'
  BY <1>1, <1>3, <1>5 DEF DevicesWhole
<1>9. OnePlace'
  <2> SUFFICES ASSUME NEW c \in Cmd
               PROVE  Cardinality(AtDevice(c)') + Count(mq, ControlsOf(c)) + Cardinality(InTable(c))
                        + sent[c] + (IF c \in dropped' THEN 1 ELSE 0)
                        = IF owner[c] = NoUser THEN 0 ELSE 1
    BY <1>1 DEF OnePlace, InTable
  <2>1. /\ Cardinality(AtDevice(c)') \in Nat
        /\ Cardinality(AtDevice(c)')
             + (IF dev[d].pc \in {"counted", "drawn", "control"} /\ dev[d].cmd = c THEN 1 ELSE 0)
           = Cardinality(AtDevice(c))
             + (IF r.pc \in {"counted", "drawn", "control"} /\ r.cmd = c THEN 1 ELSE 0)
    BY <1>3, <1>4, AtDeviceStep
  <2>2. Cardinality(AtDevice(c)) = Cardinality(AtDevice(c)') + (IF c = x THEN 1 ELSE 0)
    BY <1>1, <1>3, <2>1, CountsNat
  <2>3. x \notin dropped
    BY <1>2, OnlyAtDevice
  <2>4. CASE c = x
    BY <1>1, <2>1, <2>2, <2>3, <2>4, PlaceSum
  <2>5. CASE c # x
    BY <1>1, <2>1, <2>2, <2>5, PlaceSum
  <2> QED
    BY <2>4, <2>5
<1>10. RequestsCounted'
  <2> SUFFICES ASSUME NEW v \in User
               PROVE  Cardinality(Counted(v)') + Count(mq, RequestsOf(v)) + asked[v]
                        + Count(mq, AnswersOf(v)) + handled[v] + unread[v] <= Cardinality(IssuedBy(v))
    BY <1>1 DEF RequestsCounted, IssuedBy
  <2>1. /\ Cardinality(Counted(v)') \in Nat
        /\ Cardinality(Counted(v)')
               + (IF dev[d].pc \in {"counted", "drawn"} /\ dev[d].user = v THEN 1 ELSE 0)
             = Cardinality(Counted(v)) + (IF r.pc \in {"counted", "drawn"} /\ r.user = v THEN 1 ELSE 0)
    BY <1>3, <1>4, CountedStep
  <2>2. Cardinality(Counted(v)') <= Cardinality(Counted(v))
    BY <1>3, <2>1, RequestSum
  <2> QED
    BY <2>1, <2>2, RequestSum
<1>11. Unshared' /\ Regular'
  <2> SUFFICES ASSUME ~shared
               PROVE  /\ OwnNumber' /\ AsksOnce' /\ AsksFirst' /\ lost' = {}
                      /\ regular' =>
                           LinkUp' /\ SentDecided' /\ EntriesMatch' /\ ApprovedByAnswers'
    BY <1>1 DEF Unshared, Regular
  <2>1. AsksFirst' /\ lost' = {}
    BY <1>1 DEF Unshared, AsksFirst
  <2>2. OwnNumber'
    BY <1>1, <1>3, <1>5 DEF Unshared, OwnNumber
  <2>3. \A c : AsksAt(c)' \in SUBSET AsksAt(c) /\ (c # x => AsksAt(c)' = AsksAt(c))
    BY <1>3, <1>5 DEF AsksAt
  <2>4. \A c : Waiting(c)' => Waiting(c)
    BY <1>1, <2>3 DEF Waiting
  <2>5. \A c : c # x => (Waiting(c)' <=> Waiting(c))
    BY <1>1, <2>3 DEF Waiting
  <2>6. AsksOnce'
    BY <1>1, <2>3 DEF Unshared, AsksOnce
  <2> SUFFICES ASSUME regular'
               PROVE  LinkUp' /\ SentDecided' /\ EntriesMatch' /\ ApprovedByAnswers'
    BY <2>1, <2>2, <2>6
  <2>9. LinkUp' /\ EntriesMatch'
    BY <1>1 DEF Regular, LinkUp, EntriesMatch, Entries
  <2>7. SentDecided'
    BY <1>1, <2>4 DEF Regular, SentDecided
  <2>8. ApprovedByAnswers'
    <3>1. ASSUME NEW v \in User, NEW c \in Approved(v)'
          PROVE  c \in Approved(v)
      <4>1. c \in Cmd /\ owner[c] = v /\ ~Waiting(c)' /\ c \notin dropped /\ c # x
        BY <1>1 DEF Approved
      <4> QED
        BY <2>5, <4>1 DEF Approved
    <3>2. \A v \in User : Approved(v)' \in SUBSET Approved(v)
      BY <3>1
    <3> QED
      BY <1>1, <3>2, ApprovedShrinks DEF Regular
  <2> QED
    BY <2>7, <2>8, <2>9
<1> QED
  BY <1>6, <1>7, <1>8, <1>9, <1>10, <1>11

\* The response to the device.
LEMMA RespondKeeps ==
    ASSUME AmxInv, NEW d \in Device, Respond(d)
    PROVE  AmxInv'
<1> USE DEF AmxInv, authVars, boxVars, fateVars, answerVars
<1>1. /\ dev[d].pc = "respond" /\ Len(mq) + alive < QCap /\ alive' = alive + 1
      /\ dev' = [dev EXCEPT ![d] = Idle]
      /\ UNCHANGED <<mq, seq, owner, mapCtrlAuth, ctl, mAuthServer, asked, drops, link,
                     mAmxBox, boxes, shared, sent, dropped, lost, handled, unread, regular>>
  BY DEF Respond, sendAlive, Room
<1>2. Idle \in DeviceState /\ Idle.pc = "idle"
  BY AmxConstantsOK DEF Idle, DeviceState
<1>3. /\ dev' \in [Device -> DeviceState]
      /\ \A e \in Device : dev'[e] = IF e = d THEN Idle ELSE dev[e]
  BY <1>1, <1>2, DeviceStep DEF Goes
<1>4. Len(mq) \in Nat /\ alive \in Nat /\ QCap \in Nat
  BY LenProperties, AmxConstantsOK DEF Shape
<1>5. Shape'
  BY <1>1, <1>3, <1>4 DEF Shape
<1>6. \A c : AtDevice(c)' = AtDevice(c) /\ AsksAt(c)' = AsksAt(c) /\ Counted(c)' = Counted(c)
  BY <1>1, <1>2, <1>3 DEF AtDevice, AsksAt, Counted
<1>7. Numbered' /\ EntriesWhole' /\ DevicesWhole'
  BY <1>1, <1>2, <1>3 DEF Numbered, EntriesWhole, DevicesWhole
<1>8. OnePlace' /\ RequestsCounted'
  BY <1>1, <1>6 DEF OnePlace, InTable, RequestsCounted, IssuedBy
<1>9. \A c : Waiting(c)' <=> Waiting(c)
  BY <1>1, <1>6 DEF Waiting
<1>10. ~shared => OwnNumber'
  BY <1>1, <1>2, <1>3 DEF Unshared, OwnNumber
<1>13. ~shared => AsksOnce' /\ AsksFirst' /\ lost' = {}
  BY <1>1, <1>6 DEF Unshared, AsksOnce, AsksFirst
<1>11. regular => LinkUp' /\ SentDecided' /\ EntriesMatch'
  BY <1>1, <1>9 DEF Regular, LinkUp, SentDecided, EntriesMatch, Entries
<1>12. regular => ApprovedByAnswers'
  <2>1. \A v \in User : Approved(v)' = Approved(v)
    BY <1>1, <1>9 DEF Approved
  <2> QED
    BY <1>1, <2>1, ApprovedShrinks DEF Regular
<1> QED
  BY <1>1, <1>5, <1>7, <1>8, <1>10, <1>11, <1>12, <1>13 DEF Unshared, Regular

-----------------------------------------------------------------------------
(* The authentication server *)

\* A message that is neither a command nor a request, and answers as many as are
\* not awaited any more.
LEMMA AnnounceKeeps ==
    ASSUME AmxInv, NEW m \in Message, mq' = Append(mq, m), Len(mq) + alive < QCap,
           \A c : m \notin ControlsOf(c) /\ m \notin RequestsOf(c) /\ m \notin AsksOf(c),
           m.what # "authentication_request", m.what # "amx_control_request",
           asked' \in [User -> Nat],
           \A u \in User : asked'[u] + (IF m \in AnswersOf(u) THEN 1 ELSE 0) = asked[u],
           regular' \in BOOLEAN, drops' \in BOOLEAN,
           regular' => regular /\ m \notin Reboots /\ UNCHANGED drops,
           UNCHANGED <<alive, deviceVars, mapCtrlAuth, ctl, mAuthServer, link, boxVars, fateVars,
                       answerVars>>
    PROVE  AmxInv'
<1> USE DEF AmxInv, deviceVars, boxVars, fateVars, answerVars
<1>1. /\ mq \in Seq(Message)
      /\ mq' \in Seq(Message) /\ Len(mq') = Len(mq) + 1
      /\ \A S : /\ At(mq', S) = At(mq, S) \cup (IF m \in S THEN {Len(mq) + 1} ELSE {})
                /\ Count(mq', S) = Count(mq, S) + (IF m \in S THEN 1 ELSE 0)
  BY CountAppend DEF Shape
<1>2. Len(mq) \in Nat /\ alive \in Nat /\ QCap \in Nat
  BY <1>1, LenProperties, AmxConstantsOK DEF Shape
<1>3. Shape'
  BY <1>1, <1>2 DEF Shape
<1>4. Numbered' /\ DevicesWhole' /\ EntriesWhole'
  BY DEF Numbered, DevicesWhole, EntriesWhole
<1>5. /\ \A c : At(mq', ControlsOf(c)) = At(mq, ControlsOf(c))
      /\ \A c : At(mq', AsksOf(c)) = At(mq, AsksOf(c))
      /\ m \notin Reboots => At(mq', Reboots) = At(mq, Reboots)
  BY <1>1
<1>6. OnePlace'
  <2>1. \A c : Count(mq', ControlsOf(c)) = Count(mq, ControlsOf(c))
    BY <1>5 DEF Count
  <2> QED
    BY <2>1 DEF OnePlace, AtDevice, InTable
<1>7. ASSUME NEW u \in User
      PROVE  Count(mq', AnswersOf(u)) + asked'[u] = Count(mq, AnswersOf(u)) + asked[u]
  <2>1. Count(mq', AnswersOf(u)) = Count(mq, AnswersOf(u)) + (IF m \in AnswersOf(u) THEN 1 ELSE 0)
    BY <1>1
  <2>2. asked'[u] + (IF m \in AnswersOf(u) THEN 1 ELSE 0) = asked[u] /\ asked'[u] \in Nat
    OBVIOUS
  <2>3. Count(mq, AnswersOf(u)) \in Nat /\ asked[u] \in Nat
    BY RequestSum
  <2> QED
    BY ONLY <2>1, <2>2, <2>3
<1>8. ASSUME NEW u \in User
      PROVE  Count(mq', AnswersOf(u)) \in Nat /\ asked'[u] \in Nat
  BY <1>1, CountType
<1>9. RequestsCounted'
  <2> SUFFICES ASSUME NEW u \in User
               PROVE  Cardinality(Counted(u)) + Count(mq', RequestsOf(u)) + asked'[u]
                        + Count(mq', AnswersOf(u)) + handled[u] + unread[u] <= Cardinality(IssuedBy(u))
    BY DEF RequestsCounted, Counted, IssuedBy
  <2>1. Count(mq', RequestsOf(u)) = Count(mq, RequestsOf(u)) + 0
    BY <1>1
  <2>2. /\ Count(mq', AnswersOf(u)) + asked'[u] = Count(mq, AnswersOf(u)) + asked[u]
        /\ Count(mq', AnswersOf(u)) \in Nat /\ asked'[u] \in Nat
    BY <1>7, <1>8
  <2>3. /\ Cardinality(Counted(u)) + Count(mq, RequestsOf(u)) + asked[u]
             + Count(mq, AnswersOf(u)) + handled[u] + unread[u] <= Cardinality(IssuedBy(u))
        /\ Cardinality(Counted(u)) \in Nat /\ Count(mq, RequestsOf(u)) \in Nat
        /\ Count(mq, AnswersOf(u)) \in Nat /\ asked[u] \in Nat /\ handled[u] \in Nat /\ unread[u] \in Nat
        /\ Cardinality(IssuedBy(u)) \in Nat
    BY RequestSum
  <2> QED
    BY ONLY <2>1, <2>2, <2>3
<1>10. Unshared' /\ Regular'
  <2> SUFFICES ASSUME ~shared
               PROVE  /\ OwnNumber' /\ AsksOnce' /\ AsksFirst' /\ lost' = {}
                      /\ regular' =>
                           LinkUp' /\ SentDecided' /\ EntriesMatch' /\ ApprovedByAnswers'
    BY DEF Unshared, Regular
  <2>1. AsksFirst' /\ lost' = {}
    BY <1>5 DEF Unshared, AsksFirst
  <2>2. OwnNumber'
    <3>1. ASSUME NEW i \in DOMAIN mq'
          PROVE  /\ mq'[i].what = "authentication_request" => mq'[i].user = owner[mq'[i].id]
                 /\ mq'[i].what = "amx_control_request" => mq'[i].id = mq'[i].cmd
      <4>1. (i \in DOMAIN mq /\ mq'[i] = mq[i]) \/ mq'[i] = m
        BY <1>1, AppendElements
      <4> QED
        BY <4>1 DEF Unshared, OwnNumber
    <3> QED
      BY <3>1 DEF Unshared, OwnNumber
  <2>3. \A c : AsksAt(c)' = AsksAt(c) /\ (Waiting(c)' <=> Waiting(c))
    BY <1>5 DEF AsksAt, Waiting
  <2>4. AsksOnce'
    BY <1>5, <2>3 DEF Unshared, AsksOnce
  <2> SUFFICES ASSUME regular'
               PROVE  LinkUp' /\ SentDecided' /\ EntriesMatch' /\ ApprovedByAnswers'
    BY <2>1, <2>2, <2>4
  <2>7. LinkUp' /\ SentDecided'
    BY <1>5, <2>3 DEF Regular, LinkUp, SentDecided
  <2>5. EntriesMatch'
    <3> SUFFICES ASSUME NEW u \in User
                 PROVE  Cardinality(Entries(u)) = asked'[u] + Count(mq', AnswersOf(u))
      BY DEF EntriesMatch, Entries
    <3>1. Cardinality(Entries(u)) = asked[u] + Count(mq, AnswersOf(u))
      BY DEF Regular, EntriesMatch
    <3> QED
      BY <1>7, <1>8, <3>1, RequestSum
  <2>6. ApprovedByAnswers'
    <3>1. \A v \in User : Approved(v)' = Approved(v)
      BY <2>3 DEF Approved
    <3> QED
      BY <3>1, ApprovedShrinks DEF Regular
  <2> QED
    BY <2>5, <2>6, <2>7
<1> QED
  BY <1>3, <1>4, <1>6, <1>9, <1>10

\* An answer becomes a message.
LEMMA ResponseKeeps ==
    ASSUME AmxInv, NEW u \in User, NEW yes \in BOOLEAN, onResponse(u, yes)
    PROVE  AmxInv'
<1> SUFFICES ASSUME NEW m, m = AnswerMessage(u, yes)
             PROVE  AmxInv'
  OBVIOUS
<1>1. /\ asked[u] > 0 /\ asked' = [asked EXCEPT ![u] = @ - 1]
      /\ mq' = Append(mq, m) /\ Len(mq) + alive < QCap
      /\ UNCHANGED <<alive, deviceVars, mapCtrlAuth, ctl, mAuthServer, drops, link, boxVars,
                     fateVars, answerVars, regular>>
  BY DEF onResponse, sendMessage, Room, AnswerMessage
<1>2. asked \in [User -> Nat] /\ regular \in BOOLEAN /\ drops \in BOOLEAN
  BY DEF AmxInv, Shape
<1>3. asked' \in [User -> Nat] /\ \A v \in User : asked'[v] + (IF v = u THEN 1 ELSE 0) = asked[v]
  BY <1>1, <1>2
<1>4. /\ m \in Message
      /\ m.what # "authentication_request" /\ m.what # "amx_control_request"
      /\ \A c : m \notin ControlsOf(c) /\ m \notin RequestsOf(c) /\ m \notin AsksOf(c)
      /\ \A v : m \in AnswersOf(v) <=> v = u
      /\ m \notin Reboots
  BY AnswerKind
<1>5. \A v \in User : asked'[v] + (IF m \in AnswersOf(v) THEN 1 ELSE 0) = asked[v]
  BY <1>3, <1>4
<1> QED
  BY <1>1, <1>2, <1>3, <1>4, <1>5, AnnounceKeeps

\* The timer tells the controller that the link is gone.
LEMMA TimerTellsKeeps ==
    ASSUME AmxInv, onTimerTells
    PROVE  AmxInv'
<1> SUFFICES ASSUME NEW m, m = RebootMessage
             PROVE  AmxInv'
  OBVIOUS
<1>1. /\ mq' = Append(mq, m) /\ Len(mq) + alive < QCap
      /\ drops' = TRUE /\ regular' = FALSE
      /\ UNCHANGED <<alive, deviceVars, mapCtrlAuth, ctl, mAuthServer, asked, link, boxVars,
                     fateVars, answerVars>>
  BY DEF onTimerTells, sendMessage, Room, RebootMessage
<1>2. asked \in [User -> Nat]
  BY DEF AmxInv, Shape
<1>3. /\ m \in Message
      /\ m.what # "authentication_request" /\ m.what # "amx_control_request"
      /\ \A c : m \notin ControlsOf(c) /\ m \notin RequestsOf(c) /\ m \notin AsksOf(c)
      /\ \A v : m \notin AnswersOf(v)
  BY RebootKind
<1>4. \A v \in User : asked'[v] + (IF m \in AnswersOf(v) THEN 1 ELSE 0) = asked[v]
  BY <1>1, <1>2, <1>3
<1> QED
  BY <1>1, <1>2, <1>3, <1>4, AnnounceKeeps

-----------------------------------------------------------------------------
(* The controller thread *)

\* Entry n of mapCtrlAuth becomes e.
Sets(n, e) == mapCtrlAuth' = [mapCtrlAuth EXCEPT ![n] = e]

\* What changes in the table when one entry is set ...
LEMMA TableStep ==
    ASSUME Shape, NEW n \in Cmd, NEW e \in [user : User \cup {NoUser}, cmd : 0..MaxCmd], Sets(n, e)
    PROVE  /\ mapCtrlAuth' \in [Cmd -> [user : User \cup {NoUser}, cmd : 0..MaxCmd]]
           /\ \A k \in Cmd : mapCtrlAuth'[k] = IF k = n THEN e ELSE mapCtrlAuth[k]
BY DEF Shape, Sets

\* ... in the entries that hold a command ...
LEMMA InTableStep ==
    ASSUME Shape, NEW n \in Cmd, NEW e \in [user : User \cup {NoUser}, cmd : 0..MaxCmd],
           Sets(n, e), NEW c
    PROVE  /\ Cardinality(InTable(c)') \in Nat
           /\ Cardinality(InTable(c)') + (IF mapCtrlAuth[n].cmd = c THEN 1 ELSE 0)
                = Cardinality(InTable(c)) + (IF e.cmd = c THEN 1 ELSE 0)
<1>1. \A k \in Cmd : mapCtrlAuth'[k] = IF k = n THEN e ELSE mapCtrlAuth[k]
  BY TableStep
<1>2. InTable(c) \in SUBSET Cmd /\ InTable(c)' \in SUBSET Cmd
  BY DEF InTable
<1>3. InTable(c)' \ {n} = InTable(c) \ {n}
  BY <1>1 DEF InTable
<1>4. /\ n \in InTable(c) <=> mapCtrlAuth[n].cmd = c
      /\ n \in InTable(c)' <=> e.cmd = c
  BY <1>1 DEF InTable
<1>5. IsFiniteSet(InTable(c)) /\ Cardinality(InTable(c)') \in Nat
  BY <1>2, SubsetsFinite, AmxConstantsOK
<1> QED
  BY <1>3, <1>4, <1>5, DifferAt

\* ... and in those of a user.
LEMMA EntriesStep ==
    ASSUME Shape, NEW n \in Cmd, NEW e \in [user : User \cup {NoUser}, cmd : 0..MaxCmd],
           Sets(n, e), NEW u
    PROVE  /\ Cardinality(Entries(u)') \in Nat
           /\ Cardinality(Entries(u)') + (IF mapCtrlAuth[n].user = u THEN 1 ELSE 0)
                = Cardinality(Entries(u)) + (IF e.user = u THEN 1 ELSE 0)
<1>1. \A k \in Cmd : mapCtrlAuth'[k] = IF k = n THEN e ELSE mapCtrlAuth[k]
  BY TableStep
<1>2. Entries(u) \in SUBSET Cmd /\ Entries(u)' \in SUBSET Cmd
  BY DEF Entries
<1>3. Entries(u)' \ {n} = Entries(u) \ {n}
  BY <1>1 DEF Entries
<1>4. /\ n \in Entries(u) <=> mapCtrlAuth[n].user = u
      /\ n \in Entries(u)' <=> e.user = u
  BY <1>1 DEF Entries
<1>5. IsFiniteSet(Entries(u)) /\ Cardinality(Entries(u)') \in Nat
  BY <1>2, SubsetsFinite, AmxConstantsOK
<1> QED
  BY <1>3, <1>4, <1>5, DifferAt

\* A command in the table is nowhere else.
LEMMA OnlyInTable ==
    ASSUME AmxInv, NEW c \in Cmd, NEW n \in Cmd, mapCtrlAuth[n].cmd = c
    PROVE  /\ Cardinality(AtDevice(c)) = 0 /\ Count(mq, ControlsOf(c)) = 0
           /\ Cardinality(InTable(c)) = 1 /\ sent[c] = 0 /\ c \notin dropped
           /\ owner[c] # NoUser
<1>1. n \in InTable(c) /\ InTable(c) \in SUBSET Cmd
  BY DEF InTable
<1>2. Cardinality(InTable(c)) # 0
  BY <1>1, SubsetsFinite, FS_EmptySet
<1>3. /\ Cardinality(AtDevice(c)) + Count(mq, ControlsOf(c)) + Cardinality(InTable(c))
           + sent[c] + (IF c \in dropped THEN 1 ELSE 0) = IF owner[c] = NoUser THEN 0 ELSE 1
      /\ Cardinality(AtDevice(c)) \in Nat /\ Count(mq, ControlsOf(c)) \in Nat
      /\ Cardinality(InTable(c)) \in Nat /\ sent[c] \in Nat
  BY PlaceSum
<1> QED
  BY ONLY <1>2, <1>3

\* A command in the queue is nowhere else.
LEMMA OnlyInQueue ==
    ASSUME AmxInv, NEW c \in Cmd, Count(mq, ControlsOf(c)) # 0
    PROVE  /\ AtDevice(c) = {} /\ Cardinality(AtDevice(c)) = 0 /\ Count(mq, ControlsOf(c)) = 1
           /\ Cardinality(InTable(c)) = 0 /\ sent[c] = 0 /\ c \notin dropped
           /\ owner[c] # NoUser /\ \A n \in Cmd : mapCtrlAuth[n].cmd # c
<1>1. /\ Cardinality(AtDevice(c)) + Count(mq, ControlsOf(c)) + Cardinality(InTable(c))
           + sent[c] + (IF c \in dropped THEN 1 ELSE 0) = IF owner[c] = NoUser THEN 0 ELSE 1
      /\ Cardinality(AtDevice(c)) \in Nat /\ Count(mq, ControlsOf(c)) \in Nat
      /\ Cardinality(InTable(c)) \in Nat /\ sent[c] \in Nat
  BY PlaceSum
<1>2. /\ Cardinality(AtDevice(c)) = 0 /\ Count(mq, ControlsOf(c)) = 1
      /\ Cardinality(InTable(c)) = 0 /\ sent[c] = 0 /\ c \notin dropped
      /\ owner[c] # NoUser
  BY <1>1
<1>3. AtDevice(c) \in SUBSET Device /\ InTable(c) \in SUBSET Cmd
  BY DEF AtDevice, InTable
<1>4. AtDevice(c) = {} /\ InTable(c) = {}
  BY <1>2, <1>3, SubsetsFinite, FS_EmptySet
<1> QED
  BY <1>2, <1>4 DEF InTable

\* What the controller's taking of the first message changes.
LEMMA TakeStep ==
    ASSUME Shape, mq # <<>>, mq' = Tail(mq), NEW h, h = Head(mq)
    PROVE  /\ mq' \in Seq(Message) /\ Len(mq') + alive <= QCap
           /\ h \in Message /\ h = mq[1] /\ 1 \in DOMAIN mq
           /\ \A S : /\ \A i \in At(mq', S) : i \in Nat \ {0} /\ i + 1 \in At(mq, S)
                     /\ h \in S => 1 \in At(mq, S)
                     /\ Count(mq', S) \in Nat
                     /\ Count(mq, S) = Count(mq', S) + (IF h \in S THEN 1 ELSE 0)
                     /\ h \notin S => (At(mq', S) = {} <=> At(mq, S) = {})
<1>1. mq \in Seq(Message) /\ alive \in Nat /\ QCap \in Nat /\ Len(mq) + alive <= QCap
  BY AmxConstantsOK DEF Shape
<1>2. /\ mq' \in Seq(Message) /\ Len(mq') = Len(mq) - 1
      /\ h \in Message /\ h = mq[1] /\ 1 \in DOMAIN mq
      /\ \A S : /\ \A i \in At(mq', S) : i + 1 \in At(mq, S)
                /\ Count(mq, S) = Count(mq', S) + (IF h \in S THEN 1 ELSE 0)
  BY <1>1, CountTail
<1>3. Len(mq) \in Nat /\ DOMAIN mq' = 1..Len(mq') /\ Len(mq') \in Nat
  BY <1>1, <1>2, LenProperties
<1>4. Len(mq') + alive <= QCap
  BY <1>1, <1>2, <1>3
<1>5. \A S : \A i \in At(mq', S) : i \in Nat \ {0}
  BY <1>3 DEF At
<1>6. \A S : h \in S => 1 \in At(mq, S)
  BY <1>2 DEF At
<1>7. \A S : Count(mq', S) \in Nat
  BY <1>2, CountType
<1>8. ASSUME NEW S, h \notin S
      PROVE  At(mq', S) = {} <=> At(mq, S) = {}
  <2>1. Count(mq, S) = Count(mq', S) + 0
    BY <1>2, <1>8
  <2>2. Count(mq', S) = Count(mq, S)
    BY <1>7, <2>1
  <2>3. /\ Count(mq, S) = 0 <=> At(mq, S) = {}
        /\ Count(mq', S) = 0 <=> At(mq', S) = {}
    BY <1>1, <1>2, CountType
  <2> QED
    BY <2>2, <2>3
<1> QED
  BY <1>2, <1>4, <1>5, <1>6, <1>7, <1>8

\* The first message taken, the others keep their numbers and their order.
LEMMA TakeKeepsOrder ==
    ASSUME Shape, mq # <<>>, mq' = Tail(mq), AsksFirst, OwnNumber
    PROVE  /\ AsksFirst'
           /\ \A i \in DOMAIN mq' :
                /\ mq'[i].what = "authentication_request" => mq'[i].user = owner[mq'[i].id]
                /\ mq'[i].what = "amx_control_request" => mq'[i].id = mq'[i].cmd
<1>1. \A S : \A i \in At(mq', S) : i \in Nat \ {0} /\ i + 1 \in At(mq, S)
  BY TakeStep
<1>2. AsksFirst'
  <2> SUFFICES ASSUME NEW c \in Cmd, NEW i \in At(mq', ControlsOf(c)), NEW j \in At(mq', AsksOf(c))
               PROVE  j < i
    BY DEF AsksFirst
  <2>1. i + 1 \in At(mq, ControlsOf(c)) /\ j + 1 \in At(mq, AsksOf(c)) /\ i \in Nat /\ j \in Nat
    BY <1>1
  <2>2. j + 1 < i + 1
    BY <2>1 DEF AsksFirst
  <2> QED
    BY <2>1, <2>2
<1>3. \A i \in DOMAIN mq' : i + 1 \in DOMAIN mq /\ mq'[i] = mq[i + 1]
  BY TailElements DEF Shape
<1> QED
  BY <1>2, <1>3 DEF OwnNumber

\* A new entry, which waits for an answer if the server could be asked.
LEMMA AsksKeeps ==
    ASSUME AmxInv, OnAuthenticationRequest, Asks(Head(mq))
    PROVE  AmxInv'
<1> USE DEF AmxInv, deviceVars, boxVars, fateVars, answerVars
<1> SUFFICES ASSUME NEW h, NEW n, NEW u, NEW e, h = Head(mq), n = h.id, u = h.user,
                    e = [user |-> u, cmd |-> 0]
             PROVE  AmxInv'
  OBVIOUS
<1>1. /\ mq # <<>> /\ mq' = Tail(mq) /\ h.what = "authentication_request"
      /\ Sets(n, e)
      /\ dropped' = dropped \cup Held(n) /\ lost' = lost \cup Held(n)
      /\ \/ mAuthServer /\ asked' = [asked EXCEPT ![u] = @ + 1] /\ UNCHANGED regular
         \/ regular' = FALSE /\ UNCHANGED asked
      /\ ctl' \in {"idle", "alive"}
      /\ UNCHANGED <<alive, seq, dev, owner, shared, mAuthServer, link, mAmxBox, boxes, sent,
                     handled, unread, drops>>
  BY DEF OnAuthenticationRequest, Asks, Overwrites, Takes, Sets, Shape
<1>2. /\ mq' \in Seq(Message) /\ Len(mq') + alive <= QCap
      /\ h \in Message /\ h = mq[1] /\ 1 \in DOMAIN mq
      /\ \A S : /\ \A i \in At(mq', S) : i \in Nat \ {0} /\ i + 1 \in At(mq, S)
                /\ h \in S => 1 \in At(mq, S)
                /\ Count(mq', S) \in Nat
                /\ Count(mq, S) = Count(mq', S) + (IF h \in S THEN 1 ELSE 0)
                /\ h \notin S => (At(mq', S) = {} <=> At(mq, S) = {})
  BY <1>1, TakeStep
<1>3. n \in Cmd /\ u \in User /\ h = RequestMessage(n, u)
  BY <1>1, <1>2, MessageKinds
<1>4. /\ \A c : h \notin ControlsOf(c)
      /\ \A v : h \notin AnswersOf(v)
      /\ \A v : h \in RequestsOf(v) <=> v = u
      /\ \A c : h \in AsksOf(c) <=> c = n
      /\ h \notin Reboots
  BY <1>3, RequestKind
<1>5. e \in [user : User \cup {NoUser}, cmd : 0..MaxCmd] /\ e.user = u /\ e.cmd = 0 /\ e # NoEntry
  BY <1>3, AmxConstantsOK DEF NoEntry
<1>6. /\ mapCtrlAuth' \in [Cmd -> [user : User \cup {NoUser}, cmd : 0..MaxCmd]]
      /\ \A k \in Cmd : mapCtrlAuth'[k] = IF k = n THEN e ELSE mapCtrlAuth[k]
  BY <1>1, <1>3, <1>5, TableStep
<1>7. asked' \in [User -> Nat] /\ \A v \in User : asked'[v] \in {asked[v], asked[v] + (IF v = u THEN 1 ELSE 0)}
  <2>1. asked \in [User -> Nat]
    BY DEF Shape
  <2>2. asked' = [asked EXCEPT ![u] = @ + 1] \/ asked' = asked
    BY <1>1
  <2> QED
    BY <1>3, <2>1, <2>2
<1>8. Shape'
  <2>1. regular' \in BOOLEAN /\ dropped' \subseteq Cmd /\ lost' \subseteq dropped'
    BY <1>1 DEF Shape, Held
  <2> QED
    BY <1>1, <1>2, <1>6, <1>7, <2>1 DEF Shape
<1>9. Numbered' /\ DevicesWhole'
  BY <1>1 DEF Numbered, DevicesWhole
<1>10. EntriesWhole'
  BY <1>3, <1>5, <1>6, AmxConstantsOK DEF EntriesWhole
<1>11. OnePlace'
  <2> SUFFICES ASSUME NEW c \in Cmd
               PROVE  Cardinality(AtDevice(c)) + Count(mq', ControlsOf(c)) + Cardinality(InTable(c)')
                        + sent[c] + (IF c \in dropped' THEN 1 ELSE 0)
                        = IF owner[c] = NoUser THEN 0 ELSE 1
    BY <1>1 DEF OnePlace, AtDevice
  <2>1. Count(mq, ControlsOf(c)) = Count(mq', ControlsOf(c)) + 0 /\ Count(mq', ControlsOf(c)) \in Nat
    BY <1>2, <1>4
  <2>2. /\ Cardinality(InTable(c)') \in Nat
        /\ Cardinality(InTable(c)') + (IF mapCtrlAuth[n].cmd = c THEN 1 ELSE 0)
             = Cardinality(InTable(c)) + (IF e.cmd = c THEN 1 ELSE 0)
    BY <1>1, <1>3, <1>5, InTableStep
  <2>3. e.cmd # c /\ (c \in Held(n) <=> mapCtrlAuth[n].cmd = c)
    BY <1>5 DEF Held, Cmd
  <2>4. /\ Cardinality(AtDevice(c)) + Count(mq, ControlsOf(c)) + Cardinality(InTable(c))
             + sent[c] + (IF c \in dropped THEN 1 ELSE 0) = IF owner[c] = NoUser THEN 0 ELSE 1
        /\ Cardinality(AtDevice(c)) \in Nat /\ Count(mq, ControlsOf(c)) \in Nat
        /\ Cardinality(InTable(c)) \in Nat /\ sent[c] \in Nat
    BY PlaceSum
  <2>5. mapCtrlAuth[n].cmd = c => c \notin dropped
    BY <1>3, OnlyInTable
  <2>6. c \in dropped' <=> c \in dropped \/ mapCtrlAuth[n].cmd = c
    BY <1>1, <2>3
  <2> QED
    BY ONLY <2>1, <2>2, <2>3, <2>4, <2>5, <2>6
<1>12. RequestsCounted'
  <2> SUFFICES ASSUME NEW v \in User
               PROVE  Cardinality(Counted(v)) + Count(mq', RequestsOf(v)) + asked'[v]
                        + Count(mq', AnswersOf(v)) + handled[v] + unread[v] <= Cardinality(IssuedBy(v))
    BY <1>1 DEF RequestsCounted, Counted, IssuedBy
  <2>1. /\ Count(mq, RequestsOf(v)) = Count(mq', RequestsOf(v)) + (IF v = u THEN 1 ELSE 0)
        /\ Count(mq, AnswersOf(v)) = Count(mq', AnswersOf(v)) + 0
        /\ Count(mq', RequestsOf(v)) \in Nat /\ Count(mq', AnswersOf(v)) \in Nat
    BY <1>2, <1>4
  <2>2. asked'[v] \in {asked[v], asked[v] + (IF v = u THEN 1 ELSE 0)}
    BY <1>7
  <2>3. /\ Cardinality(Counted(v)) + Count(mq, RequestsOf(v)) + asked[v]
             + Count(mq, AnswersOf(v)) + handled[v] + unread[v] <= Cardinality(IssuedBy(v))
        /\ Cardinality(Counted(v)) \in Nat /\ Count(mq, RequestsOf(v)) \in Nat
        /\ Count(mq, AnswersOf(v)) \in Nat /\ asked[v] \in Nat /\ handled[v] \in Nat /\ unread[v] \in Nat
        /\ Cardinality(IssuedBy(v)) \in Nat
    BY RequestSum
  <2> QED
    BY ONLY <2>1, <2>2, <2>3
<1>13. Unshared' /\ Regular'
  <2> SUFFICES ASSUME ~shared
               PROVE  /\ OwnNumber' /\ AsksOnce' /\ AsksFirst' /\ lost' = {}
                      /\ regular' =>
                           LinkUp' /\ SentDecided' /\ EntriesMatch' /\ ApprovedByAnswers'
    BY <1>1 DEF Unshared, Regular
  <2>2. u = owner[n]
    BY <1>1, <1>2 DEF Unshared, OwnNumber
  <2>3. AsksFirst' /\ OwnNumber'
    <3>1. /\ AsksFirst'
          /\ \A i \in DOMAIN mq' :
               /\ mq'[i].what = "authentication_request" => mq'[i].user = owner[mq'[i].id]
               /\ mq'[i].what = "amx_control_request" => mq'[i].id = mq'[i].cmd
      BY <1>1, TakeKeepsOrder DEF Unshared
    <3>2. \A k \in Cmd : mapCtrlAuth'[k] # NoEntry =>
              mapCtrlAuth'[k].user = owner[k] /\ mapCtrlAuth'[k].cmd \in {0, k}
      BY <1>5, <1>6, <2>2 DEF Unshared, OwnNumber
    <3> QED
      BY <1>1, <3>1, <3>2 DEF Unshared, OwnNumber
  <2>4. At(mq', AsksOf(n)) = {}
    <3> SUFFICES ASSUME NEW i \in At(mq', AsksOf(n))
                 PROVE  FALSE
      OBVIOUS
    <3>1. i \in Nat \ {0} /\ i + 1 \in At(mq, AsksOf(n)) /\ 1 \in At(mq, AsksOf(n))
      BY <1>2, <1>4
    <3>2. i + 1 = 1
      BY <1>3, <3>1 DEF Unshared, AsksOnce
    <3> QED
      BY <3>1, <3>2
  <2>5. mapCtrlAuth[n] = NoEntry /\ AsksAt(n) = {}
    <3>1. At(mq, AsksOf(n)) # {}
      BY <1>2, <1>4
    <3> QED
      BY <1>3, <3>1 DEF Unshared, AsksOnce
  <2>13. lost' = {}
    <3>1. Held(n) = {}
      BY <2>5 DEF Held, NoEntry, Cmd
    <3> QED
      BY <1>1, <3>1 DEF Unshared
  <2>6. \A c : c # n => (At(mq', AsksOf(c)) = {} <=> At(mq, AsksOf(c)) = {})
    BY <1>2, <1>4
  <2>7. \A c : AsksAt(c)' = AsksAt(c)
    BY <1>1 DEF AsksAt
  <2>8. AsksOnce'
    <3> SUFFICES ASSUME NEW c \in Cmd
                 PROVE  /\ AsksAt(c) # {} => At(mq', AsksOf(c)) = {}
                        /\ AsksAt(c) # {} \/ At(mq', AsksOf(c)) # {} => mapCtrlAuth'[c] = NoEntry
                        /\ \A i, j \in At(mq', AsksOf(c)) : i = j
      BY <2>7 DEF AsksOnce
    <3>1. CASE c = n
      BY <2>4, <2>5, <3>1
    <3>2. CASE c # n
      <4>1. /\ AsksAt(c) # {} => At(mq', AsksOf(c)) = {}
            /\ AsksAt(c) # {} \/ At(mq', AsksOf(c)) # {} => mapCtrlAuth'[c] = NoEntry
        BY <1>6, <2>6, <3>2 DEF Unshared, AsksOnce
      <4>2. ASSUME NEW i \in At(mq', AsksOf(c)), NEW j \in At(mq', AsksOf(c))
            PROVE  i = j
        <5>1. i + 1 \in At(mq, AsksOf(c)) /\ j + 1 \in At(mq, AsksOf(c)) /\ i \in Nat /\ j \in Nat
          BY <1>2
        <5>2. i + 1 = j + 1
          BY <5>1 DEF Unshared, AsksOnce
        <5> QED
          BY <5>1, <5>2
      <4> QED
        BY <4>1, <4>2
    <3> QED
      BY <3>1, <3>2
  <2>9. \A c \in Cmd : Waiting(c)' <=> Waiting(c)
    <3> SUFFICES ASSUME NEW c \in Cmd
                 PROVE  Waiting(c)' <=> Waiting(c)
      OBVIOUS
    <3>1. CASE c = n
      <4>1. At(mq, AsksOf(c)) # {} /\ mapCtrlAuth'[c] # NoEntry
        BY <1>2, <1>4, <1>5, <1>6, <3>1
      <4> QED
        BY <4>1 DEF Waiting
    <3>2. CASE c # n
      BY <1>6, <2>6, <2>7, <3>2 DEF Waiting
    <3> QED
      BY <3>1, <3>2
  <2> SUFFICES ASSUME regular', regular, asked' = [asked EXCEPT ![u] = @ + 1]
               PROVE  LinkUp' /\ SentDecided' /\ EntriesMatch' /\ ApprovedByAnswers'
    BY <1>1, <2>3, <2>8, <2>13
  <2>1. LinkUp'
    BY <1>1, <1>2, <1>4 DEF Regular, LinkUp
  <2>10. SentDecided'
    BY <1>1, <2>9 DEF Regular, SentDecided
  <2>11. EntriesMatch'
    <3> SUFFICES ASSUME NEW v \in User
                 PROVE  Cardinality(Entries(v)') = asked'[v] + Count(mq', AnswersOf(v))
      BY DEF EntriesMatch
    <3>1. /\ Cardinality(Entries(v)') \in Nat
          /\ Cardinality(Entries(v)') + (IF mapCtrlAuth[n].user = v THEN 1 ELSE 0)
               = Cardinality(Entries(v)) + (IF e.user = v THEN 1 ELSE 0)
      BY <1>1, <1>3, <1>5, EntriesStep
    <3>2. mapCtrlAuth[n].user # v /\ (e.user = v <=> v = u)
      BY <1>5, <2>5, AmxConstantsOK DEF NoEntry
    <3>3. asked'[v] = asked[v] + (IF v = u THEN 1 ELSE 0)
      <4>1. asked \in [User -> Nat]
        BY DEF Shape
      <4>2. asked' = [asked EXCEPT ![u] = asked[u] + 1]
        OBVIOUS
      <4>3. asked[v] \in Nat
        BY <4>1
      <4> QED
        BY ONLY <4>1, <4>2, <4>3
    <3>4. Count(mq, AnswersOf(v)) = Count(mq', AnswersOf(v)) + 0 /\ Count(mq', AnswersOf(v)) \in Nat
      BY <1>2, <1>4
    <3>5. Cardinality(Entries(v)) = asked[v] + Count(mq, AnswersOf(v)) /\ asked[v] \in Nat
      BY CountsNat DEF Regular, EntriesMatch
    <3> QED
      BY ONLY <3>1, <3>2, <3>3, <3>4, <3>5
  <2>12. ApprovedByAnswers'
    <3>1. \A v \in User : Approved(v)' \in SUBSET Approved(v)
      BY <1>1, <2>9 DEF Approved
    <3> QED
      BY <1>1, <3>1, ApprovedShrinks DEF Regular
  <2> QED
    BY <2>1, <2>10, <2>11, <2>12
<1> QED
  BY <1>8, <1>9, <1>10, <1>11, <1>12, <1>13

\* The first message taken, each command is still asked for once.
LEMMA TakeKeepsOnce ==
    ASSUME Shape, mq # <<>>, mq' = Tail(mq), AsksOnce, NEW c \in Cmd
    PROVE  \A i, j \in At(mq', AsksOf(c)) : i = j
<1> SUFFICES ASSUME NEW i \in At(mq', AsksOf(c)), NEW j \in At(mq', AsksOf(c))
             PROVE  i = j
  OBVIOUS
<1>1. i + 1 \in At(mq, AsksOf(c)) /\ j + 1 \in At(mq, AsksOf(c)) /\ i \in Nat /\ j \in Nat
  BY TakeStep
<1>2. i + 1 = j + 1
  BY <1>1 DEF AsksOnce
<1> QED
  BY <1>1, <1>2

\* Commands that were neither sent nor dropped are now one of the two.
LEMMA FateStep ==
    ASSUME Shape, NEW S \in SUBSET Cmd, \A c \in S : c \notin dropped,
           requestAMX(S) \/ Discards(S)
    PROVE  /\ sent' \in [Cmd -> Nat] /\ dropped' \in SUBSET Cmd
           /\ dropped \in SUBSET dropped' /\ lost' = lost
           /\ \A c \in Cmd : c \notin S => sent'[c] = sent[c]
           /\ \A c \in Cmd :
                /\ sent'[c] \in Nat
                /\ sent'[c] + (IF c \in dropped' THEN 1 ELSE 0)
                     = sent[c] + (IF c \in dropped THEN 1 ELSE 0) + (IF c \in S THEN 1 ELSE 0)
<1>1. sent \in [Cmd -> Nat] /\ dropped \in SUBSET Cmd
  BY DEF Shape
<1>2. CASE /\ sent' = [c \in Cmd |-> IF c \in S THEN sent[c] + 1 ELSE sent[c]]
           /\ UNCHANGED <<dropped, lost>>
  BY <1>1, <1>2
<1>3. CASE dropped' = dropped \cup S /\ UNCHANGED <<sent, lost>>
  BY <1>1, <1>3
<1> QED
  BY <1>2, <1>3 DEF requestAMX, Discards

\* A command that joins the entry of its number.
LEMMA ControlHeldKeeps ==
    ASSUME AmxInv, OnControlRequest, HoldsCommand(Head(mq))
    PROVE  AmxInv'
<1> USE DEF AmxInv, deviceVars, boxVars, authVars, answerVars
<1> SUFFICES ASSUME NEW h, NEW n, NEW x, NEW old, NEW e, h = Head(mq), n = h.id, x = h.cmd,
                    old = mapCtrlAuth[n], e = [old EXCEPT !.cmd = x]
             PROVE  AmxInv'
  OBVIOUS
<1>1. /\ mq # <<>> /\ mq' = Tail(mq) /\ h.what = "amx_control_request"
      /\ old # NoEntry
      /\ Sets(n, e)
      /\ dropped' = dropped \cup Held(n) /\ lost' = lost \cup Held(n)
      /\ UNCHANGED <<alive, seq, dev, owner, shared, ctl, mAuthServer, asked, drops, link, mAmxBox,
                     boxes, sent, handled, unread, regular>>
  BY DEF OnControlRequest, HoldsCommand, Takes, Sets, Overwrites
<1>2. /\ mq' \in Seq(Message) /\ Len(mq') + alive <= QCap
      /\ h \in Message /\ h = mq[1] /\ 1 \in DOMAIN mq
      /\ \A S : /\ \A i \in At(mq', S) : i \in Nat \ {0} /\ i + 1 \in At(mq, S)
                /\ h \in S => 1 \in At(mq, S)
                /\ Count(mq', S) \in Nat
                /\ Count(mq, S) = Count(mq', S) + (IF h \in S THEN 1 ELSE 0)
                /\ h \notin S => (At(mq', S) = {} <=> At(mq, S) = {})
  BY <1>1, TakeStep
<1>3. n \in Cmd /\ x \in Cmd /\ x # 0 /\ h = ControlMessage(n, x)
  BY <1>1, <1>2, MessageKinds DEF Cmd
<1>4. /\ \A c : h \in ControlsOf(c) <=> c = x
      /\ \A v : h \notin AnswersOf(v)
      /\ \A v : h \notin RequestsOf(v)
      /\ \A c : h \notin AsksOf(c)
      /\ h \notin Reboots
  BY <1>3, ControlKind
<1>5. /\ old \in [user : User \cup {NoUser}, cmd : 0..MaxCmd]
      /\ e \in [user : User \cup {NoUser}, cmd : 0..MaxCmd]
      /\ e.user = old.user /\ e.cmd = x /\ e # NoEntry
      /\ old.user # NoUser
  <2>1. old \in [user : User \cup {NoUser}, cmd : 0..MaxCmd] /\ x \in 0..MaxCmd
    BY <1>3 DEF Shape, Cmd
  <2>2. old.user # NoUser
    BY <1>1, <1>3, <2>1 DEF EntriesWhole, NoEntry
  <2> QED
    BY <1>3, <2>1, <2>2 DEF NoEntry
<1>6. /\ mapCtrlAuth' \in [Cmd -> [user : User \cup {NoUser}, cmd : 0..MaxCmd]]
      /\ \A k \in Cmd : mapCtrlAuth'[k] = IF k = n THEN e ELSE mapCtrlAuth[k]
  BY <1>1, <1>3, <1>5, TableStep
<1>7. /\ Count(mq, ControlsOf(x)) # 0
      /\ AtDevice(x) = {} /\ sent[x] = 0 /\ x \notin dropped
      /\ \A k \in Cmd : mapCtrlAuth[k].cmd # x
  <2>1. Count(mq, ControlsOf(x)) # 0
    BY <1>2, <1>4
  <2> QED
    BY <1>3, <2>1, OnlyInQueue
<1>8. Shape'
  <2>1. dropped' \subseteq Cmd /\ lost' \subseteq dropped'
    BY <1>1 DEF Shape, Held
  <2> QED
    BY <1>1, <1>2, <1>6, <2>1 DEF Shape
<1>9. Numbered' /\ DevicesWhole'
  BY <1>1 DEF Numbered, DevicesWhole
<1>10. EntriesWhole'
  BY <1>3, <1>5, <1>6 DEF EntriesWhole
<1>11. OnePlace'
  <2> SUFFICES ASSUME NEW c \in Cmd
               PROVE  Cardinality(AtDevice(c)) + Count(mq', ControlsOf(c)) + Cardinality(InTable(c)')
                        + sent[c] + (IF c \in dropped' THEN 1 ELSE 0)
                        = IF owner[c] = NoUser THEN 0 ELSE 1
    BY <1>1 DEF OnePlace, AtDevice
  <2>1. /\ Count(mq, ControlsOf(c)) = Count(mq', ControlsOf(c)) + (IF c = x THEN 1 ELSE 0)
        /\ Count(mq', ControlsOf(c)) \in Nat
    BY <1>2, <1>4
  <2>2. /\ Cardinality(InTable(c)') \in Nat
        /\ Cardinality(InTable(c)') + (IF old.cmd = c THEN 1 ELSE 0)
             = Cardinality(InTable(c)) + (IF c = x THEN 1 ELSE 0)
    BY <1>1, <1>3, <1>5, InTableStep
  <2>3. old.cmd = c => c \notin dropped
    BY <1>3, OnlyInTable
  <2>4. c \in dropped' <=> c \in dropped \/ old.cmd = c
    BY <1>1 DEF Held
  <2>5. /\ Cardinality(AtDevice(c)) + Count(mq, ControlsOf(c)) + Cardinality(InTable(c))
             + sent[c] + (IF c \in dropped THEN 1 ELSE 0) = IF owner[c] = NoUser THEN 0 ELSE 1
        /\ Cardinality(AtDevice(c)) \in Nat /\ Count(mq, ControlsOf(c)) \in Nat
        /\ Cardinality(InTable(c)) \in Nat /\ sent[c] \in Nat
    BY PlaceSum
  <2>6. (IF c \in dropped' THEN 1 ELSE 0)
          = (IF c \in dropped THEN 1 ELSE 0) + (IF old.cmd = c THEN 1 ELSE 0)
    BY ONLY <2>3, <2>4
  <2>7. Count(mq', ControlsOf(c)) + Cardinality(InTable(c)') + (IF old.cmd = c THEN 1 ELSE 0)
          = Count(mq, ControlsOf(c)) + Cardinality(InTable(c))
    BY ONLY <2>1, <2>2, <2>5
  <2> QED
    BY ONLY <2>1, <2>2, <2>5, <2>6, <2>7
<1>12. \A v \in User : /\ Count(mq', RequestsOf(v)) = Count(mq, RequestsOf(v))
                       /\ Count(mq', AnswersOf(v)) = Count(mq, AnswersOf(v))
  <2> SUFFICES ASSUME NEW v \in User
               PROVE  /\ Count(mq', RequestsOf(v)) = Count(mq, RequestsOf(v))
                      /\ Count(mq', AnswersOf(v)) = Count(mq, AnswersOf(v))
    OBVIOUS
  <2>1. /\ Count(mq, RequestsOf(v)) = Count(mq', RequestsOf(v)) + 0
        /\ Count(mq, AnswersOf(v)) = Count(mq', AnswersOf(v)) + 0
        /\ Count(mq', RequestsOf(v)) \in Nat /\ Count(mq', AnswersOf(v)) \in Nat
    BY <1>2, <1>4
  <2> QED
    BY ONLY <2>1
<1>13. RequestsCounted'
  BY <1>1, <1>12 DEF RequestsCounted, Counted, IssuedBy
<1>14. Unshared' /\ Regular'
  <2> SUFFICES ASSUME ~shared
               PROVE  /\ OwnNumber' /\ AsksOnce' /\ AsksFirst' /\ lost' = {}
                      /\ regular' =>
                           LinkUp' /\ SentDecided' /\ EntriesMatch' /\ ApprovedByAnswers'
    BY <1>1 DEF Unshared, Regular
  <2>2. n = x /\ old.user = owner[n]
    BY <1>1, <1>2, <1>3 DEF Unshared, OwnNumber
  <2>3. /\ AsksFirst'
        /\ \A i \in DOMAIN mq' :
             /\ mq'[i].what = "authentication_request" => mq'[i].user = owner[mq'[i].id]
             /\ mq'[i].what = "amx_control_request" => mq'[i].id = mq'[i].cmd
    BY <1>1, TakeKeepsOrder DEF Unshared
  <2>11. lost' = {}
    <3>1. old.cmd \in {0, n}
      BY <1>1, <1>3 DEF Unshared, OwnNumber
    <3>2. Held(n) = {}
      BY <1>3, <1>7, <2>2, <3>1 DEF Held, Cmd
    <3> QED
      BY <1>1, <3>2 DEF Unshared
  <2>4. OwnNumber'
    <3>1. \A k \in Cmd : mapCtrlAuth'[k] # NoEntry =>
              mapCtrlAuth'[k].user = owner[k] /\ mapCtrlAuth'[k].cmd \in {0, k}
      BY <1>5, <1>6, <2>2 DEF Unshared, OwnNumber
    <3> QED
      BY <1>1, <2>3, <3>1 DEF Unshared, OwnNumber
  <2>5. \A c \in Cmd : /\ AsksAt(c)' = AsksAt(c)
                       /\ At(mq', AsksOf(c)) = {} <=> At(mq, AsksOf(c)) = {}
                       /\ mapCtrlAuth'[c] = NoEntry <=> mapCtrlAuth[c] = NoEntry
    BY <1>1, <1>2, <1>4, <1>5, <1>6 DEF AsksAt
  <2>6. AsksOnce'
    <3>1. \A c \in Cmd : \A i, j \in At(mq', AsksOf(c)) : i = j
      BY <1>1, TakeKeepsOnce DEF Unshared
    <3> QED
      BY <2>5, <3>1 DEF Unshared, AsksOnce
  <2> SUFFICES ASSUME regular'
               PROVE  LinkUp' /\ SentDecided' /\ EntriesMatch' /\ ApprovedByAnswers'
    BY <2>3, <2>4, <2>6, <2>11
  <2>1. LinkUp'
    BY <1>1, <1>2, <1>4 DEF Regular, LinkUp
  <2>7. \A c \in Cmd : Waiting(c)' <=> Waiting(c)
    BY <2>5 DEF Waiting
  <2>8. SentDecided'
    BY <1>1, <2>7 DEF Regular, SentDecided
  <2>9. EntriesMatch'
    <3>1. \A k \in Cmd : mapCtrlAuth'[k].user = mapCtrlAuth[k].user
      BY <1>5, <1>6
    <3>2. \A v : Entries(v)' = Entries(v)
      BY <3>1 DEF Entries
    <3> QED
      BY <1>1, <1>12, <3>2 DEF Regular, EntriesMatch
  <2>10. ApprovedByAnswers'
    <3>1. \A v \in User : Approved(v)' \in SUBSET Approved(v)
      BY <1>1, <2>7 DEF Approved
    <3> QED
      BY <1>1, <3>1, ApprovedShrinks DEF Regular
  <2> QED
    BY <2>1, <2>8, <2>9, <2>10
<1> QED
  BY <1>8, <1>9, <1>10, <1>11, <1>13, <1>14

\* A command without a pending authentication goes to the box, if there is one.
LEMMA ControlSentKeeps ==
    ASSUME AmxInv, OnControlRequest, ~HoldsCommand(Head(mq))
    PROVE  AmxInv'
<1> USE DEF AmxInv, deviceVars, boxVars, authVars, answerVars
<1> SUFFICES ASSUME NEW h, NEW n, NEW x, h = Head(mq), n = h.id, x = h.cmd
             PROVE  AmxInv'
  OBVIOUS
<1>1. /\ mq # <<>> /\ mq' = Tail(mq) /\ h.what = "amx_control_request"
      /\ mAuthServer => mapCtrlAuth[n] = NoEntry
      /\ requestAMX({x})
      /\ UNCHANGED <<alive, seq, dev, owner, shared, mapCtrlAuth, ctl, mAuthServer, asked, drops,
                     link, mAmxBox, boxes, handled, unread, regular>>
  BY DEF OnControlRequest, HoldsCommand, Takes
<1>2. /\ mq' \in Seq(Message) /\ Len(mq') + alive <= QCap
      /\ h \in Message /\ h = mq[1] /\ 1 \in DOMAIN mq
      /\ \A S : /\ \A i \in At(mq', S) : i \in Nat \ {0} /\ i + 1 \in At(mq, S)
                /\ h \in S => 1 \in At(mq, S)
                /\ Count(mq', S) \in Nat
                /\ Count(mq, S) = Count(mq', S) + (IF h \in S THEN 1 ELSE 0)
                /\ h \notin S => (At(mq', S) = {} <=> At(mq, S) = {})
  BY <1>1, TakeStep
<1>3. n \in Cmd /\ x \in Cmd /\ h = ControlMessage(n, x)
  BY <1>1, <1>2, MessageKinds
<1>4. /\ \A c : h \in ControlsOf(c) <=> c = x
      /\ \A v : h \notin AnswersOf(v)
      /\ \A v : h \notin RequestsOf(v)
      /\ \A c : h \notin AsksOf(c)
      /\ h \notin Reboots
  BY <1>3, ControlKind
<1>5. AtDevice(x) = {} /\ x \notin dropped
  <2>1. Count(mq, ControlsOf(x)) # 0
    BY <1>2, <1>4
  <2> QED
    BY <1>3, <2>1, OnlyInQueue
<1>6. /\ sent' \in [Cmd -> Nat] /\ dropped' \in SUBSET Cmd
      /\ dropped \in SUBSET dropped' /\ lost' = lost
      /\ \A c \in Cmd : c \notin {x} => sent'[c] = sent[c]
      /\ \A c \in Cmd :
           /\ sent'[c] \in Nat
           /\ sent'[c] + (IF c \in dropped' THEN 1 ELSE 0)
                = sent[c] + (IF c \in dropped THEN 1 ELSE 0) + (IF c \in {x} THEN 1 ELSE 0)
  <2>1. {x} \in SUBSET Cmd /\ \A c \in {x} : c \notin dropped
    BY <1>3, <1>5
  <2> QED
    BY <1>1, <2>1, FateStep
<1>7. Shape'
  BY <1>1, <1>2, <1>6 DEF Shape
<1>8. Numbered' /\ DevicesWhole' /\ EntriesWhole'
  BY <1>1 DEF Numbered, DevicesWhole, EntriesWhole
<1>9. OnePlace'
  <2> SUFFICES ASSUME NEW c \in Cmd
               PROVE  Cardinality(AtDevice(c)) + Count(mq', ControlsOf(c)) + Cardinality(InTable(c))
                        + sent'[c] + (IF c \in dropped' THEN 1 ELSE 0)
                        = IF owner[c] = NoUser THEN 0 ELSE 1
    BY <1>1 DEF OnePlace, AtDevice, InTable
  <2>1. /\ Count(mq, ControlsOf(c)) = Count(mq', ControlsOf(c)) + (IF c = x THEN 1 ELSE 0)
        /\ Count(mq', ControlsOf(c)) \in Nat
    BY <1>2, <1>4
  <2>2. /\ sent'[c] \in Nat
        /\ sent'[c] + (IF c \in dropped' THEN 1 ELSE 0)
             = sent[c] + (IF c \in dropped THEN 1 ELSE 0) + (IF c = x THEN 1 ELSE 0)
    BY <1>6
  <2>3. /\ Cardinality(AtDevice(c)) + Count(mq, ControlsOf(c)) + Cardinality(InTable(c))
             + sent[c] + (IF c \in dropped THEN 1 ELSE 0) = IF owner[c] = NoUser THEN 0 ELSE 1
        /\ Cardinality(AtDevice(c)) \in Nat /\ Count(mq, ControlsOf(c)) \in Nat
        /\ Cardinality(InTable(c)) \in Nat /\ sent[c] \in Nat
    BY PlaceSum
  <2> QED
    BY ONLY <2>1, <2>2, <2>3
<1>10. \A v \in User : /\ Count(mq', RequestsOf(v)) = Count(mq, RequestsOf(v))
                       /\ Count(mq', AnswersOf(v)) = Count(mq, AnswersOf(v))
  <2> SUFFICES ASSUME NEW v \in User
               PROVE  /\ Count(mq', RequestsOf(v)) = Count(mq, RequestsOf(v))
                      /\ Count(mq', AnswersOf(v)) = Count(mq, AnswersOf(v))
    OBVIOUS
  <2>1. /\ Count(mq, RequestsOf(v)) = Count(mq', RequestsOf(v)) + 0
        /\ Count(mq, AnswersOf(v)) = Count(mq', AnswersOf(v)) + 0
        /\ Count(mq', RequestsOf(v)) \in Nat /\ Count(mq', AnswersOf(v)) \in Nat
    BY <1>2, <1>4
  <2> QED
    BY ONLY <2>1
<1>11. RequestsCounted'
  BY <1>1, <1>10 DEF RequestsCounted, Counted, IssuedBy
<1>12. Unshared' /\ Regular'
  <2> SUFFICES ASSUME ~shared
               PROVE  /\ OwnNumber' /\ AsksOnce' /\ AsksFirst' /\ lost' = {}
                      /\ regular' =>
                           LinkUp' /\ SentDecided' /\ EntriesMatch' /\ ApprovedByAnswers'
    BY <1>1 DEF Unshared, Regular
  <2>2. n = x /\ lost' = {}
    BY <1>1, <1>2, <1>6 DEF Unshared, OwnNumber
  <2>3. AsksFirst' /\ OwnNumber'
    <3>1. /\ AsksFirst'
          /\ \A i \in DOMAIN mq' :
               /\ mq'[i].what = "authentication_request" => mq'[i].user = owner[mq'[i].id]
               /\ mq'[i].what = "amx_control_request" => mq'[i].id = mq'[i].cmd
      BY <1>1, TakeKeepsOrder DEF Unshared
    <3> QED
      BY <1>1, <3>1 DEF Unshared, OwnNumber
  <2>4. \A c \in Cmd : AsksAt(c)' = AsksAt(c) /\ (At(mq', AsksOf(c)) = {} <=> At(mq, AsksOf(c)) = {})
    BY <1>1, <1>2, <1>4 DEF AsksAt
  <2>5. AsksOnce'
    <3>1. \A c \in Cmd : \A i, j \in At(mq', AsksOf(c)) : i = j
      BY <1>1, TakeKeepsOnce DEF Unshared
    <3> QED
      BY <1>1, <2>4, <3>1 DEF Unshared, AsksOnce
  <2> SUFFICES ASSUME regular'
               PROVE  LinkUp' /\ SentDecided' /\ EntriesMatch' /\ ApprovedByAnswers'
    BY <2>2, <2>3, <2>5
  <2>1. LinkUp' /\ mAuthServer
    BY <1>1, <1>2, <1>4 DEF Regular, LinkUp
  <2>6. \A c \in Cmd : Waiting(c)' <=> Waiting(c)
    BY <1>1, <2>4 DEF Waiting
  <2>7. ~Waiting(x)
    <3>1. mapCtrlAuth[x] = NoEntry
      BY <1>1, <2>1, <2>2
    <3>2. AsksAt(x) = {}
      <4>1. AsksAt(x) \in SUBSET AtDevice(x)
        BY DEF AsksAt, AtDevice
      <4> QED
        BY <1>5, <4>1
    <3>3. At(mq, AsksOf(x)) = {}
      <4> SUFFICES ASSUME NEW j \in At(mq, AsksOf(x))
                   PROVE  FALSE
        OBVIOUS
      <4>1. 1 \in At(mq, ControlsOf(x))
        BY <1>2, <1>4
      <4>2. j < 1
        BY <1>3, <4>1 DEF Unshared, AsksFirst
      <4>3. j \in 1..Len(mq) /\ Len(mq) \in Nat
        BY LenProperties DEF At, Shape
      <4> QED
        BY <4>2, <4>3
    <3> QED
      BY <3>1, <3>2, <3>3 DEF Waiting
  <2>8. SentDecided'
    <3> SUFFICES ASSUME NEW c \in Cmd, sent'[c] > 0
                 PROVE  ~Waiting(c)
      BY <2>6 DEF SentDecided
    <3>1. CASE c = x
      BY <2>7, <3>1
    <3>2. CASE c # x
      <4>1. sent[c] > 0
        BY <1>6, <3>2
      <4>2. SentDecided
        BY <1>1 DEF Regular
      <4> QED
        BY <4>1, <4>2 DEF SentDecided
    <3> QED
      BY <3>1, <3>2
  <2>9. EntriesMatch'
    BY <1>1, <1>10 DEF Regular, EntriesMatch, Entries
  <2>10. ApprovedByAnswers'
    <3>1. \A v \in User : Approved(v)' \in SUBSET Approved(v)
      BY <1>1, <1>6, <2>6 DEF Approved
    <3> QED
      BY <1>1, <3>1, ApprovedShrinks DEF Regular
  <2> QED
    BY <2>1, <2>8, <2>9, <2>10
<1> QED
  BY <1>7, <1>8, <1>9, <1>11, <1>12

\* The table is cleared: what it held is dropped.
LEMMA RebootRequestKeeps ==
    ASSUME AmxInv, OnRebootRequest
    PROVE  AmxInv'
<1> USE DEF AmxInv, deviceVars, boxVars, authVars, answerVars
<1> SUFFICES ASSUME NEW h, h = Head(mq)
             PROVE  AmxInv'
  OBVIOUS
<1>1. /\ mq # <<>> /\ mq' = Tail(mq) /\ h.what = "reboot_request"
      /\ mapCtrlAuth' = [n \in Cmd |-> NoEntry]
      /\ dropped' = dropped \cup UNION {Held(n) : n \in Cmd}
      /\ UNCHANGED <<alive, seq, dev, owner, shared, ctl, mAuthServer, asked, drops, link, mAmxBox,
                     boxes, sent, lost, handled, unread, regular>>
  BY DEF OnRebootRequest, Discards, Takes
<1>2. /\ mq' \in Seq(Message) /\ Len(mq') + alive <= QCap
      /\ h \in Message /\ h = mq[1] /\ 1 \in DOMAIN mq
      /\ \A S : /\ \A i \in At(mq', S) : i \in Nat \ {0} /\ i + 1 \in At(mq, S)
                /\ h \in S => 1 \in At(mq, S)
                /\ Count(mq', S) \in Nat
                /\ Count(mq, S) = Count(mq', S) + (IF h \in S THEN 1 ELSE 0)
                /\ h \notin S => (At(mq', S) = {} <=> At(mq, S) = {})
  BY <1>1, TakeStep
<1>3. h = RebootMessage
  BY <1>1, <1>2, MessageKinds
<1>4. /\ \A c : h \notin ControlsOf(c)
      /\ \A v : h \notin AnswersOf(v)
      /\ \A v : h \notin RequestsOf(v)
      /\ \A c : h \notin AsksOf(c)
      /\ h \in Reboots
  BY <1>3, RebootKind
<1>5. ~regular
  BY <1>2, <1>4 DEF Regular, LinkUp
<1>6. NoEntry \in [user : User \cup {NoUser}, cmd : 0..MaxCmd] /\ NoEntry.cmd = 0
  BY AmxConstantsOK DEF NoEntry
<1>7. Shape'
  <2>1. dropped' \subseteq Cmd
    BY <1>1 DEF Shape, Held
  <2>2. mapCtrlAuth' \in [Cmd -> [user : User \cup {NoUser}, cmd : 0..MaxCmd]]
    BY <1>1, <1>6
  <2> QED
    BY <1>1, <1>2, <2>1, <2>2 DEF Shape
<1>8. Numbered' /\ DevicesWhole' /\ EntriesWhole'
  BY <1>1, <1>6 DEF Numbered, DevicesWhole, EntriesWhole
<1>9. OnePlace'
  <2> SUFFICES ASSUME NEW c \in Cmd
               PROVE  Cardinality(AtDevice(c)) + Count(mq', ControlsOf(c)) + Cardinality(InTable(c)')
                        + sent[c] + (IF c \in dropped' THEN 1 ELSE 0)
                        = IF owner[c] = NoUser THEN 0 ELSE 1
    BY <1>1 DEF OnePlace, AtDevice
  <2>1. Count(mq, ControlsOf(c)) = Count(mq', ControlsOf(c)) + 0 /\ Count(mq', ControlsOf(c)) \in Nat
    BY <1>2, <1>4
  <2>2. Cardinality(InTable(c)') = 0
    <3>1. InTable(c)' = {}
      BY <1>1, <1>6 DEF InTable, Cmd
    <3> QED
      BY <3>1, FS_EmptySet
  <2>3. /\ Cardinality(AtDevice(c)) + Count(mq, ControlsOf(c)) + Cardinality(InTable(c))
             + sent[c] + (IF c \in dropped THEN 1 ELSE 0) = IF owner[c] = NoUser THEN 0 ELSE 1
        /\ Cardinality(AtDevice(c)) \in Nat /\ Count(mq, ControlsOf(c)) \in Nat
        /\ Cardinality(InTable(c)) \in Nat /\ sent[c] \in Nat
    BY PlaceSum
  <2>4. CASE \E n \in Cmd : mapCtrlAuth[n].cmd = c
    <3>1. PICK n \in Cmd : mapCtrlAuth[n].cmd = c
      BY <2>4
    <3>2. c \in dropped'
      BY <1>1, <3>1 DEF Held
    <3>3. Cardinality(InTable(c)) = 1 /\ c \notin dropped
      BY <3>1, OnlyInTable
    <3> QED
      BY ONLY <2>1, <2>2, <2>3, <3>2, <3>3
  <2>5. CASE ~\E n \in Cmd : mapCtrlAuth[n].cmd = c
    <3>1. InTable(c) = {}
      BY <2>5 DEF InTable
    <3>2. Cardinality(InTable(c)) = 0
      BY <3>1, FS_EmptySet
    <3>3. c \in dropped' <=> c \in dropped
      BY <1>1, <2>5 DEF Held
    <3> QED
      BY ONLY <2>1, <2>2, <2>3, <3>2, <3>3
  <2> QED
    BY <2>4, <2>5
<1>10. RequestsCounted'
  <2> SUFFICES ASSUME NEW v \in User
               PROVE  Cardinality(Counted(v)) + Count(mq', RequestsOf(v)) + asked[v]
                        + Count(mq', AnswersOf(v)) + handled[v] + unread[v] <= Cardinality(IssuedBy(v))
    BY <1>1 DEF RequestsCounted, Counted, IssuedBy
  <2>1. /\ Count(mq, RequestsOf(v)) = Count(mq', RequestsOf(v)) + 0
        /\ Count(mq, AnswersOf(v)) = Count(mq', AnswersOf(v)) + 0
        /\ Count(mq', RequestsOf(v)) \in Nat /\ Count(mq', AnswersOf(v)) \in Nat
    BY <1>2, <1>4
  <2> QED
    BY <2>1, RequestSum
<1>11. Regular'
  BY <1>1, <1>5 DEF Regular
<1>12. Unshared'
  <2> SUFFICES ASSUME ~shared
               PROVE  OwnNumber' /\ AsksOnce' /\ AsksFirst' /\ lost' = {}
    BY <1>1 DEF Unshared
  <2>1. /\ AsksFirst'
        /\ \A i \in DOMAIN mq' :
             /\ mq'[i].what = "authentication_request" => mq'[i].user = owner[mq'[i].id]
             /\ mq'[i].what = "amx_control_request" => mq'[i].id = mq'[i].cmd
    BY <1>1, TakeKeepsOrder DEF Unshared
  <2>2. OwnNumber'
    BY <1>1, <2>1 DEF Unshared, OwnNumber
  <2>3. \A c \in Cmd : AsksAt(c)' = AsksAt(c) /\ (At(mq', AsksOf(c)) = {} <=> At(mq, AsksOf(c)) = {})
    BY <1>1, <1>2, <1>4 DEF AsksAt
  <2>4. AsksOnce'
    <3>1. \A c \in Cmd : \A i, j \in At(mq', AsksOf(c)) : i = j
      BY <1>1, TakeKeepsOnce DEF Unshared
    <3> QED
      BY <1>1, <2>3, <3>1 DEF Unshared, AsksOnce
  <2> QED
    BY <1>1, <2>1, <2>2, <2>4 DEF Unshared
<1> QED
  BY <1>7, <1>8, <1>9, <1>10, <1>11, <1>12

\* One more answer, or one more request that cannot be read, lets at most one more
\* command of its user pass.
LEMMA ApprovedGrows ==
    ASSUME Shape, ApprovedByAnswers, NEW n \in Cmd, NEW u \in User,
           \/ handled' = [handled EXCEPT ![u] = @ + 1] /\ UNCHANGED unread
           \/ unread' = [unread EXCEPT ![u] = @ + 1] /\ UNCHANGED handled,
           \A v \in User : Approved(v)' \in SUBSET (Approved(v) \cup (IF v = u THEN {n} ELSE {}))
    PROVE  ApprovedByAnswers'
<1> SUFFICES ASSUME NEW v \in User
             PROVE  Cardinality(Approved(v)') <= handled'[v] + unread'[v]
  BY DEF ApprovedByAnswers
<1>1. Approved(v) \in SUBSET Cmd /\ Approved(v)' \in SUBSET Cmd
  BY DEF Approved
<1>2. /\ IsFiniteSet(Approved(v)) /\ Cardinality(Approved(v)) \in Nat
      /\ Cardinality(Approved(v)') \in Nat
  BY <1>1, SubsetsFinite, AmxConstantsOK
<1>3. /\ Cardinality(Approved(v)) <= handled[v] + unread[v]
      /\ handled[v] \in Nat /\ unread[v] \in Nat /\ handled'[v] \in Nat /\ unread'[v] \in Nat
      /\ handled'[v] + unread'[v] = handled[v] + unread[v] + (IF v = u THEN 1 ELSE 0)
  <2>1. /\ Cardinality(Approved(v)) <= handled[v] + unread[v]
        /\ handled[v] \in Nat /\ unread[v] \in Nat
    BY DEF ApprovedByAnswers, Shape
  <2>2. \/ handled'[v] = handled[v] + (IF v = u THEN 1 ELSE 0) /\ unread'[v] = unread[v]
        \/ unread'[v] = unread[v] + (IF v = u THEN 1 ELSE 0) /\ handled'[v] = handled[v]
    <3>1. handled \in [User -> Nat] /\ unread \in [User -> Nat]
      BY DEF Shape
    <3>2. CASE handled' = [handled EXCEPT ![u] = @ + 1] /\ UNCHANGED unread
      BY ONLY <2>1, <3>1, <3>2
    <3>3. CASE unread' = [unread EXCEPT ![u] = @ + 1] /\ UNCHANGED handled
      BY ONLY <2>1, <3>1, <3>3
    <3> QED
      BY <3>2, <3>3
  <2> QED
    BY ONLY <2>1, <2>2
<1>4. CASE v = u
  <2>1. /\ IsFiniteSet(Approved(v) \cup {n})
        /\ Cardinality(Approved(v) \cup {n}) \in Nat
        /\ Cardinality(Approved(v) \cup {n}) <= Cardinality(Approved(v)) + 1
    <3>1. /\ IsFiniteSet(Approved(v) \cup {n})
          /\ Cardinality(Approved(v) \cup {n})
               \in {Cardinality(Approved(v)), Cardinality(Approved(v)) + 1}
      BY <1>2, FS_AddElement
    <3> QED
      BY <1>2, <3>1
  <2>2. Approved(v)' \in SUBSET (Approved(v) \cup {n})
    BY <1>4
  <2>3. Cardinality(Approved(v)') <= Cardinality(Approved(v) \cup {n})
    BY <2>1, <2>2, FS_Subset
  <2> QED
    BY <1>2, <1>3, <1>4, <2>1, <2>3
<1>5. CASE v # u
  <2>1. Approved(v)' \in SUBSET Approved(v)
    BY <1>5
  <2>2. Cardinality(Approved(v)') <= Cardinality(Approved(v))
    BY <1>2, <2>1, FS_Subset
  <2> QED
    BY <1>2, <1>3, <1>5, <2>2
<1> QED
  BY <1>4, <1>5

\* A request whose text cannot be read is forgotten: its command is let pass.
LEMMA CannotReadKeeps ==
    ASSUME AmxInv, OnAuthenticationRequest, CannotRead(Head(mq))
    PROVE  AmxInv'
<1> USE DEF AmxInv, deviceVars, boxVars, fateVars
<1> SUFFICES ASSUME NEW h, NEW n, NEW u, h = Head(mq), n = h.id, u = h.user
             PROVE  AmxInv'
  OBVIOUS
<1>1. /\ mq # <<>> /\ mq' = Tail(mq) /\ h.what = "authentication_request"
      /\ unread' = [unread EXCEPT ![u] = @ + 1]
      /\ UNCHANGED <<alive, seq, dev, owner, shared, mapCtrlAuth, ctl, mAuthServer, asked, drops,
                     link, mAmxBox, boxes, sent, dropped, lost, handled, regular>>
  BY DEF OnAuthenticationRequest, CannotRead, Takes
<1>2. /\ mq' \in Seq(Message) /\ Len(mq') + alive <= QCap
      /\ h \in Message /\ h = mq[1] /\ 1 \in DOMAIN mq
      /\ \A S : /\ \A i \in At(mq', S) : i \in Nat \ {0} /\ i + 1 \in At(mq, S)
                /\ h \in S => 1 \in At(mq, S)
                /\ Count(mq', S) \in Nat
                /\ Count(mq, S) = Count(mq', S) + (IF h \in S THEN 1 ELSE 0)
                /\ h \notin S => (At(mq', S) = {} <=> At(mq, S) = {})
  BY <1>1, TakeStep
<1>3. n \in Cmd /\ u \in User /\ h = RequestMessage(n, u)
  BY <1>1, <1>2, MessageKinds
<1>4. /\ \A c : h \notin ControlsOf(c)
      /\ \A v : h \notin AnswersOf(v)
      /\ \A v : h \in RequestsOf(v) <=> v = u
      /\ \A c : h \in AsksOf(c) <=> c = n
      /\ h \notin Reboots
  BY <1>3, RequestKind
<1>5. /\ unread' \in [User -> Nat]
      /\ \A v \in User : unread'[v] = unread[v] + (IF v = u THEN 1 ELSE 0)
  <2>1. unread \in [User -> Nat] /\ unread' = [unread EXCEPT ![u] = @ + 1]
    BY <1>1 DEF Shape
  <2> QED
    BY ONLY <1>3, <2>1
<1>6. Shape'
  BY <1>1, <1>2, <1>5 DEF Shape
<1>7. Numbered' /\ DevicesWhole' /\ EntriesWhole'
  BY <1>1 DEF Numbered, DevicesWhole, EntriesWhole
<1>8. OnePlace'
  <2>1. ASSUME NEW c \in Cmd
        PROVE  Count(mq', ControlsOf(c)) = Count(mq, ControlsOf(c))
    <3>1. Count(mq, ControlsOf(c)) = Count(mq', ControlsOf(c)) + 0 /\ Count(mq', ControlsOf(c)) \in Nat
      BY <1>2, <1>4
    <3> QED
      BY ONLY <3>1
  <2> QED
    BY <1>1, <2>1 DEF OnePlace, AtDevice, InTable
<1>9. \A v \in User :
          /\ Count(mq, RequestsOf(v)) = Count(mq', RequestsOf(v)) + (IF v = u THEN 1 ELSE 0)
          /\ Count(mq, AnswersOf(v)) = Count(mq', AnswersOf(v)) + 0
          /\ Count(mq', RequestsOf(v)) \in Nat /\ Count(mq', AnswersOf(v)) \in Nat
  BY <1>2, <1>4
<1>10. RequestsCounted'
  <2> SUFFICES ASSUME NEW v \in User
               PROVE  Cardinality(Counted(v)) + Count(mq', RequestsOf(v)) + asked[v]
                        + Count(mq', AnswersOf(v)) + handled[v] + unread'[v]
                          <= Cardinality(IssuedBy(v))
    BY <1>1 DEF RequestsCounted, Counted, IssuedBy
  <2>1. /\ Count(mq, RequestsOf(v)) = Count(mq', RequestsOf(v)) + (IF v = u THEN 1 ELSE 0)
        /\ Count(mq, AnswersOf(v)) = Count(mq', AnswersOf(v)) + 0
        /\ Count(mq', RequestsOf(v)) \in Nat /\ Count(mq', AnswersOf(v)) \in Nat
        /\ unread'[v] = unread[v] + (IF v = u THEN 1 ELSE 0)
    BY <1>5, <1>9
  <2>2. /\ Cardinality(Counted(v)) + Count(mq, RequestsOf(v)) + asked[v]
             + Count(mq, AnswersOf(v)) + handled[v] + unread[v] <= Cardinality(IssuedBy(v))
        /\ Cardinality(Counted(v)) \in Nat /\ Count(mq, RequestsOf(v)) \in Nat
        /\ Count(mq, AnswersOf(v)) \in Nat /\ asked[v] \in Nat /\ handled[v] \in Nat
        /\ unread[v] \in Nat /\ Cardinality(IssuedBy(v)) \in Nat
    BY RequestSum
  <2> QED
    BY ONLY <2>1, <2>2
<1>11. Unshared' /\ Regular'
  <2> SUFFICES ASSUME ~shared
               PROVE  /\ OwnNumber' /\ AsksOnce' /\ AsksFirst' /\ lost' = {}
                      /\ regular' =>
                           LinkUp' /\ SentDecided' /\ EntriesMatch' /\ ApprovedByAnswers'
    BY <1>1 DEF Unshared, Regular
  <2>1. /\ AsksFirst'
        /\ \A i \in DOMAIN mq' :
             /\ mq'[i].what = "authentication_request" => mq'[i].user = owner[mq'[i].id]
             /\ mq'[i].what = "amx_control_request" => mq'[i].id = mq'[i].cmd
    BY <1>1, TakeKeepsOrder DEF Unshared
  <2>2. OwnNumber' /\ lost' = {}
    BY <1>1, <2>1 DEF Unshared, OwnNumber
  <2>3. u = owner[n]
    BY <1>1, <1>2 DEF Unshared, OwnNumber
  <2>4. \A c \in Cmd : /\ AsksAt(c)' = AsksAt(c)
                       /\ At(mq', AsksOf(c)) # {} => At(mq, AsksOf(c)) # {}
                       /\ c # n => (At(mq', AsksOf(c)) = {} <=> At(mq, AsksOf(c)) = {})
    BY <1>1, <1>2, <1>4 DEF AsksAt
  <2>5. AsksOnce'
    <3>1. \A c \in Cmd : \A i, j \in At(mq', AsksOf(c)) : i = j
      BY <1>1, TakeKeepsOnce DEF Unshared
    <3> QED
      BY <1>1, <2>4, <3>1 DEF Unshared, AsksOnce
  <2> SUFFICES ASSUME regular'
               PROVE  LinkUp' /\ SentDecided' /\ EntriesMatch' /\ ApprovedByAnswers'
    BY <2>1, <2>2, <2>5
  <2>6. LinkUp'
    BY <1>1, <1>2, <1>4 DEF Regular, LinkUp
  <2>7. \A c \in Cmd : Waiting(c)' => Waiting(c)
    BY <1>1, <2>4 DEF Waiting
  <2>8. \A c \in Cmd : c # n => (Waiting(c)' <=> Waiting(c))
    BY <1>1, <2>4 DEF Waiting
  <2>9. SentDecided'
    BY <1>1, <2>7 DEF Regular, SentDecided
  <2>10. EntriesMatch'
    <3>1. ASSUME NEW v \in User
          PROVE  Count(mq', AnswersOf(v)) = Count(mq, AnswersOf(v))
      <4>1. /\ Count(mq, AnswersOf(v)) = Count(mq', AnswersOf(v)) + 0
            /\ Count(mq', AnswersOf(v)) \in Nat
        BY <1>9
      <4> QED
        BY ONLY <4>1
    <3> QED
      BY <1>1, <3>1 DEF Regular, EntriesMatch, Entries
  <2>11. ApprovedByAnswers'
    <3>1. ASSUME NEW v \in User, NEW c \in Approved(v)'
          PROVE  c \in Approved(v) \cup (IF v = u THEN {n} ELSE {})
      <4>1. c \in Cmd /\ owner[c] = v /\ ~Waiting(c)' /\ c \notin dropped
        BY <1>1 DEF Approved
      <4>2. CASE c = n
        BY <2>3, <4>1, <4>2
      <4>3. CASE c # n
        BY <2>8, <4>1, <4>3 DEF Approved
      <4> QED
        BY <4>2, <4>3
    <3>2. \A v \in User : Approved(v)' \in SUBSET (Approved(v) \cup (IF v = u THEN {n} ELSE {}))
      BY <3>1
    <3> QED
      BY <1>1, <1>3, <3>2, ApprovedGrows DEF Regular
  <2> QED
    BY <2>6, <2>9, <2>10, <2>11
<1> QED
  BY <1>6, <1>7, <1>8, <1>10, <1>11

\* The entry an answer finds is erased, and its command sent or dropped.
LEMMA AnswerDecidesKeeps ==
    ASSUME AmxInv, Takes("authentication_response"), NEW u, u = Head(mq).user,
           NEW n \in Cmd, mapCtrlAuth[n].user = u, Sets(n, NoEntry),
           requestAMX(Held(n)) \/ Discards(Held(n)),
           handled' = [handled EXCEPT ![u] = @ + 1],
           UNCHANGED <<alive, deviceVars, ctl, authVars, boxVars, unread, regular>>
    PROVE  AmxInv'
<1> USE DEF AmxInv, deviceVars, boxVars, authVars, answerVars
<1> SUFFICES ASSUME NEW h, NEW yes, NEW old, h = Head(mq), yes = h.yes, old = mapCtrlAuth[n]
             PROVE  AmxInv'
  OBVIOUS
<1>1. mq # <<>> /\ mq' = Tail(mq) /\ h.what = "authentication_response"
  BY DEF Takes
<1>2. /\ mq' \in Seq(Message) /\ Len(mq') + alive <= QCap
      /\ h \in Message /\ h = mq[1] /\ 1 \in DOMAIN mq
      /\ \A S : /\ \A i \in At(mq', S) : i \in Nat \ {0} /\ i + 1 \in At(mq, S)
                /\ h \in S => 1 \in At(mq, S)
                /\ Count(mq', S) \in Nat
                /\ Count(mq, S) = Count(mq', S) + (IF h \in S THEN 1 ELSE 0)
                /\ h \notin S => (At(mq', S) = {} <=> At(mq, S) = {})
  BY <1>1, TakeStep
<1>3. u \in User /\ yes \in BOOLEAN /\ h = AnswerMessage(u, yes)
  BY <1>1, <1>2, MessageKinds
<1>4. /\ \A c : h \notin ControlsOf(c)
      /\ \A v : h \in AnswersOf(v) <=> v = u
      /\ \A v : h \notin RequestsOf(v)
      /\ \A c : h \notin AsksOf(c)
      /\ h \notin Reboots
  BY <1>3, AnswerKind
<1>5. /\ NoEntry \in [user : User \cup {NoUser}, cmd : 0..MaxCmd]
      /\ NoEntry.user = NoUser /\ NoEntry.cmd = 0 /\ \A v \in User : v # NoUser
  BY AmxConstantsOK DEF NoEntry
<1>6. /\ mapCtrlAuth' \in [Cmd -> [user : User \cup {NoUser}, cmd : 0..MaxCmd]]
      /\ \A k \in Cmd : mapCtrlAuth'[k] = IF k = n THEN NoEntry ELSE mapCtrlAuth[k]
  BY <1>5, TableStep
<1>7. \A c : c \in Held(n) <=> c \in Cmd /\ old.cmd = c
  BY DEF Held
<1>8. /\ sent' \in [Cmd -> Nat] /\ dropped' \in SUBSET Cmd
      /\ dropped \in SUBSET dropped' /\ lost' = lost
      /\ \A c \in Cmd : c \notin Held(n) => sent'[c] = sent[c]
      /\ \A c \in Cmd :
           /\ sent'[c] \in Nat
           /\ sent'[c] + (IF c \in dropped' THEN 1 ELSE 0)
                = sent[c] + (IF c \in dropped THEN 1 ELSE 0) + (IF c \in Held(n) THEN 1 ELSE 0)
  <2>1. Held(n) \in SUBSET Cmd /\ \A c \in Held(n) : c \notin dropped
    BY <1>7, OnlyInTable
  <2> QED
    BY <2>1, FateStep
<1>9. handled' \in [User -> Nat] /\ \A v \in User : handled'[v] = handled[v] + (IF v = u THEN 1 ELSE 0)
  <2>1. handled \in [User -> Nat]
    BY DEF Shape
  <2> QED
    BY <1>3, <2>1
<1>10. Shape'
  BY <1>1, <1>2, <1>6, <1>8, <1>9 DEF Shape
<1>11. Numbered' /\ DevicesWhole'
  BY DEF Numbered, DevicesWhole
<1>12. EntriesWhole'
  BY <1>5, <1>6 DEF EntriesWhole
<1>13. OnePlace'
  <2> SUFFICES ASSUME NEW c \in Cmd
               PROVE  Cardinality(AtDevice(c)) + Count(mq', ControlsOf(c)) + Cardinality(InTable(c)')
                        + sent'[c] + (IF c \in dropped' THEN 1 ELSE 0)
                        = IF owner[c] = NoUser THEN 0 ELSE 1
    BY DEF OnePlace, AtDevice
  <2>1. Count(mq, ControlsOf(c)) = Count(mq', ControlsOf(c)) + 0 /\ Count(mq', ControlsOf(c)) \in Nat
    BY <1>2, <1>4
  <2>2. /\ Cardinality(InTable(c)') \in Nat
        /\ Cardinality(InTable(c)') + (IF old.cmd = c THEN 1 ELSE 0)
             = Cardinality(InTable(c)) + (IF NoEntry.cmd = c THEN 1 ELSE 0)
    BY <1>5, InTableStep
  <2>3. NoEntry.cmd # c
    BY <1>5 DEF Cmd
  <2>4. /\ sent'[c] \in Nat
        /\ sent'[c] + (IF c \in dropped' THEN 1 ELSE 0)
             = sent[c] + (IF c \in dropped THEN 1 ELSE 0) + (IF old.cmd = c THEN 1 ELSE 0)
    BY <1>7, <1>8
  <2>5. /\ Cardinality(AtDevice(c)) + Count(mq, ControlsOf(c)) + Cardinality(InTable(c))
             + sent[c] + (IF c \in dropped THEN 1 ELSE 0) = IF owner[c] = NoUser THEN 0 ELSE 1
        /\ Cardinality(AtDevice(c)) \in Nat /\ Count(mq, ControlsOf(c)) \in Nat
        /\ Cardinality(InTable(c)) \in Nat /\ sent[c] \in Nat
    BY PlaceSum
  <2> QED
    BY ONLY <2>1, <2>2, <2>3, <2>4, <2>5
<1>14. \A v \in User :
           /\ Count(mq, RequestsOf(v)) = Count(mq', RequestsOf(v)) + 0
           /\ Count(mq, AnswersOf(v)) = Count(mq', AnswersOf(v)) + (IF v = u THEN 1 ELSE 0)
           /\ Count(mq', RequestsOf(v)) \in Nat /\ Count(mq', AnswersOf(v)) \in Nat
  BY <1>2, <1>4
<1>15. RequestsCounted'
  <2> SUFFICES ASSUME NEW v \in User
               PROVE  Cardinality(Counted(v)) + Count(mq', RequestsOf(v)) + asked[v]
                        + Count(mq', AnswersOf(v)) + handled'[v] + unread[v] <= Cardinality(IssuedBy(v))
    BY DEF RequestsCounted, Counted, IssuedBy
  <2>1. /\ Count(mq, RequestsOf(v)) = Count(mq', RequestsOf(v)) + 0
        /\ Count(mq, AnswersOf(v)) = Count(mq', AnswersOf(v)) + (IF v = u THEN 1 ELSE 0)
        /\ Count(mq', RequestsOf(v)) \in Nat /\ Count(mq', AnswersOf(v)) \in Nat
        /\ handled'[v] = handled[v] + (IF v = u THEN 1 ELSE 0)
    BY <1>9, <1>14
  <2>2. /\ Cardinality(Counted(v)) + Count(mq, RequestsOf(v)) + asked[v]
             + Count(mq, AnswersOf(v)) + handled[v] + unread[v] <= Cardinality(IssuedBy(v))
        /\ Cardinality(Counted(v)) \in Nat /\ Count(mq, RequestsOf(v)) \in Nat
        /\ Count(mq, AnswersOf(v)) \in Nat /\ asked[v] \in Nat /\ handled[v] \in Nat /\ unread[v] \in Nat
        /\ Cardinality(IssuedBy(v)) \in Nat
    BY RequestSum
  <2> QED
    BY ONLY <2>1, <2>2
<1>16. Unshared' /\ Regular'
  <2> SUFFICES ASSUME ~shared
               PROVE  /\ OwnNumber' /\ AsksOnce' /\ AsksFirst' /\ lost' = {}
                      /\ regular' =>
                           LinkUp' /\ SentDecided' /\ EntriesMatch' /\ ApprovedByAnswers'
    BY DEF Unshared, Regular
  <2>1. lost' = {}
    BY <1>8 DEF Unshared
  <2>2. old # NoEntry /\ u = owner[n] /\ old.cmd \in {0, n}
    BY <1>3, <1>5 DEF Unshared, OwnNumber
  <2>3. AsksFirst' /\ OwnNumber'
    <3>1. /\ AsksFirst'
          /\ \A i \in DOMAIN mq' :
               /\ mq'[i].what = "authentication_request" => mq'[i].user = owner[mq'[i].id]
               /\ mq'[i].what = "amx_control_request" => mq'[i].id = mq'[i].cmd
      BY <1>1, TakeKeepsOrder DEF Unshared
    <3>2. \A k \in Cmd : mapCtrlAuth'[k] # NoEntry =>
              mapCtrlAuth'[k].user = owner[k] /\ mapCtrlAuth'[k].cmd \in {0, k}
      BY <1>6 DEF Unshared, OwnNumber
    <3> QED
      BY <3>1, <3>2 DEF Unshared, OwnNumber
  <2>4. \A c \in Cmd : AsksAt(c)' = AsksAt(c) /\ (At(mq', AsksOf(c)) = {} <=> At(mq, AsksOf(c)) = {})
    BY <1>2, <1>4 DEF AsksAt
  <2>5. AsksOnce'
    <3>1. \A c \in Cmd : \A i, j \in At(mq', AsksOf(c)) : i = j
      BY <1>1, TakeKeepsOnce DEF Unshared
    <3>2. \A c \in Cmd : mapCtrlAuth[c] = NoEntry => mapCtrlAuth'[c] = NoEntry
      BY <1>6
    <3> QED
      BY <2>4, <3>1, <3>2 DEF Unshared, AsksOnce
  <2>6. ~Waiting(n)'
    <3>1. AsksAt(n) = {} /\ At(mq, AsksOf(n)) = {}
      BY <2>2 DEF Unshared, AsksOnce
    <3> QED
      BY <1>6, <2>4, <3>1 DEF Waiting
  <2>7. \A c \in Cmd : c # n => (Waiting(c)' <=> Waiting(c))
    BY <1>6, <2>4 DEF Waiting
  <2> SUFFICES ASSUME regular'
               PROVE  LinkUp' /\ SentDecided' /\ EntriesMatch' /\ ApprovedByAnswers'
    BY <2>1, <2>3, <2>5
  <2>11. LinkUp'
    BY <1>2, <1>4 DEF Regular, LinkUp
  <2>8. SentDecided'
    <3> SUFFICES ASSUME NEW c \in Cmd, sent'[c] > 0
                 PROVE  ~Waiting(c)'
      BY DEF SentDecided
    <3>1. CASE c = n
      BY <2>6, <3>1
    <3>2. CASE c # n
      <4>1. c \notin Held(n)
        BY <1>7, <2>2, <3>2 DEF Cmd
      <4> QED
        BY <1>8, <2>7, <3>2, <4>1 DEF Regular, SentDecided
    <3> QED
      BY <3>1, <3>2
  <2>9. EntriesMatch'
    <3> SUFFICES ASSUME NEW v \in User
                 PROVE  Cardinality(Entries(v)') = asked[v] + Count(mq', AnswersOf(v))
      BY DEF EntriesMatch
    <3>1. /\ Cardinality(Entries(v)') \in Nat
          /\ Cardinality(Entries(v)') + (IF v = u THEN 1 ELSE 0) = Cardinality(Entries(v)) + 0
      <4>1. /\ Cardinality(Entries(v)') \in Nat
            /\ Cardinality(Entries(v)') + (IF mapCtrlAuth[n].user = v THEN 1 ELSE 0)
                 = Cardinality(Entries(v)) + (IF NoEntry.user = v THEN 1 ELSE 0)
        BY <1>5, EntriesStep
      <4>2. NoEntry.user # v
        BY <1>5
      <4> QED
        BY <4>1, <4>2
    <3>2. /\ Count(mq, AnswersOf(v)) = Count(mq', AnswersOf(v)) + (IF v = u THEN 1 ELSE 0)
          /\ Count(mq', AnswersOf(v)) \in Nat
      BY <1>14
    <3>3. /\ Cardinality(Entries(v)) = asked[v] + Count(mq, AnswersOf(v))
          /\ asked[v] \in Nat
      BY CountsNat DEF Regular, EntriesMatch
    <3> QED
      BY ONLY <3>1, <3>2, <3>3
  <2>10. ApprovedByAnswers'
    <3>1. ASSUME NEW v \in User, NEW c \in Approved(v)'
          PROVE  c \in Approved(v) \cup (IF v = u THEN {n} ELSE {})
      <4>1. c \in Cmd /\ owner[c] = v /\ ~Waiting(c)' /\ c \notin dropped
        BY <1>8 DEF Approved
      <4>2. CASE c = n
        BY <2>2, <4>1, <4>2
      <4>3. CASE c # n
        BY <2>7, <4>1, <4>3 DEF Approved
      <4> QED
        BY <4>2, <4>3
    <3>2. \A v \in User : Approved(v)' \in SUBSET (Approved(v) \cup (IF v = u THEN {n} ELSE {}))
      BY <3>1
    <3> QED
      BY <1>3, <3>2, ApprovedGrows DEF Regular
  <2> QED
    BY <2>8, <2>9, <2>10, <2>11
<1> QED
  BY <1>10, <1>11, <1>12, <1>13, <1>15, <1>16

\* An answer that finds no entry changes nothing but the queue.  A regular link
\* has no such answer.
LEMMA StrayAnswerKeeps ==
    ASSUME AmxInv, Takes("authentication_response"), NEW u, u = Head(mq).user,
           \A n \in Cmd : mapCtrlAuth[n].user # u,
           handled' = [handled EXCEPT ![u] = @ + 1],
           UNCHANGED <<mapCtrlAuth, fateVars, alive, deviceVars, ctl, authVars, boxVars, unread, regular>>
    PROVE  AmxInv'
<1> USE DEF AmxInv, deviceVars, boxVars, authVars, fateVars, answerVars
<1> SUFFICES ASSUME NEW h, NEW yes, h = Head(mq), yes = h.yes
             PROVE  AmxInv'
  OBVIOUS
<1>1. mq # <<>> /\ mq' = Tail(mq) /\ h.what = "authentication_response"
  BY DEF Takes
<1>2. /\ mq' \in Seq(Message) /\ Len(mq') + alive <= QCap
      /\ h \in Message /\ h = mq[1] /\ 1 \in DOMAIN mq
      /\ \A S : /\ Count(mq', S) \in Nat
                /\ Count(mq, S) = Count(mq', S) + (IF h \in S THEN 1 ELSE 0)
                /\ h \notin S => (At(mq', S) = {} <=> At(mq, S) = {})
  BY <1>1, TakeStep
<1>3. u \in User /\ yes \in BOOLEAN /\ h = AnswerMessage(u, yes)
  BY <1>1, <1>2, MessageKinds
<1>4. /\ \A c : h \notin ControlsOf(c)
      /\ \A v : h \in AnswersOf(v) <=> v = u
      /\ \A v : h \notin RequestsOf(v)
      /\ \A c : h \notin AsksOf(c)
  BY <1>3, AnswerKind
<1>5. ~regular
  <2>1. Entries(u) = {}
    BY DEF Entries
  <2>2. Cardinality(Entries(u)) = 0
    BY <2>1, FS_EmptySet
  <2>3. Count(mq, AnswersOf(u)) = Count(mq', AnswersOf(u)) + 1 /\ Count(mq', AnswersOf(u)) \in Nat
    BY <1>2, <1>4
  <2>4. asked[u] \in Nat
    BY <1>3 DEF Shape
  <2>5. regular => Cardinality(Entries(u)) = asked[u] + Count(mq, AnswersOf(u))
    BY <1>3 DEF Regular, EntriesMatch
  <2> QED
    BY ONLY <2>2, <2>3, <2>4, <2>5
<1>6. handled' \in [User -> Nat] /\ \A v \in User : handled'[v] = handled[v] + (IF v = u THEN 1 ELSE 0)
  <2>1. handled \in [User -> Nat] /\ handled' = [handled EXCEPT ![u] = @ + 1]
    BY DEF Shape
  <2>2. u \in User
    BY <1>3
  <2> QED
    BY ONLY <2>1, <2>2
<1>7. Shape'
  BY <1>1, <1>2, <1>6 DEF Shape
<1>8. Numbered' /\ DevicesWhole' /\ EntriesWhole'
  BY DEF Numbered, DevicesWhole, EntriesWhole
<1>9. OnePlace'
  <2>1. ASSUME NEW c \in Cmd
        PROVE  Count(mq', ControlsOf(c)) = Count(mq, ControlsOf(c))
    <3>1. Count(mq, ControlsOf(c)) = Count(mq', ControlsOf(c)) + 0 /\ Count(mq', ControlsOf(c)) \in Nat
      BY <1>2, <1>4
    <3> QED
      BY ONLY <3>1
  <2> QED
    BY <2>1 DEF OnePlace, AtDevice, InTable
<1>10. RequestsCounted'
  <2> SUFFICES ASSUME NEW v \in User
               PROVE  Cardinality(Counted(v)) + Count(mq', RequestsOf(v)) + asked[v]
                        + Count(mq', AnswersOf(v)) + handled'[v] + unread[v] <= Cardinality(IssuedBy(v))
    BY DEF RequestsCounted, Counted, IssuedBy
  <2>1. /\ Count(mq, RequestsOf(v)) = Count(mq', RequestsOf(v)) + 0
        /\ Count(mq, AnswersOf(v)) = Count(mq', AnswersOf(v)) + (IF v = u THEN 1 ELSE 0)
        /\ Count(mq', RequestsOf(v)) \in Nat /\ Count(mq', AnswersOf(v)) \in Nat
        /\ handled'[v] = handled[v] + (IF v = u THEN 1 ELSE 0)
    BY <1>2, <1>4, <1>6
  <2>2. /\ Cardinality(Counted(v)) + Count(mq, RequestsOf(v)) + asked[v]
             + Count(mq, AnswersOf(v)) + handled[v] + unread[v] <= Cardinality(IssuedBy(v))
        /\ Cardinality(Counted(v)) \in Nat /\ Count(mq, RequestsOf(v)) \in Nat
        /\ Count(mq, AnswersOf(v)) \in Nat /\ asked[v] \in Nat /\ handled[v] \in Nat /\ unread[v] \in Nat
        /\ Cardinality(IssuedBy(v)) \in Nat
    BY RequestSum
  <2> QED
    BY ONLY <2>1, <2>2
<1>11. Regular'
  BY <1>5 DEF Regular
<1>12. Unshared'
  <2> SUFFICES ASSUME ~shared
               PROVE  OwnNumber' /\ AsksOnce' /\ AsksFirst' /\ lost' = {}
    BY DEF Unshared
  <2>1. /\ AsksFirst'
        /\ \A i \in DOMAIN mq' :
             /\ mq'[i].what = "authentication_request" => mq'[i].user = owner[mq'[i].id]
             /\ mq'[i].what = "amx_control_request" => mq'[i].id = mq'[i].cmd
    BY <1>1, TakeKeepsOrder DEF Unshared
  <2>2. OwnNumber'
    BY <2>1 DEF Unshared, OwnNumber
  <2>3. \A c \in Cmd : AsksAt(c)' = AsksAt(c) /\ (At(mq', AsksOf(c)) = {} <=> At(mq, AsksOf(c)) = {})
    BY <1>2, <1>4 DEF AsksAt
  <2>4. AsksOnce'
    <3>1. \A c \in Cmd : \A i, j \in At(mq', AsksOf(c)) : i = j
      BY <1>1, TakeKeepsOnce DEF Unshared
    <3> QED
      BY <2>3, <3>1 DEF Unshared, AsksOnce
  <2> QED
    BY <2>1, <2>2, <2>4 DEF Unshared
<1> QED
  BY <1>7, <1>8, <1>9, <1>10, <1>11, <1>12

\* The two cases of an answer.
LEMMA AuthenticationResponseKeeps ==
    ASSUME AmxInv, OnAuthenticationResponse
    PROVE  AmxInv'
<1> SUFFICES ASSUME NEW u, u = Head(mq).user
             PROVE  AmxInv'
  OBVIOUS
<1>1. /\ Takes("authentication_response")
      /\ Decides(u, Head(mq).yes)
      /\ handled' = [handled EXCEPT ![u] = @ + 1]
      /\ UNCHANGED <<alive, deviceVars, ctl, authVars, boxVars, unread, regular>>
  BY DEF OnAuthenticationResponse
<1>2. ASSUME NEW n \in Cmd, FirstEntry(u, n), mapCtrlAuth' = [mapCtrlAuth EXCEPT ![n] = NoEntry],
             requestAMX(Held(n)) \/ Discards(Held(n))
      PROVE  AmxInv'
  <2>1. mapCtrlAuth[n].user = u /\ Sets(n, NoEntry)
    BY <1>2 DEF FirstEntry, Sets
  <2> QED
    BY <1>1, <1>2, <2>1, AnswerDecidesKeeps
<1>3. ASSUME \A n \in Cmd : mapCtrlAuth[n].user # u, UNCHANGED <<mapCtrlAuth, fateVars>>
      PROVE  AmxInv'
  BY <1>1, <1>3, StrayAnswerKeeps
<1> QED
  BY <1>1, <1>2, <1>3 DEF Decides

-----------------------------------------------------------------------------
(* Every step *)

\* Every step of the specification keeps the invariant.
LEMMA AmxStep == AmxInv /\ [Next]_vars => AmxInv'
<1> SUFFICES ASSUME AmxInv, [Next]_vars
             PROVE  AmxInv'
  OBVIOUS
<1>1. CASE Environment
  BY <1>1, IncrementsKeeps, TimerTellsKeeps, QuietSteps DEF Environment
<1>2. CASE \E u \in User : Answers(u)
  BY <1>2, ResponseKeeps DEF Answers
<1>3. CASE TakeAlive
  BY <1>3, QuietSteps
<1>4. CASE Controller
  <2>1. CASE OnAuthenticationRequest
    BY <2>1, CannotReadKeeps, AsksKeeps DEF OnAuthenticationRequest
  <2>2. CASE ControllerSendsAlive
    BY <2>2, QuietSteps
  <2>3. CASE OnControlRequest
    BY <2>3, ControlHeldKeeps, ControlSentKeeps
  <2>4. CASE OnAuthenticationResponse
    BY <2>4, AuthenticationResponseKeeps
  <2>5. CASE OnRebootRequest
    BY <2>5, RebootRequestKeeps
  <2> QED
    BY <1>4, <2>1, <2>2, <2>3, <2>4, <2>5 DEF Controller
<1>5. ASSUME NEW d \in Device, DeviceThread(d)
      PROVE  AmxInv'
  BY <1>5, DrawsKeeps, SendAuthenticationKeeps, SendControlKeeps, NoCommandKeeps, RespondKeeps
     DEF DeviceThread
<1>6. CASE UNCHANGED vars
  BY <1>6, QuietSteps
<1> QED
  BY <1>1, <1>2, <1>3, <1>4, <1>5, <1>6 DEF Next

-----------------------------------------------------------------------------
(* The theorems *)

\* The inductive invariant of AmxControl: every handler of the controller, the box
\* server, the authentication server and the device threads keeps it.
THEOREM AmxInvariant == Spec => []AmxInv
BY AmxInit, AmxStep, PTL DEF Spec

\* Every variable keeps its type: the shared queue never exceeds its capacity, and the
\* counters of requests and answers never exceed the commands issued.
THEOREM AmxTypeOK == Spec => []TypeOK
<1>1. AmxInv => TypeOK
  BY AmxProperties
<1> QED
  BY <1>1, AmxInvariant, PTL

\* A command that onAmxControl has issued is at its thread, in the queue, in
\* mapCtrlAuth, sent once to a box or dropped for good: exactly one of these,
\* whatever numbers getSequence returned and whatever happened to the link.  It is
\* overwritten in mapCtrlAuth only if a number was returned twice.
THEOREM CommandInOnePlaceHolds == Spec => []CommandInOnePlace
<1>1. AmxInv => CommandInOnePlace
  BY AmxProperties
<1> QED
  BY <1>1, AmxInvariant, PTL

\* While the link holds and the numbers are distinct, the entries of a user in
\* mapCtrlAuth are as many as the answers to come for the user: an answer, which
\* carries no number, never meets too few entries or leaves one behind.
THEOREM EntriesAwaitAnswersHolds == Spec => []EntriesAwaitAnswers
<1>1. AmxInv => EntriesAwaitAnswers
  BY AmxProperties
<1> QED
  BY <1>1, AmxInvariant, PTL

\* Under the same condition the box has received at most as many commands of a user
\* as the controller has handled answers for the user and could not read requests of
\* the user.
THEOREM AnsweredFirstHolds == Spec => []AnsweredFirst
<1>1. AmxInv => AnsweredFirst
  BY AmxProperties
<1> QED
  BY <1>1, AmxInvariant, PTL

=============================================================================
