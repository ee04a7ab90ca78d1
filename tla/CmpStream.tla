----------------------------- MODULE CmpStream -----------------------------
(***************************************************************************)
(* One connection of the Controller Message Protocol: a CCmpServer at one  *)
(* end, a CCmpClient at the other.  Each end has a receive thread that     *)
(* takes the packets of the other out of the byte stream, and other        *)
(* threads that send requests.                                             *)
(*                                                                         *)
(* A packet is a header and perhaps a body, which is text.  sendPacket     *)
(* sends texts of any length; onTcpReceive refuses a packet longer than    *)
(* MAX_SOCKET_READ.  TCP cuts the stream anywhere, and onTcpReceive reads  *)
(* the header with one recv and the body with another: what they return is *)
(* what has arrived by then.  A request that is not in mapFunc is answered *)
(* before its body is read, so that the next header is read out of that    *)
(* body.                                                                   *)
(*                                                                         *)
(* How much of a packet has arrived is a number: 0 nothing, 1 a part of    *)
(* the header, 2 the header, 3 a part of the body too.                     *)
(***************************************************************************)
EXTENDS Naturals, Sequences

CONSTANTS
    Command,    \* command_id of a request
    Enquire,    \* enquire_link_request
    Nack,       \* generic_nack, the command of a packet whose header is short
    Handled,    \* the commands in mapFunc of each end
    Offers,     \* the requests the program behind each end sends: [cmd, body]
    MaxRequest  \* bound: requests of either end

End == {"server", "client"}

\* "large": the packet is longer than MAX_SOCKET_READ.  A "text" is not empty: its
\* first byte is not 0.
Body == {"none", "text", "large"}

ASSUME StreamAssumption ==
    /\ Enquire \in Command
    /\ Nack \notin Command
    /\ Handled \in [End -> SUBSET Command]
    /\ Offers \in [End -> SUBSET [cmd : Command, body : Body]]
    /\ \A e \in End : \A o \in Offers[e] : o.cmd = Enquire => o.body = "none"
    /\ MaxRequest \in [End -> Nat]

VARIABLES
    sent,       \* the packets each end has sent
    arrived,    \* how much of them has arrived at the other end
    pc,         \* what the receive thread of each end reads next
    count,      \* how many packets it has taken out of the stream
    given,      \* history: what it has passed to handlers and onResponse
    asked,      \* requests each end has sent
    up          \* the network between the ends is up

vars == <<sent, arrived, pc, count, given, asked, up>>

Other(e) == IF e = "server" THEN "client" ELSE "server"

Packet ==
    [reply : BOOLEAN, cmd : Command \cup {Nack}, seq : Nat, body : Body,
     status : {"ROK", "RINVCMDID", "RINVCMDLEN", "RSYSERR"}]

TypeOK ==
    /\ sent \in [End -> Seq(Packet)]
    /\ arrived \in [End -> [whole : Nat, part : 0..3]]
    /\ pc \in [End -> {"header", "body", "stray", "ended"}]
    /\ count \in [End -> Nat]
    /\ given \in [End -> Seq([n : Nat, body : Body \cup {"part"}])]
    /\ asked \in [End -> Nat]
    /\ up \in BOOLEAN
    /\ \A e \in End :
        /\ arrived[e].whole <= Len(sent[e])
        /\ arrived[e].part > 0 => arrived[e].whole < Len(sent[e])
        /\ arrived[e].part > 1 => sent[e][arrived[e].whole + 1].body # "none"
        /\ count[Other(e)] <= arrived[e].whole

Init ==
    /\ sent = [e \in End |-> <<>>]
    /\ arrived = [e \in End |-> [whole |-> 0, part |-> 0]]
    /\ pc = [e \in End |-> "header"]
    /\ count = [e \in End |-> 0]
    /\ given = [e \in End |-> <<>>]
    /\ asked = [e \in End |-> 0]
    /\ up = TRUE

-----------------------------------------------------------------------------
(* The network *)

\* What e sends can reach the other end.
Reaches(e) == up /\ pc[Other(e)] # "ended"

\* A segment brings the stream of e up to part k of the packet after the n-th.
Arrives(e) ==
    /\ Reaches(e)
    /\ \E n \in arrived[e].whole .. Len(sent[e]), k \in 0..3 :
        /\ n > arrived[e].whole \/ k > arrived[e].part
        /\ k > 0 => n < Len(sent[e])
        /\ k > 1 => sent[e][n + 1].body # "none"
        /\ arrived' = [arrived EXCEPT ![e] = [whole |-> n, part |-> k]]
    /\ UNCHANGED <<sent, pc, count, given, asked, up>>

Breaks ==
    /\ up
    /\ up' = FALSE
    /\ UNCHANGED <<sent, arrived, pc, count, given, asked>>

-----------------------------------------------------------------------------
(* sendPacket *)

\* request, in any thread of end e.
request(e) ==
    /\ pc[e] # "ended"
    /\ up
    /\ asked[e] < MaxRequest[e]
    /\ asked' = [asked EXCEPT ![e] = @ + 1]
    /\ \E o \in Offers[e] :
        sent' = [sent EXCEPT ![e] =
            Append(@, [reply |-> FALSE, cmd |-> o.cmd, seq |-> asked[e] + 1,
                       body |-> o.body, status |-> "ROK"])]
    /\ UNCHANGED <<arrived, pc, count, given, up>>

Response(c, s, status, body) ==
    [reply |-> TRUE, cmd |-> c, seq |-> s, body |-> body, status |-> status]

sends(e, p) == sent' = [sent EXCEPT ![e] = Append(@, p)]

\* The parser answers p itself and goes on if that could be sent: the result
\* of send is what onTcpReceive returns.
answers(e, p, status, next) ==
    \/ /\ sends(e, Response(p.cmd, p.seq, status, "none"))
       /\ pc' = [pc EXCEPT ![e] = next]
    \/ /\ ~Reaches(e)
       /\ pc' = [pc EXCEPT ![e] = "ended"]
       /\ UNCHANGED sent

-----------------------------------------------------------------------------
(* onTcpReceive *)

\* The packet the receive thread of e is at, and how much of it has arrived.
Current(e) == sent[Other(e)][count[e] + 1]

Part(e) == IF arrived[Other(e)].whole > count[e] THEN 4 ELSE arrived[Other(e)].part

\* Neither an enquire link request nor a request without a handler.
Passes(e, p) == p.reply \/ (p.cmd # Enquire /\ p.cmd \in Handled[e])

\* Mutant: onTcpReceive returns the length of the body, which may be 0.
LoopsWhileBody(p) == IF p.body = "none" THEN "ended" ELSE "header"

\* What the loop of runTcpReceive does after packet p: it reads the next header,
\* since the length of the last recv is positive.
LoopsOn(p) == "header"

\* The packet is handed to its handler or to onResponse.  A handler may answer
\* it before it returns, whatever becomes of the answer; then the packet is done.
gives(e, p, body) ==
    /\ given' = [given EXCEPT ![e] = Append(@, [n |-> count[e] + 1, body |-> body])]
    /\ count' = [count EXCEPT ![e] = @ + 1]
    /\ pc' = [pc EXCEPT ![e] = LoopsOn(p)]
    /\ \/ UNCHANGED sent
       \/ /\ ~p.reply
          /\ \E b \in Body : sends(e, Response(p.cmd, p.seq, "ROK", b))

\* The header has come in pieces: the packet is answered as too short, and the
\* connection given up.
ShortHeader(e) ==
    /\ pc[e] = "header"
    /\ Part(e) = 1
    /\ answers(e, [cmd |-> Nack, seq |-> 0], "RINVCMDLEN", "ended")
    /\ UNCHANGED <<arrived, count, given, asked, up>>

\* A header has come whole, with a length that is accepted.
ValidHeader(e) ==
    /\ pc[e] = "header"
    /\ Part(e) > 1
    /\ Current(e).body # "large"

\* The packet is too long: the connection is given up without an answer, whatever
\* the command.
InvalidLength(e) ==
    /\ pc[e] = "header"
    /\ Part(e) > 1
    /\ Current(e).body = "large"
    /\ pc' = [pc EXCEPT ![e] = "ended"]
    /\ UNCHANGED <<sent, arrived, count, given, asked, up>>

\* Mutant: enquire link requests are looked up in mapFunc like all others.
EnquireLinkRegistered(e) ==
    /\ ValidHeader(e)
    /\ ~Current(e).reply /\ Current(e).cmd = Enquire
    /\ answers(e, Current(e), IF Enquire \in Handled[e] THEN "ROK" ELSE "RINVCMDID",
               LoopsOn(Current(e)))
    /\ count' = [count EXCEPT ![e] = @ + 1]
    /\ UNCHANGED <<arrived, given, asked, up>>

\* An enquire link request is answered before mapFunc is searched.
EnquireLink(e) ==
    /\ ValidHeader(e)
    /\ ~Current(e).reply /\ Current(e).cmd = Enquire
    /\ answers(e, Current(e), "ROK", LoopsOn(Current(e)))
    /\ count' = [count EXCEPT ![e] = @ + 1]
    /\ UNCHANGED <<arrived, given, asked, up>>

\* No handler: the answer is sent and the body, if there is one, left unread.
UnknownRequest(e) ==
    /\ ValidHeader(e)
    /\ ~Passes(e, Current(e)) /\ (Current(e).reply \/ Current(e).cmd # Enquire)
    /\ \/ /\ Current(e).body = "text"
          /\ answers(e, Current(e), "RINVCMDID", "stray")
          /\ UNCHANGED count
       \/ /\ Current(e).body = "none"
          /\ answers(e, Current(e), "RINVCMDID", LoopsOn(Current(e)))
          /\ count' = [count EXCEPT ![e] = @ + 1]
    /\ UNCHANGED <<arrived, given, asked, up>>

\* Mutant: the body is taken to have arrived with the header.
ReadsNoBody(e) == gives(e, Current(e), Current(e).body)

\* A body has a recv of its own.
ReadsBody(e) ==
    /\ pc' = [pc EXCEPT ![e] = "body"]
    /\ UNCHANGED <<sent, count, given>>

WholeHeader(e) ==
    /\ ValidHeader(e)
    /\ Passes(e, Current(e))
    /\ \/ Current(e).body = "none" /\ gives(e, Current(e), "none")
       \/ Current(e).body = "text" /\ ReadsBody(e)
    /\ UNCHANGED <<arrived, asked, up>>

\* Mutant: the length of the body that was received is not compared.
ShortBodyGiven(e) == gives(e, Current(e), "part")

\* The body has come in pieces: an answer, and the end of the connection.
ShortBody(e) ==
    /\ answers(e, Current(e), "RSYSERR", "ended")
    /\ UNCHANGED <<count, given>>

RecvBody(e) ==
    /\ pc[e] = "body"
    /\ \/ Part(e) = 4 /\ gives(e, Current(e), "text")
       \/ Part(e) = 3 /\ ShortBody(e)
    /\ UNCHANGED <<arrived, asked, up>>

\* The text of a body read as a header: its first bytes are a length above
\* MAX_SOCKET_READ or below 0, or what has arrived is too short for a header.
RecvStray(e) ==
    /\ pc[e] = "stray"
    /\ Part(e) > 2
    /\ \/ /\ pc' = [pc EXCEPT ![e] = "ended"]
          /\ UNCHANGED sent
       \/ answers(e, [cmd |-> Nack, seq |-> 0], "RINVCMDLEN", "ended")
    /\ UNCHANGED <<arrived, count, given, asked, up>>

\* recv reports the end of the connection; bytes not read by then may be lost.
RecvEnd(e) ==
    /\ pc[e] # "ended"
    /\ ~Reaches(e)
    /\ pc' = [pc EXCEPT ![e] = "ended"]
    /\ UNCHANGED <<sent, arrived, count, given, asked, up>>

onTcpReceive(e) ==
    \/ ShortHeader(e)
    \/ InvalidLength(e)
    \/ EnquireLink(e)
    \/ UnknownRequest(e)
    \/ WholeHeader(e)
    \/ RecvBody(e)
    \/ RecvStray(e)
    \/ RecvEnd(e)

-----------------------------------------------------------------------------

Next == Breaks \/ \E e \in End : request(e) \/ Arrives(e) \/ onTcpReceive(e)

Spec == Init /\ [][Next]_vars

\* TCP brings what was sent, and a receive thread that can read does.
Fairness == \A e \in End : WF_vars(Arrives(e)) /\ WF_vars(onTcpReceive(e))

FairSpec == Spec /\ Fairness

-----------------------------------------------------------------------------
(* Properties *)

\* However the stream is cut, handlers and onResponse get the packets the other
\* end has sent, each once, in that order, with the body it was sent with: none
\* is skipped but those that onTcpReceive answers itself, and no part of a body
\* that was left unread is ever taken for a packet.
GivenAsSent ==
    \A e \in End :
        /\ \A i \in DOMAIN given[e] : LET g == given[e][i] IN
            /\ g.n \in 1..count[e]
            /\ Passes(e, sent[Other(e)][g.n])
            /\ g.body = sent[Other(e)][g.n].body
        /\ \A i, j \in DOMAIN given[e] : i < j => given[e][i].n < given[e][j].n
        /\ \A n \in 1..count[e] :
            Passes(e, sent[Other(e)][n]) => \E i \in DOMAIN given[e] : given[e][i].n = n

\* The receive thread of e has met a packet that came in pieces ...
Torn(e) == Part(e) \in {1, 3}

\* ... or a request with a body that it has no handler for ...
Unread(e) ==
    /\ Part(e) > 2
    /\ ~Passes(e, Current(e))
    /\ Current(e).body = "text"

\* ... or a packet longer than MAX_SOCKET_READ.
TooLong(e) == Part(e) > 1 /\ Current(e).body = "large"

\* A cause in the stream for which the receive thread of e gives up.
Refuses(e) == Torn(e) \/ Unread(e) \/ TooLong(e)

\* The protocol ends a connection that the network keeps up only for one of three
\* reasons: a packet cut between two segments, a request with a body that the
\* other end has no handler for, or a packet longer than MAX_SOCKET_READ, which
\* sendPacket sends.  The end that gave up is at the packet that was the reason.
EndHasCause ==
    (\E e \in End : pc[e] = "ended")
        => ~up \/ \E e \in End : pc[e] = "ended" /\ Refuses(e)

AskedAlive(e, s) ==
    \E i \in DOMAIN sent[e] : LET p == sent[e][i] IN
        ~p.reply /\ p.cmd = Enquire /\ p.seq = s

AnsweredAlive(e, s) ==
    \E i \in DOMAIN given[e] : LET p == sent[Other(e)][given[e][i].n] IN
        p.reply /\ p.cmd = Enquire /\ p.seq = s /\ p.status = "ROK"

\* An enquire link request is answered, and the answer reaches onResponse of the
\* end that asked, or the connection ends: a watcher that counts unanswered
\* requests does not give up a connection that works.
EnquiryIsAnswered ==
    \A e \in End : \A s \in 1..MaxRequest[e] :
        AskedAlive(e, s) ~> (AnsweredAlive(e, s) \/ ~up \/ \E x \in End : pc[x] = "ended")

=============================================================================
