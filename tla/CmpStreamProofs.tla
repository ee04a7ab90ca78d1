-------------------------- MODULE CmpStreamProofs --------------------------
(***************************************************************************)
(* Proofs about CmpStream, for any commands, handlers and number of        *)
(* requests: its types, that packets are given as they were sent, and why  *)
(* a connection ends.                                                      *)
(***************************************************************************)
EXTENDS CmpStream, TLAPS

\* Enquire link requests have no body.
Plain ==
    \A e \in End : \A i \in DOMAIN sent[e] :
        ~sent[e][i].reply /\ sent[e][i].cmd = Enquire => sent[e][i].body = "none"

\* A receive thread that reads a body has one before it.
Reading ==
    \A e \in End : pc[e] \in {"body", "stray"} =>
        /\ Part(e) > 1
        /\ Current(e).body = "text"
        /\ Passes(e, Current(e)) <=> pc[e] = "body"

Inv == TypeOK /\ Plain /\ Reading

USE DEF End, Body

-----------------------------------------------------------------------------
(* The stream a thread reads *)

\* The other end of the other end is this end.
LEMMA OtherEnd == \A e \in End : Other(e) \in End /\ Other(e) # e /\ Other(Other(e)) = e
BY DEF Other

\* A thread that has bytes before it is at a packet that was sent.
LEMMA CurrentIsSent ==
    ASSUME TypeOK, NEW e \in End
    PROVE  /\ Part(e) \in 0..4
           /\ Part(e) > 0 => /\ count[e] + 1 \in 1..Len(sent[Other(e)])
                             /\ Current(e) \in Packet
                             /\ Current(e) = sent[Other(e)][count[e] + 1]
<1> DEFINE o == Other(e)
<1>1. o \in End /\ Other(o) = e
  BY OtherEnd
<1>2. /\ sent[o] \in Seq(Packet)
      /\ count[e] \in Nat
      /\ arrived[o] \in [whole : Nat, part : 0..3]
  BY <1>1 DEF TypeOK
<1>3. /\ arrived[o].whole <= Len(sent[o])
      /\ arrived[o].part > 0 => arrived[o].whole < Len(sent[o])
      /\ count[e] <= arrived[o].whole
  BY <1>1 DEF TypeOK
<1>4. Part(e) \in 0..4
  BY <1>2 DEF Part
<1>5. ASSUME Part(e) > 0 PROVE count[e] + 1 \in 1..Len(sent[o])
  BY <1>2, <1>3, <1>5 DEF Part
<1> QED
  BY <1>2, <1>4, <1>5 DEF Current

\* A packet without a body has arrived when its header has.
LEMMA WholeWithoutBody ==
    ASSUME TypeOK, NEW e \in End, Part(e) > 1, Current(e).body = "none"
    PROVE  count[e] + 1 <= arrived[Other(e)].whole
<1> DEFINE o == Other(e)
<1>1. o \in End /\ Other(o) = e
  BY OtherEnd
<1>2. /\ count[e] \in Nat
      /\ arrived[o] \in [whole : Nat, part : 0..3]
      /\ count[e] <= arrived[o].whole
      /\ arrived[o].part > 1 => sent[o][arrived[o].whole + 1].body # "none"
  BY <1>1 DEF TypeOK
<1> QED
  BY <1>2 DEF Part, Current

-----------------------------------------------------------------------------
(* What a step of a receive thread leaves alone *)

\* The parser's answer adds a response to the stream of its end, or nothing.
LEMMA AnswersFrame ==
    ASSUME TypeOK, NEW e \in End, NEW p, NEW status \in {"ROK", "RINVCMDID", "RINVCMDLEN", "RSYSERR"},
           NEW next, p.cmd \in Command \cup {Nack}, p.seq \in Nat, answers(e, p, status, next)
    PROVE  /\ \/ UNCHANGED sent
              \/ \E q \in Packet : q.reply /\ sent' = [sent EXCEPT ![e] = Append(@, q)]
           /\ pc' = [pc EXCEPT ![e] = next] \/ (~Reaches(e) /\ pc' = [pc EXCEPT ![e] = "ended"])
<1>1. Response(p.cmd, p.seq, status, "none") \in Packet
  BY DEF Response, Packet
<1>2. Response(p.cmd, p.seq, status, "none").reply
  BY DEF Response
<1> QED
  BY <1>1, <1>2 DEF answers, sends

\* A packet can be answered: it has a command and a number.
LEMMA PacketFields ==
    ASSUME NEW p \in Packet
    PROVE  p.cmd \in Command \cup {Nack} /\ p.seq \in Nat
BY DEF Packet

\* A step of the receive thread of e takes at most one packet and answers at most
\* one; it changes nothing else of its own end and nothing of the other.
Frame(e) ==
    /\ UNCHANGED <<arrived, asked, up>>
    /\ \/ UNCHANGED sent
       \/ \E q \in Packet : q.reply /\ sent' = [sent EXCEPT ![e] = Append(@, q)]
    /\ \E next \in {"header", "body", "stray", "ended"} : pc' = [pc EXCEPT ![e] = next]
    /\ \/ UNCHANGED <<count, given>>
       \/ /\ UNCHANGED given
          /\ count' = [count EXCEPT ![e] = @ + 1]
          /\ count[e] + 1 <= arrived[Other(e)].whole
          /\ ~Passes(e, Current(e))
          /\ pc'[e] \in {"header", "ended"}
       \/ /\ count' = [count EXCEPT ![e] = @ + 1]
          /\ count[e] + 1 <= arrived[Other(e)].whole
          /\ Passes(e, Current(e))
          /\ given' = [given EXCEPT ![e] =
                         Append(@, [n |-> count[e] + 1, body |-> Current(e).body])]
          /\ pc' = [pc EXCEPT ![e] = "header"]
    /\ pc'[e] = "body" => /\ pc[e] = "header" /\ UNCHANGED count
                          /\ Part(e) > 1
                          /\ Current(e).body = "text"
                          /\ Passes(e, Current(e))
    /\ pc'[e] = "stray" => /\ pc[e] = "header" /\ UNCHANGED count
                           /\ Part(e) > 1
                           /\ Current(e).body = "text"
                           /\ ~Passes(e, Current(e))
    /\ pc'[e] = "ended" => \/ ~Reaches(e)
                           \/ UNCHANGED count /\ Refuses(e)

\* A packet that is handed over is a step of the frame.
LEMMA GivesFrame ==
    ASSUME TypeOK, NEW e \in End, Part(e) > 1, Passes(e, Current(e)),
           count[e] + 1 <= arrived[Other(e)].whole,
           gives(e, Current(e), Current(e).body), UNCHANGED <<arrived, asked, up>>
    PROVE  Frame(e)
<1> DEFINE p == Current(e)
<1>1. p \in Packet
  BY CurrentIsSent
<1>2. \A b \in Body : /\ Response(p.cmd, p.seq, "ROK", b) \in Packet
                      /\ Response(p.cmd, p.seq, "ROK", b).reply
  BY <1>1 DEF Response, Packet
<1>3. \/ UNCHANGED sent
      \/ \E q \in Packet : q.reply /\ sent' = [sent EXCEPT ![e] = Append(@, q)]
  BY <1>2 DEF gives, sends
<1>4. pc' = [pc EXCEPT ![e] = "header"]
  BY DEF gives, LoopsOn
<1>5. pc'[e] = "header"
  BY <1>4 DEF TypeOK
<1> QED
  BY <1>3, <1>4, <1>5 DEF gives, Frame

\* So is every step of onTcpReceive.
LEMMA ReceiveFrame ==
    ASSUME Inv, NEW e \in End, onTcpReceive(e)
    PROVE  Frame(e)
<1> DEFINE p == Current(e)
<1> USE DEF Inv
<1>1. CASE ShortHeader(e)
  <2>1. \/ UNCHANGED sent
        \/ \E q \in Packet : q.reply /\ sent' = [sent EXCEPT ![e] = Append(@, q)]
    BY <1>1, AnswersFrame DEF ShortHeader
  <2>2. pc' = [pc EXCEPT ![e] = "ended"]
    BY <1>1 DEF ShortHeader, answers
  <2>3. pc'[e] = "ended" /\ Torn(e) /\ UNCHANGED <<arrived, count, given, asked, up>>
    BY <1>1, <2>2 DEF ShortHeader, Torn, TypeOK
  <2> QED
    BY <2>1, <2>2, <2>3 DEF Frame, Refuses
<1>2. CASE InvalidLength(e)
  <2>1. pc'[e] = "ended" /\ UNCHANGED <<sent, arrived, count, given, asked, up>>
    BY <1>2 DEF InvalidLength, TypeOK
  <2>2. TooLong(e) /\ pc' = [pc EXCEPT ![e] = "ended"]
    BY <1>2 DEF InvalidLength, TooLong
  <2> QED
    BY <2>1, <2>2 DEF Frame, Refuses
<1>3. CASE EnquireLink(e)
  <2>1. p \in Packet /\ count[e] + 1 \in DOMAIN sent[Other(e)] /\ p = sent[Other(e)][count[e] + 1]
    BY <1>3, CurrentIsSent, OtherEnd, SMTT(30) DEF EnquireLink, ValidHeader, TypeOK
  <2>2. p.body = "none"
    BY <1>3, <2>1, OtherEnd DEF Plain, EnquireLink
  <2>3. count[e] + 1 <= arrived[Other(e)].whole
    BY <1>3, <2>2, WholeWithoutBody DEF EnquireLink, ValidHeader
  <2>4. /\ \/ UNCHANGED sent
           \/ \E q \in Packet : q.reply /\ sent' = [sent EXCEPT ![e] = Append(@, q)]
        /\ \/ pc' = [pc EXCEPT ![e] = "header"]
           \/ ~Reaches(e) /\ pc' = [pc EXCEPT ![e] = "ended"]
    BY <1>3, <2>1, PacketFields, AnswersFrame DEF EnquireLink, LoopsOn
  <2>5. pc'[e] = "header" \/ (~Reaches(e) /\ pc'[e] = "ended")
    BY <2>4 DEF TypeOK
  <2>6. ~Passes(e, p)
    BY <1>3 DEF EnquireLink, Passes
  <2> QED
    BY <1>3, <2>3, <2>4, <2>5, <2>6 DEF EnquireLink, Frame
<1>4. CASE UnknownRequest(e)
  <2>1. p \in Packet
    BY <1>4, CurrentIsSent DEF UnknownRequest, ValidHeader
  <2>2. CASE p.body = "text"
    <3>1. answers(e, p, "RINVCMDID", "stray") /\ UNCHANGED <<arrived, count, given, asked, up>>
      BY <1>4, <2>2 DEF UnknownRequest
    <3>2. /\ \/ UNCHANGED sent
             \/ \E q \in Packet : q.reply /\ sent' = [sent EXCEPT ![e] = Append(@, q)]
          /\ \/ pc' = [pc EXCEPT ![e] = "stray"]
             \/ ~Reaches(e) /\ pc' = [pc EXCEPT ![e] = "ended"]
      BY <3>1, <2>1, PacketFields, AnswersFrame
    <3>3. pc'[e] = "stray" \/ (~Reaches(e) /\ pc'[e] = "ended")
      BY <3>2 DEF TypeOK
    <3> QED
      BY <1>4, <2>2, <3>1, <3>2, <3>3 DEF UnknownRequest, ValidHeader, Frame
  <2>3. CASE p.body = "none"
    <3>1. /\ answers(e, p, "RINVCMDID", "header")
          /\ count' = [count EXCEPT ![e] = @ + 1]
          /\ UNCHANGED <<arrived, given, asked, up>>
      BY <1>4, <2>3 DEF UnknownRequest, LoopsOn
    <3>2. /\ \/ UNCHANGED sent
             \/ \E q \in Packet : q.reply /\ sent' = [sent EXCEPT ![e] = Append(@, q)]
          /\ \/ pc' = [pc EXCEPT ![e] = "header"]
             \/ ~Reaches(e) /\ pc' = [pc EXCEPT ![e] = "ended"]
      BY <3>1, <2>1, PacketFields, AnswersFrame
    <3>3. pc'[e] = "header" \/ (~Reaches(e) /\ pc'[e] = "ended")
      BY <3>2 DEF TypeOK
    <3>4. count[e] + 1 <= arrived[Other(e)].whole
      BY <1>4, <2>3, WholeWithoutBody DEF UnknownRequest, ValidHeader
    <3> QED
      BY <1>4, <3>1, <3>2, <3>3, <3>4 DEF UnknownRequest, Frame
  <2> QED
    BY <1>4, <2>2, <2>3 DEF UnknownRequest
<1>5. CASE WholeHeader(e)
  <2>1. CASE p.body = "none"
    <3>1. count[e] + 1 <= arrived[Other(e)].whole
      BY <1>5, <2>1, WholeWithoutBody DEF WholeHeader, ValidHeader
    <3> QED
      BY <1>5, <2>1, <3>1, GivesFrame DEF WholeHeader, ValidHeader
  <2>2. CASE p.body = "text"
    <3>1. pc' = [pc EXCEPT ![e] = "body"] /\ UNCHANGED <<sent, count, given, arrived, asked, up>>
      BY <1>5, <2>2 DEF WholeHeader, ReadsBody
    <3>2. pc'[e] = "body"
      BY <3>1 DEF TypeOK
    <3> QED
      BY <1>5, <2>2, <3>1, <3>2 DEF WholeHeader, ValidHeader, Frame
  <2> QED
    BY <1>5, <2>1, <2>2 DEF WholeHeader
<1>6. CASE RecvBody(e)
  <2>1. Part(e) > 1 /\ p.body = "text" /\ Passes(e, p)
    BY <1>6 DEF RecvBody, Reading
  <2>2. CASE Part(e) = 4
    <3>1. gives(e, p, p.body) /\ UNCHANGED <<arrived, asked, up>>
      BY <1>6, <2>1, <2>2 DEF RecvBody
    <3>2. count[e] + 1 <= arrived[Other(e)].whole
      BY <2>2, OtherEnd, SMTT(30) DEF Part, TypeOK
    <3> QED
      BY <2>1, <3>1, <3>2, GivesFrame
  <2>3. CASE Part(e) = 3
    <3>1. ShortBody(e) /\ UNCHANGED <<arrived, asked, up>>
      BY <1>6, <2>3 DEF RecvBody
    <3>2. \/ UNCHANGED sent
          \/ \E q \in Packet : q.reply /\ sent' = [sent EXCEPT ![e] = Append(@, q)]
      <4>1. Current(e) \in Packet
        BY <2>1, CurrentIsSent
      <4>2. Current(e).cmd \in Command \cup {Nack} /\ Current(e).seq \in Nat
        BY <4>1, PacketFields
      <4>3. answers(e, Current(e), "RSYSERR", "ended")
        BY <3>1 DEF ShortBody
      <4> QED
        BY <4>2, <4>3, AnswersFrame
    <3>3. pc' = [pc EXCEPT ![e] = "ended"]
      BY <3>1 DEF ShortBody, answers
    <3>4. pc'[e] = "ended" /\ Torn(e)
      BY <3>3, <2>3 DEF TypeOK, Torn
    <3> QED
      BY <3>1, <3>2, <3>3, <3>4 DEF ShortBody, Frame, Refuses
  <2> QED
    BY <1>6, <2>2, <2>3 DEF RecvBody
<1>7. CASE RecvStray(e)
  <2>1. \/ UNCHANGED sent
        \/ \E q \in Packet : q.reply /\ sent' = [sent EXCEPT ![e] = Append(@, q)]
    BY <1>7, AnswersFrame DEF RecvStray
  <2>2. pc' = [pc EXCEPT ![e] = "ended"]
    BY <1>7 DEF RecvStray, answers
  <2>3. Unread(e) /\ pc'[e] = "ended"
    BY <1>7, <2>2 DEF RecvStray, Unread, Reading, TypeOK
  <2> QED
    BY <1>7, <2>1, <2>2, <2>3 DEF RecvStray, Frame, Refuses
<1>8. CASE RecvEnd(e)
  <2>1. pc'[e] = "ended"
    BY <1>8 DEF RecvEnd, TypeOK
  <2> QED
    BY <1>8, <2>1 DEF RecvEnd, Frame
<1> QED
  BY <1>1, <1>2, <1>3, <1>4, <1>5, <1>6, <1>7, <1>8 DEF onTcpReceive

-----------------------------------------------------------------------------
(* Types *)

\* A stream only grows, at its end.
LEMMA Grows ==
    ASSUME TypeOK, NEW e \in End, NEW x \in End, NEW q \in Packet,
           sent' = [sent EXCEPT ![e] = Append(@, q)]
    PROVE  /\ sent' \in [End -> Seq(Packet)]
           /\ Len(sent[x]) \in Nat
           /\ Len(sent'[x]) \in {Len(sent[x]), Len(sent[x]) + 1}
           /\ \A i \in 1..Len(sent[x]) : sent'[x][i] = sent[x][i]
           /\ \A i \in DOMAIN sent'[x] :
                i \in DOMAIN sent[x] \/ (x = e /\ sent'[x][i] = q)
           /\ DOMAIN sent[x] = 1..Len(sent[x])
           /\ x # e => sent'[x] = sent[x]
<1>1. sent \in [End -> Seq(Packet)]
  BY DEF TypeOK
<1>2. sent[x] \in Seq(Packet)
  BY <1>1
<1>3. sent' \in [End -> Seq(Packet)]
  BY <1>1
<1>4. CASE x = e
  <2>1. sent'[x] = Append(sent[x], q)
    BY <1>1, <1>4
  <2>2. Len(sent'[x]) = Len(sent[x]) + 1 /\ Len(sent[x]) \in Nat
    BY <1>2, <2>1
  <2>3. \A i \in 1..Len(sent[x]) : sent'[x][i] = sent[x][i]
    BY <1>2, <2>1
  <2>4. DOMAIN sent[x] = 1..Len(sent[x]) /\ DOMAIN sent'[x] = 1..(Len(sent[x]) + 1)
    BY <1>2, <2>1
  <2>5. sent'[x][Len(sent[x]) + 1] = q
    BY <1>2, <2>1
  <2> QED
    BY <1>3, <1>4, <2>2, <2>3, <2>4, <2>5
<1>5. CASE x # e
  <2>1. sent'[x] = sent[x]
    BY <1>1, <1>5
  <2> QED
    BY <1>2, <1>3, <1>5, <2>1
<1> QED
  BY <1>4, <1>5

\* The part of TypeOK that relates the streams.
Bounds ==
    \A e \in End :
        /\ arrived[e].whole <= Len(sent[e])
        /\ arrived[e].part > 0 => arrived[e].whole < Len(sent[e])
        /\ arrived[e].part > 1 => sent[e][arrived[e].whole + 1].body # "none"
        /\ count[Other(e)] <= arrived[e].whole

\* Streams that have grown still hold what has arrived.
LEMMA BoundsGrow ==
    ASSUME TypeOK, NEW e \in End, NEW q \in Packet,
           sent' = [sent EXCEPT ![e] = Append(@, q)], UNCHANGED arrived,
           \A x \in End : count'[Other(x)] <= arrived[x].whole
    PROVE  Bounds'
<1> SUFFICES ASSUME NEW x \in End
             PROVE  /\ arrived[x].whole <= Len(sent'[x])
                    /\ arrived[x].part > 0 => arrived[x].whole < Len(sent'[x])
                    /\ arrived[x].part > 1 => sent'[x][arrived[x].whole + 1].body # "none"
  BY DEF Bounds
<1>1. /\ Len(sent[x]) \in Nat
      /\ Len(sent'[x]) \in {Len(sent[x]), Len(sent[x]) + 1}
      /\ \A i \in 1..Len(sent[x]) : sent'[x][i] = sent[x][i]
  BY Grows
<1>2. /\ arrived[x] \in [whole : Nat, part : 0..3]
      /\ arrived[x].whole <= Len(sent[x])
      /\ arrived[x].part > 0 => arrived[x].whole < Len(sent[x])
      /\ arrived[x].part > 1 => sent[x][arrived[x].whole + 1].body # "none"
  BY DEF TypeOK
<1>3. arrived[x].part > 1 => arrived[x].whole + 1 \in 1..Len(sent[x])
  BY <1>1, <1>2
<1> QED
  BY <1>1, <1>2, <1>3

\* Nothing has been sent at first.
LEMMA TypeInit == ASSUME StreamAssumption, Init PROVE TypeOK
<1>1. \A e \in End : Other(e) \in End
  BY OtherEnd
<1> QED
  BY <1>1 DEF Init, TypeOK, StreamAssumption

\* A receive thread takes only packets that have arrived.
LEMMA TypeReceive ==
    ASSUME Inv, NEW e \in End, Frame(e)
    PROVE  TypeOK'
<1> USE DEF Inv
<1>1. /\ arrived' \in [End -> [whole : Nat, part : 0..3]]
      /\ asked' \in [End -> Nat]
      /\ up' \in BOOLEAN
      /\ pc' \in [End -> {"header", "body", "stray", "ended"}]
  BY DEF Frame, TypeOK
<1>2. count' \in [End -> Nat] /\ \A x \in End : count'[Other(x)] <= arrived[x].whole
  <2>1. \A x \in End : Other(x) \in End /\ Other(Other(x)) = x
    BY OtherEnd
  <2>2. count' = count \/ (count' = [count EXCEPT ![e] = @ + 1]
                            /\ count[e] + 1 <= arrived[Other(e)].whole)
    BY DEF Frame
  <2> QED
    BY <2>1, <2>2, SMTT(30) DEF TypeOK
<1>3. given' \in [End -> Seq([n : Nat, body : Body \cup {"part"}])]
  <2>1. CASE UNCHANGED given
    BY <2>1 DEF TypeOK
  <2>2. CASE given' # given
    <3>1. /\ given' = [given EXCEPT ![e] =
                         Append(@, [n |-> count[e] + 1, body |-> Current(e).body])]
          /\ count[e] + 1 <= arrived[Other(e)].whole
      BY <2>2 DEF Frame
    <3>2. Part(e) > 0
      BY <3>1, OtherEnd DEF Part, TypeOK
    <3>3. Current(e).body \in Body
      BY <3>2, CurrentIsSent DEF Packet
    <3>4. [n |-> count[e] + 1, body |-> Current(e).body] \in [n : Nat, body : Body \cup {"part"}]
      BY <3>3 DEF TypeOK
    <3> QED
      BY <3>1, <3>4 DEF TypeOK
  <2> QED
    BY <2>1, <2>2
<1>4. CASE UNCHANGED sent
  <2>1. UNCHANGED arrived
    BY DEF Frame
  <2> QED
    BY <1>1, <1>2, <1>3, <1>4, <2>1 DEF TypeOK
<1>5. CASE \E q \in Packet : q.reply /\ sent' = [sent EXCEPT ![e] = Append(@, q)]
  <2>1. PICK q \in Packet : sent' = [sent EXCEPT ![e] = Append(@, q)]
    BY <1>5
  <2>2. UNCHANGED arrived
    BY DEF Frame
  <2>3. Bounds'
    BY <1>2, <2>1, <2>2, BoundsGrow
  <2>4. sent' \in [End -> Seq(Packet)]
    BY <2>1, Grows
  <2> QED
    BY <1>1, <1>2, <1>3, <2>3, <2>4 DEF TypeOK, Bounds
<1> QED
  BY <1>4, <1>5 DEF Frame

\* The packet a request adds.
LEMMA RequestFrame ==
    ASSUME StreamAssumption, TypeOK, NEW e \in End, request(e)
    PROVE  /\ UNCHANGED <<arrived, pc, count, given, up>>
           /\ pc[e] # "ended"
           /\ asked' \in [End -> Nat]
           /\ \E q \in Packet : /\ q.cmd = Enquire => q.body = "none"
                                /\ sent' = [sent EXCEPT ![e] = Append(@, q)]
<1>1. PICK o \in Offers[e] : sent' = [sent EXCEPT ![e] =
            Append(@, [reply |-> FALSE, cmd |-> o.cmd, seq |-> asked[e] + 1,
                       body |-> o.body, status |-> "ROK"])]
  BY DEF request
<1> DEFINE q == [reply |-> FALSE, cmd |-> o.cmd, seq |-> asked[e] + 1,
                 body |-> o.body, status |-> "ROK"]
<1>2. o \in [cmd : Command, body : Body]
  BY DEF StreamAssumption
<1>3. q \in Packet
  <2>1. asked[e] + 1 \in Nat
    BY DEF TypeOK
  <2>2. o.cmd \in Command /\ o.body \in Body
    BY <1>2
  <2> QED
    BY <2>1, <2>2 DEF Packet
<1>4. q.cmd = Enquire => q.body = "none"
  BY DEF StreamAssumption
<1>5. asked' \in [End -> Nat]
  BY SMTT(30) DEF request, TypeOK
<1> QED
  BY <1>1, <1>3, <1>4, <1>5 DEF request

\* A request is a packet.
LEMMA TypeRequest ==
    ASSUME StreamAssumption, TypeOK, NEW e \in End, request(e)
    PROVE  TypeOK'
<1>1. PICK q \in Packet : sent' = [sent EXCEPT ![e] = Append(@, q)]
  BY RequestFrame
<1>2. UNCHANGED <<arrived, pc, count, given, up>> /\ asked' \in [End -> Nat]
  BY RequestFrame
<1>3. \A x \in End : count'[Other(x)] <= arrived[x].whole
  BY <1>2 DEF TypeOK
<1>4. Bounds'
  BY <1>1, <1>2, <1>3, BoundsGrow
<1>5. sent' \in [End -> Seq(Packet)]
  BY <1>1, Grows
<1> QED
  BY <1>2, <1>4, <1>5 DEF TypeOK, Bounds

\* Only what was sent arrives.
LEMMA TypeArrives ==
    ASSUME TypeOK, NEW e \in End, Arrives(e)
    PROVE  TypeOK'
<1>1. PICK n \in arrived[e].whole .. Len(sent[e]), k \in 0..3 :
        /\ k > 0 => n < Len(sent[e])
        /\ k > 1 => sent[e][n + 1].body # "none"
        /\ arrived' = [arrived EXCEPT ![e] = [whole |-> n, part |-> k]]
  BY DEF Arrives
<1>2. /\ arrived[e] \in [whole : Nat, part : 0..3]
      /\ count[Other(e)] \in Nat /\ count[Other(e)] <= arrived[e].whole
      /\ Len(sent[e]) \in Nat
  <2>1. Other(e) \in End /\ sent[e] \in Seq(Packet)
    BY OtherEnd DEF TypeOK
  <2> QED
    BY <2>1 DEF TypeOK
<1>3. n \in Nat /\ n <= Len(sent[e]) /\ count[Other(e)] <= n
  BY <1>1, <1>2
<1>4. arrived' \in [End -> [whole : Nat, part : 0..3]]
  BY <1>1, <1>3 DEF TypeOK
<1>5. UNCHANGED <<sent, pc, count, given, asked, up>>
  BY DEF Arrives
<1>6. Bounds'
  <2> SUFFICES ASSUME NEW x \in End
               PROVE  /\ arrived'[x].whole <= Len(sent[x])
                      /\ arrived'[x].part > 0 => arrived'[x].whole < Len(sent[x])
                      /\ arrived'[x].part > 1 =>
                            sent[x][arrived'[x].whole + 1].body # "none"
                      /\ count[Other(x)] <= arrived'[x].whole
    BY <1>5 DEF Bounds
  <2>1. CASE x = e
    <3>1. arrived'[x].whole = n /\ arrived'[x].part = k
      BY <1>1, <2>1 DEF TypeOK
    <3> QED
      BY <1>1, <1>3, <2>1, <3>1
  <2>2. CASE x # e
    <3>1. arrived'[x] = arrived[x]
      BY <1>1, <2>2 DEF TypeOK
    <3> QED
      BY <3>1 DEF TypeOK
  <2> QED
    BY <2>1, <2>2
<1> QED
  BY <1>4, <1>5, <1>6 DEF TypeOK, Bounds

-----------------------------------------------------------------------------
(* What a thread has before it *)

\* Streams keep what they hold.
Keeps == \A x \in End : /\ Len(sent[x]) \in Nat
                        /\ \A i \in 1..Len(sent[x]) : sent'[x][i] = sent[x][i]

\* A receive thread leaves the packets that were sent as they are.
LEMMA KeepsReceive == ASSUME Inv, NEW e \in End, Frame(e) PROVE Keeps
<1>1. CASE UNCHANGED sent
  BY <1>1 DEF Keeps, Inv, TypeOK
<1>2. CASE \E q \in Packet : q.reply /\ sent' = [sent EXCEPT ![e] = Append(@, q)]
  BY <1>2, Grows DEF Keeps, Inv
<1> QED
  BY <1>1, <1>2 DEF Frame

\* A thread that has not moved is at the same packet.
LEMMA StaysAt ==
    ASSUME TypeOK, NEW x \in End, Keeps, UNCHANGED arrived, count'[x] = count[x]
    PROVE  /\ Part(x)' = Part(x)
           /\ Part(x) > 0 => Current(x)' = Current(x)
<1>1. Part(x)' = Part(x)
  BY DEF Part
<1>2. ASSUME Part(x) > 0 PROVE Current(x)' = Current(x)
  <2>1. count[x] + 1 \in 1..Len(sent[Other(x)]) /\ Other(x) \in End
    BY <1>2, CurrentIsSent, OtherEnd
  <2> QED
    BY <2>1 DEF Keeps, Current
<1> QED
  BY <1>1, <1>2

\* Bytes that arrive leave a thread at its packet, with more of it before it.
LEMMA MoreArrives ==
    ASSUME TypeOK, NEW e \in End, Arrives(e), NEW x \in End
    PROVE  /\ x # Other(e) => Part(x)' = Part(x)
           /\ Part(x)' >= Part(x)
           /\ Current(x)' = Current(x)
           /\ UNCHANGED <<sent, pc, count, given, up>>
<1>1. UNCHANGED <<sent, pc, count, given, up>>
  BY DEF Arrives
<1>2. Current(x)' = Current(x)
  BY <1>1 DEF Current
<1>3. Part(x) \in 0..4
  BY CurrentIsSent
<1>4. CASE x # Other(e)
  <2>1. Other(x) # e
    BY <1>4 DEF Other
  <2>2. arrived'[Other(x)] = arrived[Other(x)]
    BY <2>1, OtherEnd DEF Arrives, TypeOK
  <2> QED
    BY <1>1, <1>2, <1>3, <2>2 DEF Part
<1>5. CASE x = Other(e)
  <2>1. Other(x) = e
    BY <1>5, OtherEnd
  <2>2. PICK n \in arrived[e].whole .. Len(sent[e]), k \in 0..3 :
          /\ n > arrived[e].whole \/ k > arrived[e].part
          /\ arrived' = [arrived EXCEPT ![e] = [whole |-> n, part |-> k]]
    BY DEF Arrives
  <2>3. arrived'[e].whole = n /\ arrived'[e].part = k
    BY <2>2 DEF TypeOK
  <2>4. /\ arrived[e] \in [whole : Nat, part : 0..3]
        /\ count[x] \in Nat /\ count[x] <= arrived[e].whole
        /\ Len(sent[e]) \in Nat
    BY <1>5, <2>1 DEF TypeOK
  <2>5. n \in Nat /\ n >= arrived[e].whole
    BY <2>2, <2>4
  <2>6. Part(x)' >= Part(x)
    BY <1>1, <2>1, <2>2, <2>3, <2>4, <2>5 DEF Part
  <2> QED
    BY <1>1, <1>2, <1>5, <2>6
<1> QED
  BY <1>4, <1>5

-----------------------------------------------------------------------------
(* Inv is inductive *)

\* The invariant holds at first.
LEMMA InvInit == ASSUME StreamAssumption, Init PROVE Inv
<1>1. TypeOK
  BY TypeInit
<1>2. Plain /\ Reading
  BY DEF Init, Plain, Reading
<1> QED
  BY <1>1, <1>2 DEF Inv

\* A packet that is sent is an answer, or an enquire link request without a body.
LEMMA PlainGrows ==
    ASSUME Inv, NEW e \in End, NEW q \in Packet,
           q.reply \/ (q.cmd = Enquire => q.body = "none"),
           sent' = [sent EXCEPT ![e] = Append(@, q)]
    PROVE  Plain'
<1> SUFFICES ASSUME NEW x \in End, NEW i \in DOMAIN sent'[x],
                    ~sent'[x][i].reply, sent'[x][i].cmd = Enquire
             PROVE  sent'[x][i].body = "none"
  BY DEF Plain
<1>1. CASE i \in DOMAIN sent[x]
  <2>1. sent'[x][i] = sent[x][i]
    BY <1>1, Grows DEF Inv
  <2> QED
    BY <1>1, <2>1 DEF Inv, Plain
<1>2. CASE sent'[x][i] = q
  BY <1>2
<1> QED
  BY <1>1, <1>2, Grows DEF Inv

\* A thread begins to read a body only at a packet that has one.
LEMMA ReadingReceive == ASSUME Inv, NEW e \in End, Frame(e) PROVE Reading'
<1> SUFFICES ASSUME NEW x \in End, pc'[x] \in {"body", "stray"}
             PROVE  /\ Part(x)' > 1
                    /\ Current(x)'.body = "text"
                    /\ Passes(x, Current(x)') <=> pc'[x] = "body"
  BY DEF Reading, Passes
<1>1. Keeps /\ UNCHANGED arrived /\ TypeOK
  BY KeepsReceive DEF Frame, Inv
<1>2. CASE x = e
  <2>1. /\ UNCHANGED count
        /\ Part(e) > 1
        /\ Current(e).body = "text"
        /\ Passes(e, Current(e)) <=> pc'[e] = "body"
    BY <1>2 DEF Frame
  <2>2. Part(e)' = Part(e) /\ (Part(e) > 0 => Current(e)' = Current(e))
    BY <1>1, <2>1, StaysAt
  <2>3. Part(e) \in 0..4
    BY <1>1, CurrentIsSent
  <2> QED
    BY <1>2, <2>1, <2>2, <2>3
<1>3. CASE x # e
  <2>1. pc'[x] = pc[x] /\ count'[x] = count[x]
    BY <1>1, <1>3 DEF Frame, TypeOK
  <2>2. /\ Part(x) > 1
        /\ Current(x).body = "text"
        /\ Passes(x, Current(x)) <=> pc[x] = "body"
    BY <2>1 DEF Inv, Reading
  <2>3. Part(x)' = Part(x) /\ (Part(x) > 0 => Current(x)' = Current(x))
    BY <1>1, <2>1, StaysAt
  <2>4. Part(x) \in 0..4
    BY <1>1, CurrentIsSent
  <2> QED
    BY <2>1, <2>2, <2>3, <2>4
<1> QED
  BY <1>2, <1>3

\* Packets sent meanwhile do not change the one a thread is at.
LEMMA ReadingStays ==
    ASSUME Inv, Keeps, UNCHANGED <<arrived, pc, count>>
    PROVE  Reading'
<1> SUFFICES ASSUME NEW x \in End, pc'[x] \in {"body", "stray"}
             PROVE  /\ Part(x)' > 1
                    /\ Current(x)'.body = "text"
                    /\ Passes(x, Current(x)') <=> pc'[x] = "body"
  BY DEF Reading, Passes
<1>1. /\ Part(x) > 1
      /\ Current(x).body = "text"
      /\ Passes(x, Current(x)) <=> pc[x] = "body"
  BY DEF Inv, Reading
<1>2. Part(x)' = Part(x) /\ (Part(x) > 0 => Current(x)' = Current(x))
  BY StaysAt DEF Inv
<1>3. Part(x) \in 0..4
  BY CurrentIsSent DEF Inv
<1> QED
  BY <1>1, <1>2, <1>3

\* Nor do bytes that arrive.
LEMMA ReadingArrives == ASSUME Inv, NEW e \in End, Arrives(e) PROVE Reading'
<1> SUFFICES ASSUME NEW x \in End, pc'[x] \in {"body", "stray"}
             PROVE  /\ Part(x)' > 1
                    /\ Current(x)'.body = "text"
                    /\ Passes(x, Current(x)') <=> pc'[x] = "body"
  BY DEF Reading, Passes
<1>1. /\ Part(x)' >= Part(x)
      /\ Current(x)' = Current(x)
      /\ UNCHANGED pc
  BY MoreArrives DEF Inv
<1>2. /\ Part(x) > 1
      /\ Current(x).body = "text"
      /\ Passes(x, Current(x)) <=> pc[x] = "body"
  BY <1>1 DEF Inv, Reading
<1>3. Part(x) \in 0..4 /\ Part(x)' \in 0..4
  <2>1. TypeOK /\ TypeOK'
    BY TypeArrives DEF Inv
  <2>2. Part(x) \in 0..4
    BY <2>1, CurrentIsSent
  <2>3. arrived' \in [End -> [whole : Nat, part : 0..3]]
    BY <2>1 DEF TypeOK
  <2>4. Part(x)' \in 0..4
    BY <2>3, OtherEnd DEF Part
  <2> QED
    BY <2>2, <2>4
<1> QED
  BY <1>1, <1>2, <1>3

\* Every step keeps the invariant.
LEMMA InvStep == ASSUME StreamAssumption, Inv, [Next]_vars PROVE Inv'
<1>1. CASE UNCHANGED vars
  <2>1. UNCHANGED <<sent, arrived, pc, count, given, asked, up>>
    BY <1>1 DEF vars
  <2>2. TypeOK' /\ Plain'
    BY <2>1 DEF Inv, TypeOK, Plain
  <2>3. Keeps
    BY <2>1 DEF Keeps, Inv, TypeOK
  <2> QED
    BY <2>1, <2>2, <2>3, ReadingStays DEF Inv
<1>2. CASE Breaks
  <2>1. UNCHANGED <<sent, arrived, pc, count, given, asked>> /\ up' \in BOOLEAN
    BY <1>2 DEF Breaks
  <2>2. TypeOK' /\ Plain'
    BY <2>1 DEF Inv, TypeOK, Plain
  <2>3. Keeps
    BY <2>1 DEF Keeps, Inv, TypeOK
  <2> QED
    BY <2>1, <2>2, <2>3, ReadingStays DEF Inv
<1>3. ASSUME NEW e \in End, request(e) PROVE Inv'
  <2>1. PICK q \in Packet : /\ q.cmd = Enquire => q.body = "none"
                            /\ sent' = [sent EXCEPT ![e] = Append(@, q)]
    BY <1>3, RequestFrame DEF Inv
  <2>2. Plain'
    BY <2>1, PlainGrows
  <2>3. Keeps
    BY <2>1, Grows DEF Keeps, Inv
  <2>4. UNCHANGED <<arrived, pc, count>>
    BY <1>3, RequestFrame DEF Inv
  <2>5. Reading'
    BY <2>3, <2>4, ReadingStays
  <2> QED
    BY <1>3, <2>2, <2>5, TypeRequest DEF Inv
<1>4. ASSUME NEW e \in End, Arrives(e) PROVE Inv'
  <2>1. Plain'
    BY <1>4 DEF Arrives, Inv, Plain
  <2> QED
    BY <1>4, <2>1, TypeArrives, ReadingArrives DEF Inv
<1>5. ASSUME NEW e \in End, onTcpReceive(e) PROVE Inv'
  <2>1. Frame(e)
    BY <1>5, ReceiveFrame
  <2>2. Plain'
    <3>1. CASE UNCHANGED sent
      BY <3>1 DEF Inv, Plain
    <3>2. CASE \E q \in Packet : q.reply /\ sent' = [sent EXCEPT ![e] = Append(@, q)]
      BY <3>2, PlainGrows
    <3> QED
      BY <2>1, <3>1, <3>2 DEF Frame
  <2> QED
    BY <2>1, <2>2, TypeReceive, ReadingReceive DEF Inv
<1> QED
  BY <1>1, <1>2, <1>3, <1>4, <1>5 DEF Next

\* Streams, threads and what has arrived keep their types; a thread never takes
\* a packet that has not arrived whole (runTcpReceive, onTcpReceive).
THEOREM StreamTypeCorrect == Spec => []TypeOK
<1>1. Init => Inv
  BY InvInit, StreamAssumption
<1>2. Inv /\ [Next]_vars => Inv'
  BY InvStep, StreamAssumption
<1>3. Inv => TypeOK
  BY DEF Inv
<1> QED
  BY <1>1, <1>2, <1>3, PTL DEF Spec

-----------------------------------------------------------------------------
(* Packets are given as they were sent *)

\* What has been given to end x, with the streams and counts as they are.
GivenOf(x) ==
    /\ \A i \in DOMAIN given[x] : LET g == given[x][i] IN
        /\ g.n \in 1..count[x]
        /\ Passes(x, sent[Other(x)][g.n])
        /\ g.body = sent[Other(x)][g.n].body
    /\ \A i, j \in DOMAIN given[x] : i < j => given[x][i].n < given[x][j].n
    /\ \A n \in 1..count[x] :
        Passes(x, sent[Other(x)][n]) => \E i \in DOMAIN given[x] : given[x][i].n = n

\* GivenAsSent speaks of each end by itself.
LEMMA GivenByEnd == GivenAsSent <=> \A x \in End : GivenOf(x)
BY DEF GivenAsSent, GivenOf

\* What was taken out of a stream is still in it.
LEMMA TakenStays ==
    ASSUME TypeOK, Keeps, NEW x \in End, NEW n \in 1..count[x]
    PROVE  sent'[Other(x)][n] = sent[Other(x)][n]
<1>1. Other(x) \in End /\ Other(Other(x)) = x
  BY OtherEnd
<1>2. /\ count[x] \in Nat /\ arrived[Other(x)].whole \in Nat
      /\ count[x] <= arrived[Other(x)].whole
      /\ arrived[Other(x)].whole <= Len(sent[Other(x)])
      /\ Len(sent[Other(x)]) \in Nat
  <2>1. arrived[Other(x)] \in [whole : Nat, part : 0..3] /\ sent[Other(x)] \in Seq(Packet)
    BY <1>1 DEF TypeOK
  <2> QED
    BY <1>1, <2>1, SMTT(30) DEF TypeOK
<1>3. n \in 1..Len(sent[Other(x)])
  BY <1>2
<1> QED
  BY <1>1, <1>3 DEF Keeps

\* A thread that has taken nothing has been given what it had been given.
LEMMA GivenStays ==
    ASSUME TypeOK, Keeps, NEW x \in End, GivenOf(x),
           count'[x] = count[x], given'[x] = given[x]
    PROVE  GivenOf(x)'
<1>1. \A n \in 1..count[x] : sent'[Other(x)][n] = sent[Other(x)][n]
  BY TakenStays
<1> QED
  BY <1>1, SMTT(30) DEF GivenOf, Passes

\* A thread that has taken a packet the parser answers itself has been given no
\* other.
LEMMA GivenSkips ==
    ASSUME TypeOK, Keeps, NEW x \in End, GivenOf(x), Part(x) > 0,
           ~Passes(x, Current(x)), count'[x] = count[x] + 1, given'[x] = given[x]
    PROVE  GivenOf(x)'
<1>1. \A n \in 1..count[x] : sent'[Other(x)][n] = sent[Other(x)][n]
  BY TakenStays
<1>2. count[x] \in Nat
  BY DEF TypeOK
<1>3. sent'[Other(x)][count[x] + 1] = Current(x)
  BY CurrentIsSent, OtherEnd DEF Keeps
<1>4. \A n \in 1..count'[x] : n \in 1..count[x] \/ n = count[x] + 1
  BY <1>2
<1>5. \A n \in 1..count[x] : n \in 1..count'[x]
  BY <1>2
<1>6. \A i \in DOMAIN given'[x] : LET g == given'[x][i] IN
        /\ g.n \in 1..count'[x]
        /\ Passes(x, sent'[Other(x)][g.n])
        /\ g.body = sent'[Other(x)][g.n].body
  BY <1>1, <1>5 DEF GivenOf, Passes
<1>7. \A i, j \in DOMAIN given'[x] : i < j => given'[x][i].n < given'[x][j].n
  BY DEF GivenOf
<1>8. ASSUME NEW n \in 1..count'[x], Passes(x, sent'[Other(x)][n])
      PROVE  \E i \in DOMAIN given'[x] : given'[x][i].n = n
  <2>1. n # count[x] + 1
    BY <1>3, <1>8
  <2>2. n \in 1..count[x] /\ sent'[Other(x)][n] = sent[Other(x)][n]
    BY <1>1, <1>4, <2>1
  <2>3. Passes(x, sent[Other(x)][n])
    BY <1>8, <2>2
  <2> QED
    BY <2>2, <2>3 DEF GivenOf
<1>9. \A n \in 1..count'[x] :
        Passes(x, sent'[Other(x)][n]) => \E i \in DOMAIN given'[x] : given'[x][i].n = n
  BY <1>8
<1> QED
  BY <1>6, <1>7, <1>9 DEF GivenOf, Passes

\* A thread that passes a packet on adds it, whole, after all others.
LEMMA GivenAdds ==
    ASSUME TypeOK, Keeps, NEW x \in End, GivenOf(x), Part(x) > 0,
           Passes(x, Current(x)), count'[x] = count[x] + 1,
           given'[x] = Append(given[x], [n |-> count[x] + 1, body |-> Current(x).body])
    PROVE  GivenOf(x)'
<1> DEFINE G == [n |-> count[x] + 1, body |-> Current(x).body]
           l == Len(given[x])
<1>1. \A n \in 1..count[x] : sent'[Other(x)][n] = sent[Other(x)][n]
  BY TakenStays
<1>2. count[x] \in Nat /\ given[x] \in Seq([n : Nat, body : Body \cup {"part"}])
  BY DEF TypeOK
<1>3. sent'[Other(x)][count[x] + 1] = Current(x)
  BY CurrentIsSent, OtherEnd DEF Keeps
<1>4. /\ l \in Nat
      /\ DOMAIN given[x] = 1..l
      /\ DOMAIN given'[x] = 1..(l + 1)
      /\ \A i \in 1..l : given'[x][i] = given[x][i]
      /\ given'[x][l + 1] = G
  <2>1. G \in [n : Nat, body : Body \cup {"part"}]
    BY <1>2, CurrentIsSent DEF Packet
  <2> QED
    BY <1>2, <2>1
<1>5. \A i \in DOMAIN given'[x] : i \in DOMAIN given[x] \/ i = l + 1
  BY <1>4
<1>6. \A n \in 1..count'[x] : n \in 1..count[x] \/ n = count[x] + 1
  BY <1>2
<1>7. \A n \in 1..count[x] : n \in 1..count'[x]
  BY <1>2
<1>8. ASSUME NEW i \in DOMAIN given'[x]
      PROVE  /\ given'[x][i].n \in 1..count'[x]
             /\ Passes(x, sent'[Other(x)][given'[x][i].n])
             /\ given'[x][i].body = sent'[Other(x)][given'[x][i].n].body
  <2>1. CASE i \in DOMAIN given[x]
    <3>1. given'[x][i] = given[x][i]
      BY <1>4, <2>1
    <3>2. /\ given[x][i].n \in 1..count[x]
          /\ Passes(x, sent[Other(x)][given[x][i].n])
          /\ given[x][i].body = sent[Other(x)][given[x][i].n].body
      BY <2>1 DEF GivenOf
    <3> QED
      BY <1>1, <1>7, <3>1, <3>2
  <2>2. CASE i = l + 1
    <3>1. given'[x][i].n = count[x] + 1 /\ given'[x][i].body = Current(x).body
      BY <1>4, <2>2
    <3>2. count[x] + 1 \in 1..count'[x]
      BY <1>2
    <3> QED
      BY <1>3, <3>1, <3>2
  <2> QED
    BY <1>5, <2>1, <2>2
<1>9. ASSUME NEW i \in DOMAIN given'[x], NEW j \in DOMAIN given'[x], i < j
      PROVE  given'[x][i].n < given'[x][j].n
  <2>1. i \in 1..l
    BY <1>4, <1>9
  <2>2. given'[x][i] = given[x][i] /\ given[x][i].n \in 1..count[x]
    BY <1>4, <2>1 DEF GivenOf
  <2>3. CASE j \in 1..l
    BY <1>4, <1>9, <2>1, <2>2, <2>3 DEF GivenOf
  <2>4. CASE j = l + 1
    <3>1. given'[x][j].n = count[x] + 1
      BY <1>4, <2>4
    <3>2. given[x][i].n < count[x] + 1
      BY <1>2, <2>2, SMTT(30)
    <3> QED
      BY <2>2, <3>1, <3>2
  <2> QED
    BY <1>4, <2>3, <2>4
<1>10. ASSUME NEW n \in 1..count'[x], Passes(x, sent'[Other(x)][n])
       PROVE  \E i \in DOMAIN given'[x] : given'[x][i].n = n
  <2>1. CASE n \in 1..count[x]
    <3>1. Passes(x, sent[Other(x)][n])
      BY <1>1, <1>10, <2>1
    <3>2. PICK i \in DOMAIN given[x] : given[x][i].n = n
      BY <2>1, <3>1 DEF GivenOf
    <3>3. i \in DOMAIN given'[x] /\ given'[x][i] = given[x][i]
      BY <1>4
    <3> QED
      BY <3>2, <3>3
  <2>2. CASE n = count[x] + 1
    <3>1. l + 1 \in DOMAIN given'[x] /\ given'[x][l + 1].n = n
      BY <1>4, <2>2
    <3> QED
      BY <3>1
  <2> QED
    BY <1>6, <2>1, <2>2
<1> QED
  BY <1>8, <1>9, <1>10 DEF GivenOf, Passes

\* Every step keeps the packets given equal to those sent.
LEMMA GivenStep ==
    ASSUME StreamAssumption, Inv, GivenAsSent, [Next]_vars
    PROVE  GivenAsSent'
<1> SUFFICES ASSUME NEW x \in End PROVE GivenOf(x)'
  BY DEF GivenAsSent, GivenOf
<1>1. GivenOf(x) /\ TypeOK
  BY GivenByEnd DEF Inv
<1>2. CASE UNCHANGED vars \/ Breaks
  <2>1. UNCHANGED <<sent, count, given>>
    BY <1>2 DEF vars, Breaks
  <2> QED
    BY <1>1, <2>1 DEF GivenOf, Passes
<1>3. ASSUME NEW e \in End, request(e) PROVE GivenOf(x)'
  <2>1. PICK q \in Packet : sent' = [sent EXCEPT ![e] = Append(@, q)]
    BY <1>1, <1>3, RequestFrame
  <2>2. Keeps
    BY <1>1, <2>1, Grows DEF Keeps
  <2>3. UNCHANGED <<count, given>>
    BY <1>3 DEF request
  <2> QED
    BY <1>1, <2>2, <2>3, GivenStays
<1>4. ASSUME NEW e \in End, Arrives(e) PROVE GivenOf(x)'
  <2>1. UNCHANGED <<sent, count, given>>
    BY <1>4 DEF Arrives
  <2> QED
    BY <1>1, <2>1 DEF GivenOf, Passes
<1>5. ASSUME NEW e \in End, onTcpReceive(e) PROVE GivenOf(x)'
  <2>1. Frame(e) /\ Keeps
    BY <1>5, ReceiveFrame, KeepsReceive
  <2>2. CASE x # e
    <3>1. count'[x] = count[x] /\ given'[x] = given[x]
      BY <1>1, <2>1, <2>2 DEF Frame, TypeOK
    <3> QED
      BY <1>1, <2>1, <3>1, GivenStays
  <2>3. CASE x = e /\ UNCHANGED <<count, given>>
    BY <1>1, <2>1, <2>3, GivenStays
  <2>4. CASE x = e /\ count[e] + 1 <= arrived[Other(e)].whole
    <3>1. Part(x) > 0
      BY <1>1, <2>4, OtherEnd, SMTT(30) DEF Part, TypeOK
    <3>2. CASE /\ UNCHANGED given
               /\ count' = [count EXCEPT ![e] = @ + 1]
               /\ ~Passes(e, Current(e))
      <4>1. count'[x] = count[x] + 1
        BY <1>1, <2>4, <3>2 DEF TypeOK
      <4> QED
        BY <1>1, <2>1, <2>4, <3>1, <3>2, <4>1, GivenSkips
    <3>3. CASE /\ count' = [count EXCEPT ![e] = @ + 1]
               /\ Passes(e, Current(e))
               /\ given' = [given EXCEPT ![e] =
                              Append(@, [n |-> count[e] + 1, body |-> Current(e).body])]
      <4>1. /\ count'[x] = count[x] + 1
            /\ given'[x] = Append(given[x], [n |-> count[x] + 1, body |-> Current(x).body])
        BY <1>1, <2>4, <3>3 DEF TypeOK
      <4> QED
        BY <1>1, <2>1, <2>4, <3>1, <3>3, <4>1, GivenAdds
    <3> QED
      BY <2>1, <2>3, <2>4, <3>2, <3>3 DEF Frame
  <2> QED
    BY <2>1, <2>2, <2>3, <2>4 DEF Frame
<1> QED
  BY <1>2, <1>3, <1>4, <1>5 DEF Next

\* However TCP cuts the stream, handlers and onResponse get every packet that is
\* theirs once, in order and with its own body (CCmpServer::onTcpReceive and
\* CCmpClient::onTcpReceive).
THEOREM GivenAsSentHolds == Spec => []GivenAsSent
<1>1. Init => Inv /\ GivenAsSent
  <2>1. Init => Inv
    BY InvInit, StreamAssumption
  <2>2. Init => GivenAsSent
    BY DEF Init, GivenAsSent
  <2> QED
    BY <2>1, <2>2
<1>2. Inv /\ GivenAsSent /\ [Next]_vars => (Inv /\ GivenAsSent)'
  BY InvStep, GivenStep, StreamAssumption
<1> QED
  BY <1>1, <1>2, PTL DEF Spec

-----------------------------------------------------------------------------
(* Why a connection ends *)

\* What a thread met stays before it.
LEMMA CauseStays ==
    ASSUME TypeOK, NEW x \in End, Part(x)' = Part(x), Part(x) > 0 => Current(x)' = Current(x),
           Refuses(x)
    PROVE  Refuses(x)'
<1>1. Part(x) \in 0..4
  BY CurrentIsSent
<1>2. CASE Torn(x)
  BY <1>2 DEF Torn, Refuses
<1>3. CASE Unread(x)
  <2>1. Part(x) > 2 /\ Part(x) > 0
    BY <1>1, <1>3 DEF Unread
  <2> QED
    BY <1>3, <2>1 DEF Unread, Passes, Refuses
<1>4. CASE TooLong(x)
  <2>1. Part(x) > 1 /\ Part(x) > 0
    BY <1>1, <1>4 DEF TooLong
  <2> QED
    BY <1>4, <2>1 DEF TooLong, Refuses
<1> QED
  BY <1>2, <1>3, <1>4 DEF Refuses

\* The cause for which an end has given up stays before it.
LEMMA EndStep ==
    ASSUME StreamAssumption, Inv, EndHasCause, [Next]_vars
    PROVE  EndHasCause'
<1> SUFFICES ASSUME NEW y \in End, pc'[y] = "ended", up'
             PROVE  \E x \in End : pc'[x] = "ended" /\ Refuses(x)'
  BY DEF EndHasCause
<1>1. TypeOK
  BY DEF Inv
<1>2. CASE Breaks
  BY <1>2 DEF Breaks
<1>3. ASSUME ~Breaks PROVE up
  BY <1>3 DEF Next, request, Arrives, onTcpReceive, ShortHeader, InvalidLength,
              EnquireLink, UnknownRequest, WholeHeader, RecvBody, RecvStray, RecvEnd, vars
<1>4. ASSUME NEW x \in End, pc[x] = "ended", Refuses(x), ~Breaks
      PROVE  pc'[x] = "ended" /\ Refuses(x)'
  <2>1. CASE UNCHANGED vars
    <3>1. UNCHANGED <<sent, arrived, pc, count>>
      BY <2>1 DEF vars
    <3> QED
      BY <1>4, <3>1 DEF Refuses, Torn, Unread, TooLong, Part, Current, Passes
  <2>2. ASSUME NEW e \in End, request(e)
        PROVE  pc'[x] = "ended" /\ Refuses(x)'
    <3>1. PICK q \in Packet : sent' = [sent EXCEPT ![e] = Append(@, q)]
      BY <1>1, <2>2, RequestFrame
    <3>2. Keeps
      BY <1>1, <3>1, Grows DEF Keeps
    <3>3. UNCHANGED <<arrived, pc, count>>
      BY <2>2 DEF request
    <3>4. Part(x)' = Part(x) /\ (Part(x) > 0 => Current(x)' = Current(x))
      BY <1>1, <3>2, <3>3, StaysAt
    <3> QED
      BY <1>1, <1>4, <3>3, <3>4, CauseStays
  <2>3. ASSUME NEW e \in End, Arrives(e)
        PROVE  pc'[x] = "ended" /\ Refuses(x)'
    <3>1. x # Other(e)
      BY <1>4, <2>3 DEF Arrives, Reaches
    <3>2. Part(x)' = Part(x) /\ Current(x)' = Current(x) /\ UNCHANGED pc
      BY <1>1, <2>3, <3>1, MoreArrives
    <3> QED
      BY <1>1, <1>4, <3>2, CauseStays
  <2>4. ASSUME NEW e \in End, onTcpReceive(e)
        PROVE  pc'[x] = "ended" /\ Refuses(x)'
    <3>1. Frame(e) /\ Keeps
      BY <2>4, ReceiveFrame, KeepsReceive
    <3>2. x # e
      BY <1>4, <2>4 DEF onTcpReceive, ShortHeader, InvalidLength, EnquireLink,
                        ValidHeader, UnknownRequest, WholeHeader, RecvBody, RecvStray,
                        RecvEnd
    <3>3. pc'[x] = pc[x] /\ count'[x] = count[x] /\ UNCHANGED arrived
      BY <1>1, <3>1, <3>2 DEF Frame, TypeOK
    <3>4. Part(x)' = Part(x) /\ (Part(x) > 0 => Current(x)' = Current(x))
      BY <1>1, <3>1, <3>3, StaysAt
    <3> QED
      BY <1>1, <1>4, <3>3, <3>4, CauseStays
  <2> QED
    BY <1>4, <2>1, <2>2, <2>3, <2>4 DEF Next
<1>5. CASE (\E z \in End : pc[z] = "ended") /\ ~Breaks
  <2>1. PICK x \in End : pc[x] = "ended" /\ Refuses(x)
    BY <1>3, <1>5 DEF EndHasCause
  <2> QED
    BY <1>4, <1>5, <2>1
<1>6. CASE (\A z \in End : pc[z] # "ended") /\ ~Breaks
  <2>1. pc' # pc
    BY <1>6
  <2>2. PICK e \in End : onTcpReceive(e)
    BY <1>6, <2>1 DEF Next, request, Arrives, vars
  <2>3. Frame(e) /\ Keeps
    BY <2>2, ReceiveFrame, KeepsReceive
  <2>4. y = e
    BY <1>1, <1>6, <2>3 DEF Frame, TypeOK
  <2>5. Reaches(e)
    BY <1>3, <1>6, OtherEnd DEF Reaches
  <2>6. /\ UNCHANGED count /\ UNCHANGED arrived
        /\ Refuses(e)
    BY <2>3, <2>4, <2>5 DEF Frame
  <2>7. Part(e)' = Part(e) /\ (Part(e) > 0 => Current(e)' = Current(e))
    BY <1>1, <2>3, <2>6, StaysAt
  <2> QED
    BY <1>1, <2>4, <2>6, <2>7, CauseStays
<1> QED
  BY <1>2, <1>5, <1>6

\* A connection that the network keeps up is ended only over a packet that came in
\* pieces, a request with a body that has no handler, or a packet longer than
\* MAX_SOCKET_READ (the returns of 0 in CCmpServer::onTcpReceive and
\* CCmpClient::onTcpReceive); the end that gave up is still at that packet.
THEOREM EndHasCauseHolds == Spec => []EndHasCause
<1>1. Init => Inv /\ EndHasCause
  <2>1. Init => Inv
    BY InvInit, StreamAssumption
  <2>2. Init => EndHasCause
    BY DEF Init, EndHasCause
  <2> QED
    BY <2>1, <2>2
<1>2. Inv /\ EndHasCause /\ [Next]_vars => (Inv /\ EndHasCause)'
  BY InvStep, EndStep, StreamAssumption
<1> QED
  BY <1>1, <1>2, PTL DEF Spec

=============================================================================
