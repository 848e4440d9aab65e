---------------------------- MODULE TcpStreamProofs ----------------------------
(***************************************************************************)
(* Theorems about TcpStream, for every length of commands and answers,     *)
(* every socket buffer, and every way to cut a message into pieces, as     *)
(* long as send() does not fail.                                           *)
(***************************************************************************)
EXTENDS TcpStream, SequenceTheorems, TLAPS

(* Message and position of an octet.                                        *)
Octet == Int \X Int

(* The numbers and sequences of the two programs.                           *)
StreamTypeOK ==
  /\ call \in {"send", "sending", "receive"}
  /\ exchange \in 0 .. Exchanges
  /\ octetPtr \in 0 .. CommandLength
  /\ octetsRemaining \in 0 .. CommandLength
  /\ {received, toPeer, peerBuffer, answer, fromPeer} \subseteq Seq(Octet)
  /\ executed \in Nat

(* What is left to send lies behind the pointer.                            *)
SendInv ==
  IF call = "sending" THEN octetsRemaining = CommandLength - octetPtr
                      ELSE executed < exchange => octetPtr = CommandLength

(* The command is on its way, and there is no answer yet...                 *)
OnItsWay ==
  /\ executed + 1 = exchange
  /\ call # "send"
  /\ Handed = Slice(exchange, 0, octetPtr)
  /\ answer = << >> /\ fromPeer = << >>
  /\ call = "receive" => received = << >>

(* ...or it was executed, and its answer is in the client, the network and  *)
(* radio diags, in this order.                                              *)
Answered ==
  /\ executed = exchange
  /\ toPeer = << >> /\ peerBuffer = << >>
  /\ call = "send" => /\ answer = << >> /\ fromPeer = << >>
                      /\ received = Octets(exchange, ResponseLength)
  /\ call = "sending" => /\ octetPtr = CommandLength
                         /\ fromPeer \o answer = Octets(exchange, ResponseLength)
  /\ call = "receive" => received \o (fromPeer \o answer) = Octets(exchange, ResponseLength)

(* What the theorems rest on: it holds until send() fails.                  *)
StreamInv ==
  /\ errors \in Nat
  /\ errors = 0 => StreamTypeOK /\ SendInv /\ (OnItsWay \/ Answered)

-----------------------------------------------------------------------------
(* Pieces of messages.                                                      *)

(* A message consists of octets, and so does a piece of one.                *)
LEMMA MessageIsOctets ==
  ASSUME NEW message \in Nat, NEW length \in Nat
  PROVE  Octets(message, length) \in Seq(Octet) /\ Len(Octets(message, length)) = length
BY DEF Octets, Octet

(* So does what is read at the pointer, even outside the buffer.            *)
LEMMA SliceIsOctets ==
  ASSUME NEW message \in Nat, NEW first \in Nat, NEW length \in Nat
  PROVE  Slice(message, first, length) \in Seq(Octet) /\ Len(Slice(message, first, length)) = length
BY StreamAssumption DEF Slice, Octet, Unknown

(* A piece and the piece behind it are one piece.                           *)
LEMMA SlicesJoin ==
  ASSUME NEW message \in Nat, NEW p \in Nat, NEW w \in Nat
  PROVE  Slice(message, 0, p) \o Slice(message, p, w) = Slice(message, 0, p + w)
<1>. DEFINE s == Slice(message, 0, p)
            t == Slice(message, p, w)
            u == Slice(message, 0, p + w)
<1>0. 0 \in Nat /\ p + w \in Nat
  OBVIOUS
<1>1. /\ s \in Seq(Octet) /\ t \in Seq(Octet) /\ u \in Seq(Octet)
      /\ Len(s) = p /\ Len(t) = w /\ Len(u) = p + w
  <2>1. s \in Seq(Octet) /\ Len(s) = p
    BY <1>0, SliceIsOctets
  <2>2. t \in Seq(Octet) /\ Len(t) = w
    BY <1>0, SliceIsOctets
  <2>3. u \in Seq(Octet) /\ Len(u) = p + w
    BY <1>0, SliceIsOctets
  <2>. QED
    BY <2>1, <2>2, <2>3
<1>2. ASSUME NEW i \in 1 .. p + w
      PROVE  u[i] = IF i <= p THEN s[i] ELSE t[i - p]
  <2>1. CASE i <= p
    <3>1. i \in 1 .. p /\ 0 + i = i
      BY <2>1
    <3>. QED
      BY <2>1, <3>1 DEF Slice
  <2>2. CASE i > p
    <3>1. i - p \in 1 .. w /\ p + (i - p) = 0 + i
      BY <2>2
    <3>. QED
      BY <2>2, <3>1 DEF Slice
  <2>. QED
    BY <2>1, <2>2
<1>. HIDE DEF s, t, u
<1>3. /\ s \o t \in Seq(Octet) /\ Len(s \o t) = p + w
      /\ \A i \in 1 .. p + w : (s \o t)[i] = IF i <= p THEN s[i] ELSE t[i - p]
  BY <1>1, ConcatProperties
<1>4. s \o t = u
  BY <1>1, <1>2, <1>3, SeqEqual
<1>. QED
  BY <1>4 DEF s, t, u

(* It does not matter which two of three sequences are joined first.        *)
LEMMA JoinAssociates ==
  \A s, t, u \in Seq(Octet) : (s \o t) \o u = s \o (t \o u)
BY ConcatAssociative

(* Two sequences joined are nothing only if both are.                       *)
LEMMA JoinEmpty ==
  \A s, t \in Seq(Octet) : s \o t = << >> <=> s = << >> /\ t = << >>
BY ConcatEqualIffEmpty

(* Nothing is the piece of length 0.                                        *)
LEMMA EmptySlice == \A message : Slice(message, 0, 0) = << >>
BY DEF Slice

(* A sequence cut in two is the two pieces.                                 *)
LEMMA CutInTwo ==
  ASSUME NEW s \in Seq(Octet), NEW n \in 1 .. Len(s)
  PROVE  /\ SubSeq(s, 1, n) \in Seq(Octet) /\ SubSeq(s, n + 1, Len(s)) \in Seq(Octet)
         /\ SubSeq(s, 1, n) # << >>
         /\ SubSeq(s, 1, n) \o SubSeq(s, n + 1, Len(s)) = s
<1>0. Len(s) \in Nat /\ \A i \in 1 .. Len(s) : s[i] \in Octet
  OBVIOUS
<1>1. SubSeq(s, 1, n) \in Seq(Octet) /\ Len(SubSeq(s, 1, n)) = n
  BY <1>0, SubSeqProperties
<1>2. SubSeq(s, n + 1, Len(s)) \in Seq(Octet)
  BY <1>0, SubSeqProperties
<1>3. SubSeq(s, 1, n) \o SubSeq(s, n + 1, Len(s)) = SubSeq(s, 1, Len(s))
  BY <1>0, ConcatAdjacentSubSeq
<1>. QED
  BY <1>1, <1>2, <1>3, SubSeqFull

-----------------------------------------------------------------------------
(* The invariant is kept.                                                   *)

(* At the start the greeting is on its way.                                 *)
LEMMA StreamInit == Init => StreamInv
<1>. SUFFICES ASSUME Init PROVE StreamInv
  OBVIOUS
<1>1. answer = Octets(0, ResponseLength) /\ answer \in Seq(Octet)
  BY MessageIsOctets, StreamAssumption DEF Init
<1>2. << >> \in Seq(Octet) /\ << >> \o (<< >> \o answer) = answer
  BY <1>1, ConcatEmptySeq
<1>3. StreamTypeOK
  BY <1>1, <1>2, StreamAssumption DEF Init, StreamTypeOK
<1>4. Answered
  BY <1>1, <1>2 DEF Init, Answered
<1>. QED
  BY <1>3, <1>4 DEF StreamInv, Init, SendInv

(* The lengths and counts are numbers.                                      *)
LEMMA StreamNumbers ==
  ASSUME StreamTypeOK
  PROVE  /\ CommandLength \in Nat \ {0} /\ ResponseLength \in Nat \ {0} /\ Exchanges \in Nat
         /\ exchange \in Nat /\ octetPtr \in Nat /\ executed \in Nat
         /\ received \in Seq(Octet) /\ toPeer \in Seq(Octet) /\ peerBuffer \in Seq(Octet)
         /\ answer \in Seq(Octet) /\ fromPeer \in Seq(Octet)
BY StreamAssumption DEF StreamTypeOK

(* Sending takes the command further on its way (TcpClient.cc:167-203).     *)
LEMMA SendDataKeepsInv ==
  ASSUME StreamTypeOK, SendInv, OnItsWay \/ Answered, CallSendData \/ SendPiece \/ SendDataReturns
  PROVE  StreamTypeOK' /\ SendInv' /\ (OnItsWay' \/ Answered')
<1>0. /\ CommandLength \in Nat \ {0} /\ ResponseLength \in Nat \ {0} /\ Exchanges \in Nat
      /\ exchange \in Nat /\ octetPtr \in Nat /\ executed \in Nat
      /\ toPeer \in Seq(Octet) /\ peerBuffer \in Seq(Octet)
      /\ answer \in Seq(Octet) /\ fromPeer \in Seq(Octet) /\ << >> \in Seq(Octet)
  BY StreamNumbers
<1>1. CASE CallSendData
  <2>1. /\ call = "send" /\ call' = "sending" /\ exchange < Exchanges /\ exchange' = exchange + 1
        /\ octetPtr' = 0 /\ octetsRemaining' = CommandLength
        /\ UNCHANGED <<received, toPeer, peerBuffer, executed, answer, fromPeer>>
    BY <1>1 DEF CallSendData, peerVars
  <2>2. Answered
    BY <2>1 DEF OnItsWay
  <2>3. /\ executed = exchange /\ answer = << >> /\ fromPeer = << >>
        /\ toPeer = << >> /\ peerBuffer = << >>
    BY <2>1, <2>2 DEF Answered
  <2>4. peerBuffer \o toPeer = << >>
    BY <1>0, <2>3, ConcatEmptySeq
  <2>5. StreamTypeOK'
    BY <1>0, <2>1 DEF StreamTypeOK
  <2>6. OnItsWay'
    BY <1>0, <2>1, <2>3, <2>4, EmptySlice DEF OnItsWay, Handed
  <2>. QED
    BY <1>0, <2>1, <2>5, <2>6 DEF SendInv
<1>2. CASE SendPiece
  <2>1. PICK w \in 1 .. octetsRemaining :
          /\ toPeer' = toPeer \o Slice(exchange, octetPtr, w)
          /\ octetsRemaining' = octetsRemaining - w
          /\ octetPtr' = octetPtr + w
    BY <1>2 DEF SendPiece, Written
  <2>2. /\ call = "sending" /\ octetsRemaining > 0
        /\ UNCHANGED <<call, exchange, received, peerBuffer, executed, answer, fromPeer>>
    BY <1>2 DEF SendPiece, peerVars
  <2>3. /\ octetsRemaining \in 0 .. CommandLength /\ octetsRemaining = CommandLength - octetPtr
    BY <2>2 DEF StreamTypeOK, SendInv
  <2>4. OnItsWay
    BY <1>0, <2>2, <2>3 DEF Answered
  <2>5. w \in Nat /\ octetPtr' \in 0 .. CommandLength /\ octetsRemaining' \in 0 .. CommandLength
        /\ octetsRemaining' = CommandLength - octetPtr'
    BY <1>0, <2>1, <2>3
  <2>6. Slice(exchange, octetPtr, w) \in Seq(Octet)
    BY <1>0, <2>5, SliceIsOctets
  <2>7. peerBuffer \o (toPeer \o Slice(exchange, octetPtr, w)) = Slice(exchange, 0, octetPtr + w)
    <3>1. ASSUME NEW piece \in Seq(Octet)
          PROVE  (peerBuffer \o toPeer) \o piece = peerBuffer \o (toPeer \o piece)
      <4>1. peerBuffer \in Seq(Octet) /\ toPeer \in Seq(Octet)
        BY <1>0
      <4>. QED
        BY <4>1, JoinAssociates
    <3>2. peerBuffer \o toPeer = Slice(exchange, 0, octetPtr)
      BY <2>4 DEF OnItsWay, Handed
    <3>. QED
      <4>1. Slice(exchange, 0, octetPtr) \o Slice(exchange, octetPtr, w) = Slice(exchange, 0, octetPtr + w)
        BY <1>0, <2>5, SlicesJoin
      <4>. QED
        BY <2>6, <3>1, <3>2, <4>1
  <2>8. toPeer' \in Seq(Octet)
    BY <1>0, <2>1, <2>6, ConcatProperties
  <2>9. StreamTypeOK'
    BY <2>2, <2>5, <2>8 DEF StreamTypeOK
  <2>10. OnItsWay'
    BY <2>1, <2>2, <2>4, <2>7 DEF OnItsWay, Handed
  <2>. QED
    BY <2>2, <2>5, <2>9, <2>10 DEF SendInv
<1>3. CASE SendDataReturns
  <2>1. /\ call = "sending" /\ call' = "receive" /\ received' = << >> /\ octetsRemaining <= 0
        /\ UNCHANGED <<exchange, octetPtr, octetsRemaining, toPeer, peerBuffer, executed, answer, fromPeer>>
    BY <1>3 DEF SendDataReturns, peerVars
  <2>2. octetPtr = CommandLength
    BY <1>0, <2>1 DEF SendInv, StreamTypeOK
  <2>3. StreamTypeOK' /\ SendInv'
    BY <1>0, <2>1, <2>2 DEF StreamTypeOK, SendInv
  <2>4. CASE OnItsWay
    BY <2>1, <2>3, <2>4 DEF OnItsWay, Handed
  <2>5. CASE Answered
    <3>1. fromPeer \o answer \in Seq(Octet)
      BY <1>0, ConcatProperties
    <3>2. << >> \o (fromPeer \o answer) = fromPeer \o answer
      BY <3>1, ConcatEmptySeq
    <3>3. Answered'
      BY <2>1, <2>5, <3>2 DEF Answered
    <3>. QED
      BY <2>3, <3>3
  <2>. QED
    BY <2>4, <2>5
<1>. QED
  BY <1>1, <1>2, <1>3

(* Receiving takes the answer from the network, in order                    *)
(* (TcpClient.cc:226-289).                                                  *)
LEMMA ReceiveDataKeepsInv ==
  ASSUME StreamTypeOK, SendInv, OnItsWay \/ Answered, Recv \/ ReceiveDataReturns
  PROVE  StreamTypeOK' /\ SendInv' /\ (OnItsWay' \/ Answered')
<1>0. /\ CommandLength \in Nat \ {0} /\ exchange \in Nat /\ octetPtr \in Nat /\ executed \in Nat
      /\ received \in Seq(Octet) /\ toPeer \in Seq(Octet) /\ peerBuffer \in Seq(Octet)
      /\ answer \in Seq(Octet) /\ fromPeer \in Seq(Octet) /\ << >> \in Seq(Octet)
  BY StreamNumbers
<1>1. CASE Recv
  <2>1. /\ call = "receive" /\ fromPeer # << >> /\ received' = received \o fromPeer /\ fromPeer' = << >>
        /\ UNCHANGED <<call, exchange, octetPtr, octetsRemaining, toPeer, peerBuffer, executed, answer>>
    BY <1>1 DEF Recv, peerVars
  <2>2. Answered
    BY <2>1 DEF OnItsWay
  <2>3. received' \in Seq(Octet)
    BY <1>0, <2>1, ConcatProperties
  <2>4. received' \o (<< >> \o answer) = received \o (fromPeer \o answer)
    <3>1. << >> \o answer = answer
      BY <1>0, ConcatEmptySeq
    <3>2. (received \o fromPeer) \o answer = received \o (fromPeer \o answer)
      BY <1>0, JoinAssociates
    <3>. QED
      BY <2>1, <3>1, <3>2
  <2>5. Answered'
    BY <2>1, <2>2, <2>4 DEF Answered
  <2>6. StreamTypeOK' /\ SendInv'
    BY <1>0, <2>1, <2>3 DEF StreamTypeOK, SendInv
  <2>. QED
    BY <2>5, <2>6
<1>2. CASE ReceiveDataReturns
  <2>1. /\ call = "receive" /\ call' = "send" /\ fromPeer = << >> /\ answer = << >> /\ toPeer = << >>
        /\ Len(peerBuffer) < CommandLength
        /\ UNCHANGED <<exchange, octetPtr, octetsRemaining, received, toPeer, peerBuffer, executed, answer, fromPeer>>
    BY <1>2 DEF ReceiveDataReturns, PeerSilent, peerVars
  <2>2. ~OnItsWay
    <3>. SUFFICES ASSUME OnItsWay PROVE FALSE
      OBVIOUS
    <3>1. octetPtr = CommandLength
      BY <1>0, <2>1 DEF SendInv, OnItsWay
    <3>2. peerBuffer = Slice(exchange, 0, CommandLength)
      BY <1>0, <2>1, <3>1, ConcatEmptySeq DEF OnItsWay, Handed
    <3>3. Len(peerBuffer) = CommandLength
      BY <1>0, <3>2, SliceIsOctets
    <3>. QED
      BY <1>0, <2>1, <3>3
  <2>3. received \o (<< >> \o << >>) = received
    BY <1>0, ConcatEmptySeq
  <2>4. Answered'
    BY <2>1, <2>2, <2>3 DEF Answered
  <2>5. StreamTypeOK' /\ SendInv'
    BY <2>1 DEF StreamTypeOK, SendInv
  <2>. QED
    BY <2>4, <2>5
<1>. QED
  BY <1>1, <1>2

(* Radio diags takes the octets in order, executes the command when it has  *)
(* all of them, and answers in order.                                       *)
LEMMA PeerKeepsInv ==
  ASSUME StreamTypeOK, SendInv, OnItsWay \/ Answered, PeerStep
  PROVE  StreamTypeOK' /\ SendInv' /\ (OnItsWay' \/ Answered')
<1>0. /\ CommandLength \in Nat \ {0} /\ ResponseLength \in Nat \ {0}
      /\ exchange \in Nat /\ octetPtr \in Nat /\ executed \in Nat
      /\ received \in Seq(Octet) /\ toPeer \in Seq(Octet) /\ peerBuffer \in Seq(Octet)
      /\ answer \in Seq(Octet) /\ fromPeer \in Seq(Octet) /\ << >> \in Seq(Octet)
  BY StreamNumbers
<1>1. UNCHANGED <<call, exchange, octetPtr, octetsRemaining, received>>
  BY DEF PeerStep, PeerReads, PeerExecutes, PeerAnswers, clientVars
<1>2. CASE PeerReads
  <2>1. /\ toPeer # << >> /\ peerBuffer' = peerBuffer \o toPeer /\ toPeer' = << >>
        /\ UNCHANGED <<executed, answer, fromPeer>>
    BY <1>2 DEF PeerReads
  <2>2. OnItsWay
    BY <2>1 DEF Answered
  <2>3. peerBuffer' \in Seq(Octet)
    BY <1>0, <2>1, ConcatProperties
  <2>4. peerBuffer' \o << >> = peerBuffer \o toPeer
    BY <2>1, <2>3, ConcatEmptySeq
  <2>5. OnItsWay'
    BY <1>1, <2>1, <2>2, <2>4 DEF OnItsWay, Handed
  <2>. QED
    BY <1>0, <1>1, <2>1, <2>3, <2>5 DEF StreamTypeOK, SendInv
<1>3. CASE PeerExecutes
  <2>1. /\ Len(peerBuffer) >= CommandLength /\ answer = << >>
        /\ executed' = peerBuffer[1][1] /\ answer' = Octets(executed', ResponseLength)
        /\ peerBuffer' = SubSeq(peerBuffer, CommandLength + 1, Len(peerBuffer))
        /\ UNCHANGED <<toPeer, fromPeer>>
    BY <1>3 DEF PeerExecutes
  <2>2. OnItsWay
    <3>1. peerBuffer # << >>
      BY <1>0, <2>1
    <3>. QED
      BY <3>1 DEF Answered
  <2>3. peerBuffer = Slice(exchange, 0, CommandLength) /\ toPeer = << >> /\ octetPtr = CommandLength
    <3>1. Len(peerBuffer) + Len(toPeer) = octetPtr
      <4>1. Len(peerBuffer \o toPeer) = Len(peerBuffer) + Len(toPeer)
        BY <1>0, ConcatProperties
      <4>2. peerBuffer \o toPeer = Slice(exchange, 0, octetPtr)
        BY <2>2 DEF OnItsWay, Handed
      <4>3. Len(Slice(exchange, 0, octetPtr)) = octetPtr
        BY <1>0, SliceIsOctets
      <4>. QED
        BY <4>1, <4>2, <4>3
    <3>2. octetPtr <= CommandLength
      BY DEF StreamTypeOK
    <3>3. Len(peerBuffer) \in Nat /\ Len(toPeer) \in Nat
      BY <1>0
    <3>4. Len(toPeer) = 0 /\ octetPtr = CommandLength
      BY <1>0, <2>1, <3>1, <3>2, <3>3
    <3>5. toPeer = << >>
      BY <1>0, <3>4, EmptySeq
    <3>6. peerBuffer \o toPeer = peerBuffer
      BY <1>0, <3>5, ConcatEmptySeq
    <3>. QED
      BY <2>2, <3>4, <3>5, <3>6 DEF OnItsWay, Handed
  <2>4. executed' = exchange
    <3>1. 1 \in 1 .. CommandLength /\ 0 + 1 = 1
      BY <1>0
    <3>2. peerBuffer[1] = <<exchange, 1>>
      BY <2>3, <3>1 DEF Slice
    <3>. QED
      BY <2>1, <3>2
  <2>5. peerBuffer' = << >>
    <3>1. Len(peerBuffer) = CommandLength
      BY <1>0, <2>3, SliceIsOctets
    <3>. QED
      BY <1>0, <2>1, <3>1, SubSeqEmpty
  <2>6. answer' = Octets(exchange, ResponseLength) /\ answer' \in Seq(Octet) /\ fromPeer = << >>
        /\ call # "send" /\ (call = "receive" => received = << >>)
    BY <1>0, <2>1, <2>2, <2>4, MessageIsOctets DEF OnItsWay
  <2>7. << >> \o answer' = answer'
    BY <2>6, ConcatEmptySeq
  <2>8. Answered'
    BY <1>1, <2>1, <2>3, <2>4, <2>5, <2>6, <2>7 DEF Answered
  <2>. QED
    BY <1>0, <1>1, <2>1, <2>3, <2>4, <2>5, <2>6, <2>8 DEF StreamTypeOK, SendInv
<1>4. CASE PeerAnswers
  <2>1. PICK n \in 1 .. Len(answer) : /\ fromPeer' = fromPeer \o SubSeq(answer, 1, n)
                                      /\ answer' = SubSeq(answer, n + 1, Len(answer))
    BY <1>4 DEF PeerAnswers
  <2>2. UNCHANGED <<toPeer, peerBuffer, executed>>
    BY <1>4 DEF PeerAnswers
  <2>3. answer # << >>
    BY <2>1
  <2>4. Answered /\ call # "send"
    BY <2>3 DEF OnItsWay, Answered
  <2>5. SubSeq(answer, 1, n) \in Seq(Octet) /\ answer' \in Seq(Octet) /\ SubSeq(answer, 1, n) \o answer' = answer
    BY <1>0, <2>1, CutInTwo
  <2>6. fromPeer' \in Seq(Octet)
    BY <1>0, <2>1, <2>5, ConcatProperties
  <2>7. fromPeer' \o answer' = fromPeer \o answer
    <3>1. (fromPeer \o SubSeq(answer, 1, n)) \o answer' = fromPeer \o (SubSeq(answer, 1, n) \o answer')
      <4>1. ASSUME NEW first \in Seq(Octet), NEW rest \in Seq(Octet)
            PROVE  (fromPeer \o first) \o rest = fromPeer \o (first \o rest)
        <5>1. fromPeer \in Seq(Octet)
          BY <1>0
        <5>. QED
          BY <5>1, JoinAssociates
      <4>. QED
        BY <2>5, <4>1
    <3>. QED
      BY <2>1, <2>5, <3>1
  <2>8. Answered'
    BY <1>1, <2>2, <2>4, <2>7 DEF Answered
  <2>. QED
    BY <1>1, <2>2, <2>5, <2>6, <2>8 DEF StreamTypeOK, SendInv
<1>. QED
  BY <1>2, <1>3, <1>4 DEF PeerStep

(* No step disturbs the exchange, unless it is the one in which send()      *)
(* fails.                                                                   *)
LEMMA StreamStep == StreamInv /\ [Next]_vars => StreamInv'
<1>. SUFFICES ASSUME StreamInv, [Next]_vars PROVE StreamInv'
  OBVIOUS
<1>1. errors \in Nat
  BY DEF StreamInv
<1>2. CASE SendError
  BY <1>1, <1>2 DEF SendError, StreamInv
<1>3. CASE ClientStep \/ PeerStep
  <2>1. errors' = errors
    BY <1>3 DEF ClientStep, CallSendData, SendPiece, SendDataReturns, Recv, ReceiveDataReturns,
       PeerStep, PeerReads, PeerExecutes, PeerAnswers, clientVars
  <2>. QED
    BY <1>3, <2>1, SendDataKeepsInv, ReceiveDataKeepsInv, PeerKeepsInv DEF StreamInv, ClientStep
<1>4. CASE UNCHANGED vars
  BY <1>4 DEF vars, clientVars, peerVars, StreamInv, StreamTypeOK, SendInv, OnItsWay,
     Answered, Handed
<1>. QED
  BY <1>2, <1>3, <1>4 DEF Next

-----------------------------------------------------------------------------
(* However send() and the network cut a command, radio diags gets its       *)
(* octets once each and in order (TcpClient.cc:185-198).                    *)
THEOREM CommandArrivesWholeHolds == Spec => []CommandArrivesWhole
<1>1. StreamInv => CommandArrivesWhole
  <2>. SUFFICES ASSUME StreamInv, errors = 0
                PROVE  Handed = IF executed < exchange THEN Slice(exchange, 0, octetPtr) ELSE << >>
    BY DEF CommandArrivesWhole
  <2>1. exchange \in Nat /\ executed \in Nat /\ << >> \o << >> = << >>
    BY StreamNumbers, ConcatEmptySeq DEF StreamInv
  <2>2. CASE OnItsWay
    BY <2>1, <2>2 DEF OnItsWay
  <2>3. CASE Answered
    BY <2>1, <2>3 DEF Answered, Handed
  <2>. QED
    BY <2>2, <2>3 DEF StreamInv
<1>. QED
  BY <1>1, StreamInit, StreamStep, PTL DEF Spec

(* However the network cuts an answer, receiveData returns with exactly the *)
(* answer to the command before it (TcpClient.cc:249-283).                  *)
THEOREM AnswerReceivedWholeHolds == Spec => []AnswerReceivedWhole
<1>1. StreamInv => AnswerReceivedWhole
  BY DEF StreamInv, OnItsWay, Answered, AnswerReceivedWhole
<1>. QED
  BY <1>1, StreamInit, StreamStep, PTL DEF Spec

-----------------------------------------------------------------------------
(* The exchange of commands and answers.                                    *)

(* What the exchange sees of a state in which send() has not failed.        *)
LEMMA WhatExchangeSees ==
  ASSUME StreamTypeOK, SendInv, OnItsWay \/ Answered
  PROVE  /\ OnItsWay => /\ answer \o fromPeer = << >>
                        /\ executed + 1 = exchange /\ executed < exchange /\ call # "send"
                        /\ Sent = IF octetPtr < CommandLength THEN executed ELSE exchange
         /\ Answered => Sent = executed /\ executed = exchange
         /\ answer \o fromPeer = << >> <=> answer = << >> /\ fromPeer = << >>
<1>1. /\ CommandLength \in Nat \ {0} /\ exchange \in Nat /\ executed \in Nat
      /\ octetPtr \in 0 .. CommandLength /\ octetsRemaining \in 0 .. CommandLength
      /\ answer \in Seq(Octet) /\ fromPeer \in Seq(Octet)
  BY StreamNumbers DEF StreamTypeOK
<1>2. answer \o fromPeer = << >> <=> answer = << >> /\ fromPeer = << >>
  BY <1>1, ConcatEqualIffEmpty
<1>3. ASSUME OnItsWay
      PROVE  Sent = IF octetPtr < CommandLength THEN executed ELSE exchange
  <2>1. CASE call = "sending"
    BY <1>1, <1>3, <2>1 DEF OnItsWay, SendInv, Sent
  <2>2. CASE call # "sending"
    BY <1>1, <1>3, <2>2 DEF OnItsWay, SendInv, Sent
  <2>. QED
    BY <2>1, <2>2
<1>4. ASSUME Answered PROVE Sent = executed
  BY <1>1, <1>4 DEF Answered, SendInv, Sent
<1>. QED
  BY <1>1, <1>2, <1>3, <1>4 DEF OnItsWay, Answered

(* The exchange starts with the greeting.                                   *)
LEMMA ExchangeInit == Init => Exchange!Init
<1>. SUFFICES ASSUME Init PROVE Exchange!Init
  OBVIOUS
<1>1. /\ call = "receive" /\ exchange = 0 /\ executed = 0
      /\ answer = Octets(0, ResponseLength) /\ fromPeer = << >>
  BY DEF Init
<1>2. answer \o fromPeer # << >>
  <2>1. answer \in Seq(Octet) /\ Len(answer) = ResponseLength /\ ResponseLength > 0
    BY <1>1, MessageIsOctets, StreamAssumption
  <2>2. answer # << >>
    BY <2>1
  <2>. QED
    BY <1>1, <2>1, <2>2, ConcatEmptySeq
<1>3. Sent = 0
  BY <1>1 DEF Sent
<1>. QED
  BY <1>1, <1>2, <1>3 DEF Exchange!Init

(* A call of sendData is a command of the exchange when its last octet is   *)
(* sent.                                                                    *)
LEMMA SendDataIsSend ==
  ASSUME StreamTypeOK, SendInv, OnItsWay \/ Answered, CallSendData \/ SendPiece \/ SendDataReturns
  PROVE  Exchange!Send \/ UNCHANGED Exchange!exchangeVars
<1>0. /\ CommandLength \in Nat \ {0} /\ exchange \in 0 .. Exchanges /\ executed \in Nat
      /\ Exchanges \in Nat
  BY StreamNumbers DEF StreamTypeOK
<1>1. CASE CallSendData
  <2>1. /\ call = "send" /\ call' = "sending" /\ exchange' = exchange + 1 /\ octetsRemaining' = CommandLength
        /\ UNCHANGED <<executed, answer, fromPeer>>
    BY <1>1 DEF CallSendData, peerVars
  <2>2. Sent = exchange /\ Sent' = exchange
    BY <1>0, <2>1 DEF Sent
  <2>. QED
    BY <1>0, <2>1, <2>2 DEF Exchange!exchangeVars, Exchange!linkVars, Exchange!diagsVars
<1>2. CASE SendPiece
  <2>1. /\ call = "sending" /\ octetsRemaining > 0
        /\ UNCHANGED <<call, exchange, executed, answer, fromPeer>>
    BY <1>2 DEF SendPiece, peerVars
  <2>2. Sent = exchange - 1
    BY <2>1 DEF Sent
  <2>3. executed = exchange - 1 /\ answer \o fromPeer = << >>
    BY <1>0, <2>1, <2>2, WhatExchangeSees
  <2>4. CASE octetsRemaining' > 0
    <3>1. Sent' = exchange - 1
      BY <2>1, <2>4 DEF Sent
    <3>. QED
      BY <2>1, <2>2, <3>1 DEF Exchange!exchangeVars, Exchange!linkVars, Exchange!diagsVars
  <2>5. CASE ~(octetsRemaining' > 0)
    <3>1. Sent' = exchange
      BY <2>1, <2>5 DEF Sent
    <3>2. Exchange!SendOctets(Exchange!Command("rxifgain", Sent + 1))
      <4>1. Sent + 1 = exchange
        BY <1>0, <2>2
      <4>2. ~(executed < Sent) /\ executed' < Sent'
        BY <1>0, <2>1, <2>2, <2>3, <3>1
      <4>3. Append(<< >>, Exchange!Command("rxifgain", Sent + 1)) = <<[verb |-> "rxifgain", value |-> Sent']>>
        BY <4>1, <3>1 DEF Exchange!Command
      <4>4. /\ answer' = answer /\ fromPeer' = fromPeer
        BY <2>1
      <4>. HIDE DEF Sent
      <4>. QED
        BY <4>2, <4>3, <4>4 DEF Exchange!SendOctets
    <3>. QED
      BY <1>0, <2>1, <2>2, <3>1, <3>2 DEF Exchange!Send, Exchange!diagsVars
  <2>. QED
    BY <2>4, <2>5
<1>3. CASE SendDataReturns
  <2>1. /\ call = "sending" /\ call' = "receive" /\ octetsRemaining <= 0
        /\ UNCHANGED <<exchange, executed, answer, fromPeer>>
    BY <1>3 DEF SendDataReturns, peerVars
  <2>2. Sent = exchange /\ Sent' = exchange
    <3>1. octetsRemaining \in 0 .. CommandLength
      BY DEF StreamTypeOK
    <3>. QED
      BY <1>0, <2>1, <3>1 DEF Sent
  <2>. QED
    BY <1>0, <2>1, <2>2 DEF Exchange!exchangeVars, Exchange!linkVars, Exchange!diagsVars
<1>. QED
  BY <1>1, <1>2, <1>3

(* Taking the last octets of an answer from the network is a read of the    *)
(* exchange, and silence is its silence.                                    *)
LEMMA ReceiveDataIsReadOrReturn ==
  ASSUME StreamTypeOK, SendInv, OnItsWay \/ Answered, StreamTypeOK', SendInv', OnItsWay' \/ Answered',
         Recv \/ ReceiveDataReturns
  PROVE  Exchange!Read \/ Exchange!Return \/ UNCHANGED Exchange!exchangeVars
<1>0. /\ exchange \in Nat /\ executed \in Nat /\ answer \in Seq(Octet) /\ fromPeer \in Seq(Octet)
      /\ call = "receive"
      /\ UNCHANGED <<exchange, octetsRemaining, executed, answer>>
      /\ Sent = exchange /\ Sent' = exchange
  BY StreamNumbers DEF Recv, ReceiveDataReturns, Sent, peerVars
<1>1. CASE Recv
  <2>1. call' = "receive" /\ fromPeer # << >> /\ fromPeer' = << >>
    BY <1>1 DEF Recv
  <2>2. answer \o fromPeer # << >> /\ answer \o << >> = answer
    BY <1>0, <2>1, ConcatEqualIffEmpty, ConcatEmptySeq
  <2>3. CASE answer = << >>
    <3>1. Exchange!ReadAvailable
      BY <1>0, <2>1, <2>2, <2>3 DEF Exchange!ReadAvailable
    <3>. QED
      BY <1>0, <2>1, <3>1 DEF Exchange!Read, Exchange!diagsVars
  <2>4. CASE answer # << >>
    BY <1>0, <2>1, <2>2, <2>4 DEF Exchange!exchangeVars, Exchange!linkVars, Exchange!diagsVars
  <2>. QED
    BY <2>3, <2>4
<1>2. CASE ReceiveDataReturns
  <2>1. call' = "send" /\ fromPeer = << >> /\ fromPeer' = << >> /\ answer = << >>
    BY <1>2 DEF ReceiveDataReturns, PeerSilent
  <2>2. executed = exchange
    <3>1. ~OnItsWay'
      BY <2>1 DEF OnItsWay
    <3>. QED
      BY <1>0, <3>1 DEF Answered
  <2>3. answer \o fromPeer = << >>
    BY <1>0, <2>1, ConcatEmptySeq
  <2>4. Exchange!SelectTimesOut
    BY <1>0, <2>1, <2>2, <2>3 DEF Exchange!SelectTimesOut, Exchange!linkVars
  <2>. QED
    BY <1>0, <2>1, <2>4 DEF Exchange!Return, Exchange!diagsVars
<1>. QED
  BY <1>1, <1>2

(* Radio diags executes a command of the exchange when it has all of it.    *)
LEMMA PeerIsDiags ==
  ASSUME StreamTypeOK, SendInv, OnItsWay \/ Answered, StreamTypeOK', SendInv', OnItsWay' \/ Answered', PeerStep
  PROVE  Exchange!Execute \/ UNCHANGED Exchange!exchangeVars
<1>0. /\ exchange \in Nat /\ executed \in Nat /\ answer \in Seq(Octet) /\ fromPeer \in Seq(Octet)
      /\ answer' \in Seq(Octet) /\ fromPeer' \in Seq(Octet) /\ octetPtr \in Nat
      /\ CommandLength \in Nat \ {0} /\ ResponseLength \in Nat \ {0}
  BY StreamNumbers DEF StreamTypeOK
<1>1. /\ UNCHANGED <<call, exchange, octetPtr, octetsRemaining>>
      /\ Sent' = Sent
  BY DEF PeerStep, PeerReads, PeerExecutes, PeerAnswers, clientVars, Sent
<1>2. CASE PeerReads
  <2>1. UNCHANGED <<executed, answer, fromPeer>>
    BY <1>2 DEF PeerReads
  <2>. QED
    BY <1>1, <2>1 DEF Exchange!exchangeVars, Exchange!linkVars, Exchange!diagsVars
<1>3. CASE PeerAnswers
  <2>1. UNCHANGED executed /\ answer # << >>
    BY <1>0, <1>3 DEF PeerAnswers
  <2>2. fromPeer' # << >>
    <3>1. PICK n \in 1 .. Len(answer) : fromPeer' = fromPeer \o SubSeq(answer, 1, n)
      BY <1>3 DEF PeerAnswers
    <3>2. SubSeq(answer, 1, n) \in Seq(Octet) /\ SubSeq(answer, 1, n) # << >>
      BY <1>0, CutInTwo
    <3>3. fromPeer \o SubSeq(answer, 1, n) # << >>
      BY <1>0, <3>2, JoinEmpty
    <3>. QED
      BY <3>1, <3>3
  <2>3. answer \o fromPeer # << >> /\ answer' \o fromPeer' # << >>
    BY <1>0, <2>1, <2>2, ConcatEqualIffEmpty
  <2>. QED
    BY <1>1, <2>1, <2>3 DEF Exchange!exchangeVars, Exchange!linkVars, Exchange!diagsVars
<1>4. CASE PeerExecutes
  <2>1. /\ Len(peerBuffer) >= CommandLength /\ answer = << >> /\ fromPeer' = fromPeer
        /\ answer' = Octets(executed', ResponseLength)
    BY <1>4 DEF PeerExecutes
  <2>2. OnItsWay
    <3>1. peerBuffer # << >>
      BY <1>0, <2>1
    <3>. QED
      BY <3>1 DEF Answered
  <2>3. answer' # << >>
    BY <1>0, <2>1, MessageIsOctets DEF StreamTypeOK
  <2>4. Answered'
    BY <2>3 DEF OnItsWay
  <2>5. executed' = exchange /\ octetPtr = CommandLength
    <3>1. executed' = exchange
      BY <1>1, <2>4 DEF Answered
    <3>2. call = "sending" => octetPtr = CommandLength
      BY <1>1, <2>4 DEF Answered
    <3>3. call # "sending" => octetPtr = CommandLength
      BY <1>0, <2>2 DEF SendInv, OnItsWay
    <3>. QED
      BY <3>1, <3>2, <3>3
  <2>6. /\ Sent = exchange /\ executed + 1 = exchange
        /\ answer \o fromPeer = << >> /\ answer' \o fromPeer' # << >>
    <3>1. Sent = exchange /\ executed + 1 = exchange /\ answer \o fromPeer = << >>
      BY <1>0, <2>2, <2>5, WhatExchangeSees
    <3>. QED
      BY <1>0, <2>3, <3>1, ConcatEqualIffEmpty
  <2>7. Exchange!DiagsExecute
    BY <1>0, <1>1, <2>5, <2>6 DEF Exchange!DiagsExecute
  <2>. QED
    BY <1>1, <2>7 DEF Exchange!Execute
<1>. QED
  BY <1>2, <1>3, <1>4 DEF PeerStep

(* Until send() fails, the octets carry the exchange of commands and        *)
(* answers that the model of the radio server uses.                         *)
THEOREM ImplementsExchangeHolds == Spec => ImplementsExchange
<1>1. StreamInv /\ StreamInv' /\ [Next]_vars
        => [errors' = 0 => Exchange!Next]_(Exchange!exchangeVars)
  <2>. SUFFICES ASSUME StreamInv, StreamInv', [Next]_vars, errors' = 0
                PROVE  Exchange!Next \/ UNCHANGED Exchange!exchangeVars
    OBVIOUS
  <2>0. errors = 0
    BY DEF StreamInv, Next, SendError, ClientStep, CallSendData, SendPiece, SendDataReturns, Recv,
       ReceiveDataReturns, PeerStep, PeerReads, PeerExecutes, PeerAnswers, clientVars, vars
  <2>1. /\ StreamTypeOK /\ SendInv /\ (OnItsWay \/ Answered)
        /\ StreamTypeOK' /\ SendInv' /\ (OnItsWay' \/ Answered')
    BY <2>0 DEF StreamInv
  <2>2. ~SendError
    BY <2>0 DEF SendError
  <2>3. CASE ClientStep
    BY <2>1, <2>3, SendDataIsSend, ReceiveDataIsReadOrReturn DEF ClientStep, Exchange!Next
  <2>4. CASE PeerStep
    BY <2>1, <2>4, PeerIsDiags DEF Exchange!Next
  <2>5. CASE UNCHANGED vars
    BY <2>5 DEF vars, clientVars, peerVars, Exchange!exchangeVars, Exchange!linkVars,
       Exchange!diagsVars, Sent
  <2>. QED
    BY <2>2, <2>3, <2>4, <2>5 DEF Next
<1>. QED
  BY <1>1, ExchangeInit, StreamInit, StreamStep, PTL DEF Spec, ImplementsExchange

-----------------------------------------------------------------------------
(* Also after send() has failed.                                            *)

(* An octet of a command, or what stands before the buffer.                 *)
CommandOctet == (Int \ {0}) \X Int

(* What is left to send lies behind the pointer, and what is before the     *)
(* pointer is in the network or with radio diags, unless radio diags has    *)
(* taken octets for a command.                                              *)
OctetInv ==
  /\ exchange \in Nat
  /\ octetPtr \in Int /\ octetPtr <= CommandLength
  /\ toPeer \in Seq(CommandOctet) /\ peerBuffer \in Seq(CommandOctet)
  /\ call = "sending" =>
       /\ exchange > 0
       /\ octetsRemaining = CommandLength - octetPtr
       /\ executed = 0 =>
            \A i \in 1 .. octetPtr : \E k \in DOMAIN Handed : Handed[k] = <<exchange, i>>

(* At the start nothing is sent.                                            *)
LEMMA OctetInit == Init => OctetInv
BY StreamAssumption DEF Init, OctetInv

(* A piece has the octets that stand in the buffer at its places.           *)
LEMMA PieceOfCommand ==
  ASSUME NEW message \in Nat \ {0}, NEW first \in Int, NEW length \in Nat
  PROVE  /\ Slice(message, first, length) \in Seq(CommandOctet)
         /\ Len(Slice(message, first, length)) = length
         /\ \A i \in 1 .. length :
              first + i \in 1 .. CommandLength =>
                Slice(message, first, length)[i] = <<message, first + i>>
BY StreamAssumption DEF Slice, CommandOctet, Unknown

(* An element of two sequences is one of them joined.                       *)
LEMMA FoundInJoined ==
  ASSUME NEW s \in Seq(CommandOctet), NEW t \in Seq(CommandOctet)
  PROVE  /\ \A k \in DOMAIN s : k \in DOMAIN (s \o t) /\ (s \o t)[k] = s[k]
         /\ \A k \in DOMAIN t : Len(s) + k \in DOMAIN (s \o t) /\ (s \o t)[Len(s) + k] = t[k]
<1>1. /\ Len(s) \in Nat /\ Len(t) \in Nat /\ DOMAIN s = 1 .. Len(s) /\ DOMAIN t = 1 .. Len(t)
      /\ s \o t \in Seq(CommandOctet) /\ Len(s \o t) = Len(s) + Len(t)
      /\ \A i \in 1 .. Len(s) + Len(t) : (s \o t)[i] = IF i <= Len(s) THEN s[i] ELSE t[i - Len(s)]
  BY ConcatProperties
<1>2. DOMAIN (s \o t) = 1 .. Len(s) + Len(t)
  BY <1>1
<1>3. ASSUME NEW k \in DOMAIN s PROVE k \in DOMAIN (s \o t) /\ (s \o t)[k] = s[k]
  BY <1>1, <1>2
<1>4. ASSUME NEW k \in DOMAIN t
      PROVE  Len(s) + k \in DOMAIN (s \o t) /\ (s \o t)[Len(s) + k] = t[k]
  <2>1. Len(s) + k \in 1 .. Len(s) + Len(t) /\ ~(Len(s) + k <= Len(s)) /\ (Len(s) + k) - Len(s) = k
    BY <1>1
  <2>. QED
    BY <1>1, <1>2, <2>1
<1>. QED
  BY <1>3, <1>4

(* The octets the pointer passes are sent.                                  *)
LEMMA PieceIsHanded ==
  ASSUME OctetInv, SendPiece
  PROVE  OctetInv'
<1>1. PICK w \in 1 .. octetsRemaining :
        /\ toPeer' = toPeer \o Slice(exchange, octetPtr, w)
        /\ octetsRemaining' = octetsRemaining - w
        /\ octetPtr' = octetPtr + w
  BY DEF SendPiece, Written
<1>2. call = "sending" /\ UNCHANGED <<call, exchange, peerBuffer, executed>>
  BY DEF SendPiece, peerVars
<1>3. /\ exchange \in Nat \ {0} /\ octetPtr \in Int /\ octetsRemaining = CommandLength - octetPtr
      /\ toPeer \in Seq(CommandOctet) /\ peerBuffer \in Seq(CommandOctet)
      /\ CommandLength \in Nat
  BY <1>2, StreamAssumption DEF OctetInv
<1>4. /\ w \in Nat /\ octetPtr' \in Int /\ octetPtr' <= CommandLength
      /\ octetsRemaining' = CommandLength - octetPtr'
  BY <1>1, <1>3
<1>. DEFINE piece == Slice(exchange, octetPtr, w)
<1>5. /\ piece \in Seq(CommandOctet) /\ Len(piece) = w
      /\ \A i \in 1 .. w : octetPtr + i \in 1 .. CommandLength => piece[i] = <<exchange, octetPtr + i>>
  BY <1>3, <1>4, PieceOfCommand
<1>. HIDE DEF piece
<1>6. Handed' = Handed \o piece /\ toPeer' \in Seq(CommandOctet) /\ Handed \in Seq(CommandOctet)
  <2>1. peerBuffer \o (toPeer \o piece) = (peerBuffer \o toPeer) \o piece
    BY <1>3, <1>5, ConcatAssociative
  <2>2. toPeer \o piece \in Seq(CommandOctet) /\ peerBuffer \o toPeer \in Seq(CommandOctet)
    BY <1>3, <1>5, ConcatProperties
  <2>. QED
    BY <1>1, <1>2, <2>1, <2>2 DEF Handed, piece
<1>7. ASSUME executed = 0, NEW i \in 1 .. octetPtr'
      PROVE  \E k \in DOMAIN Handed' : Handed'[k] = <<exchange, i>>
  <2>1. CASE i \in 1 .. octetPtr
    <3>1. PICK k \in DOMAIN Handed : Handed[k] = <<exchange, i>>
      BY <1>2, <1>7, <2>1 DEF OctetInv
    <3>. QED
      BY <1>5, <1>6, <3>1, FoundInJoined
  <2>2. CASE i \notin 1 .. octetPtr
    <3>1. /\ i - octetPtr \in 1 .. w /\ octetPtr + (i - octetPtr) = i
          /\ i \in 1 .. CommandLength
      BY <1>1, <1>3, <1>4, <1>7, <2>2
    <3>2. piece[i - octetPtr] = <<exchange, i>> /\ i - octetPtr \in DOMAIN piece
      BY <1>5, <3>1
    <3>3. PICK k \in DOMAIN piece : piece[k] = <<exchange, i>>
      BY <3>2
    <3>4. /\ Len(Handed) + k \in DOMAIN (Handed \o piece)
          /\ (Handed \o piece)[Len(Handed) + k] = <<exchange, i>>
      BY <1>5, <1>6, <3>3, FoundInJoined
    <3>. QED
      BY <1>6, <3>4
  <2>. QED
    BY <2>1, <2>2
<1>. QED
  BY <1>2, <1>3, <1>4, <1>6, <1>7 DEF OctetInv

(* Every other step keeps what was handed over, or it is a command.         *)
LEMMA OctetStep == OctetInv /\ [Next]_vars => OctetInv'
<1>. SUFFICES ASSUME OctetInv, [Next]_vars PROVE OctetInv'
  OBVIOUS
<1>1. /\ CommandLength \in Nat \ {0} /\ exchange \in Nat /\ octetPtr \in Int
      /\ octetPtr <= CommandLength
      /\ toPeer \in Seq(CommandOctet) /\ peerBuffer \in Seq(CommandOctet)
      /\ << >> \in Seq(CommandOctet)
  BY StreamAssumption DEF OctetInv
<1>2. CASE CallSendData
  BY <1>1, <1>2 DEF CallSendData, peerVars, OctetInv
<1>3. CASE SendPiece
  BY <1>3, PieceIsHanded
<1>4. CASE SendError
  <2>1. /\ call = "sending" /\ octetPtr' = octetPtr - 1 /\ octetsRemaining' = octetsRemaining + 1
        /\ UNCHANGED <<call, exchange, toPeer, peerBuffer, executed>> /\ Handed' = Handed
    BY <1>1, <1>4 DEF SendError, Written, peerVars, OctetInv, Handed
  <2>2. 1 .. octetPtr' \subseteq 1 .. octetPtr /\ octetPtr' \in Int /\ octetPtr' <= CommandLength
    BY <1>1, <2>1
  <2>3. octetsRemaining' = CommandLength - octetPtr'
    BY <1>1, <2>1 DEF OctetInv
  <2>. QED
    BY <2>1, <2>2, <2>3 DEF OctetInv
<1>5. CASE SendDataReturns
  BY <1>5 DEF SendDataReturns, peerVars, OctetInv
<1>6. CASE Recv \/ ReceiveDataReturns
  BY <1>6 DEF Recv, ReceiveDataReturns, peerVars, OctetInv, Handed
<1>7. CASE PeerReads
  <2>1. /\ peerBuffer' = peerBuffer \o toPeer /\ toPeer' = << >>
        /\ UNCHANGED <<call, exchange, octetPtr, octetsRemaining, executed>>
    BY <1>7 DEF PeerReads, clientVars
  <2>2. peerBuffer' \in Seq(CommandOctet) /\ peerBuffer' \o << >> = peerBuffer'
    BY <1>1, <2>1, ConcatProperties, ConcatEmptySeq
  <2>3. Handed' = Handed
    BY <2>1, <2>2 DEF Handed
  <2>. QED
    BY <2>1, <2>2, <2>3, <1>1 DEF OctetInv
<1>8. CASE PeerExecutes
  <2>1. /\ Len(peerBuffer) >= CommandLength /\ executed' = peerBuffer[1][1]
        /\ peerBuffer' = SubSeq(peerBuffer, CommandLength + 1, Len(peerBuffer))
        /\ UNCHANGED <<call, exchange, octetPtr, octetsRemaining, toPeer>>
    BY <1>8 DEF PeerExecutes, clientVars
  <2>2. peerBuffer[1] \in CommandOctet
    <3>1. 1 \in 1 .. Len(peerBuffer)
      BY <1>1, <2>1
    <3>. QED
      BY <1>1, <3>1
  <2>3. executed' # 0
    BY <2>1, <2>2 DEF CommandOctet
  <2>4. peerBuffer' \in Seq(CommandOctet)
    <3>1. \A i \in 1 .. Len(peerBuffer) : peerBuffer[i] \in CommandOctet
      BY <1>1
    <3>. QED
      BY <1>1, <2>1, <3>1, SubSeqProperties
  <2>. QED
    BY <1>1, <2>1, <2>3, <2>4 DEF OctetInv
<1>9. CASE PeerAnswers
  BY <1>9 DEF PeerAnswers, clientVars, OctetInv, Handed
<1>10. CASE UNCHANGED vars
  BY <1>10 DEF vars, clientVars, peerVars, OctetInv, Handed
<1>. QED
  BY <1>2, <1>3, <1>4, <1>5, <1>6, <1>7, <1>8, <1>9, <1>10 DEF Next, ClientStep, PeerStep

(* However often send() returns -1 on the way, every octet of the command   *)
(* is sent before sendData returns, if not once each, as long as radio      *)
(* diags has not taken octets for a command (TcpClient.cc:185-198).         *)
THEOREM NoOctetLostHolds == Spec => []NoOctetLost
<1>1. OctetInv => NoOctetLost
  <2>. SUFFICES ASSUME OctetInv, call = "sending", octetsRemaining <= 0, executed = 0
                PROVE  \A i \in 1 .. CommandLength :
                         \E k \in DOMAIN Handed : Handed[k] = <<exchange, i>>
    BY DEF NoOctetLost
  <2>1. octetPtr = CommandLength
    BY StreamAssumption DEF OctetInv
  <2>. QED
    BY <2>1 DEF OctetInv
<1>. QED
  BY <1>1, OctetInit, OctetStep, PTL DEF Spec

=============================================================================
