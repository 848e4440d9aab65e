------------------------------- MODULE TcpStream -------------------------------
(***************************************************************************)
(* sendData and receiveData of src/TcpClient.cc on the octets of a TCP     *)
(* connection, and radio diags at the other end.  send() takes any part of *)
(* what is left, the network carries what the socket buffers hold, and     *)
(* recv() returns what has come so far.                                    *)
(*                                                                         *)
(* Octet i of message k is <<k, i>>: message 0 is the greeting, message k  *)
(* the k-th command or the answer to it.  Radio diags answers within the   *)
(* 200 ms of select(), and pauses less than that within an answer.         *)
(***************************************************************************)
EXTENDS Integers, Sequences

CONSTANTS
  CommandLength, ResponseLength,   \* octets of a command, of an answer
  SocketBuffer,                    \* octets the network holds each way
  Exchanges,                       \* commands the client sends
  SendErrors                       \* how often send() returns -1

ASSUME StreamAssumption ==
  /\ {CommandLength, ResponseLength, SocketBuffer} \subseteq Nat \ {0}
  /\ {Exchanges, SendErrors} \subseteq Nat

VARIABLES
  call, exchange,                       \* as in TcpExchange
  octetPtr, octetsRemaining, octetsSent,   \* of sendData
  received,                             \* what receiveData has stored
  errors,                               \* how often send() returned -1
  toPeer, peerBuffer,                   \* octets sent; octets radio diags has
  executed,                             \* the command radio diags executed last
  answer, fromPeer                      \* what it has yet to send; octets sent

clientVars == <<call, exchange, octetPtr, octetsRemaining, octetsSent, received, errors>>
peerVars == <<peerBuffer, executed, answer>>
vars == <<clientVars, peerVars, toPeer, fromPeer>>

Octets(message, length) == [i \in 1 .. length |-> <<message, i>>]

(* What is at the octets from position first on: before the buffer there is *)
(* something else.                                                          *)
Unknown == <<-1, -1>>
Slice(message, first, length) ==
  [i \in 1 .. length |->
     IF first + i \in 1 .. CommandLength THEN <<message, first + i>> ELSE Unknown]

Init ==
  /\ call = "receive" /\ exchange = 0
  /\ octetPtr = 0 /\ octetsRemaining = 0 /\ octetsSent = 0
  /\ received = << >>
  /\ errors = 0
  /\ toPeer = << >> /\ peerBuffer = << >>
  /\ executed = 0
  /\ answer = Octets(0, ResponseLength)
  /\ fromPeer = << >>

-----------------------------------------------------------------------------
(* sendData                                                                 *)

CallSendData ==
  /\ call = "send"
  /\ exchange < Exchanges
  /\ call' = "sending"
  /\ exchange' = exchange + 1
  /\ octetPtr' = 0
  /\ octetsRemaining' = CommandLength
  /\ octetsSent' = 0
  /\ UNCHANGED <<received, errors, peerVars, toPeer, fromPeer>>

(* Mutation: the pointer stays at the beginning of the buffer.              *)
WrittenFromStart(octetsWritten) ==
  /\ octetsRemaining' = octetsRemaining - octetsWritten
  /\ octetsSent' = octetsSent + octetsWritten
  /\ UNCHANGED octetPtr

(* Mutation: -1 counts as an octet written.                                  *)
WrittenForward(octetsWritten) ==
  /\ octetsRemaining' = octetsRemaining - octetsWritten
  /\ octetPtr' = octetPtr + (IF octetsWritten = -1 THEN 1 ELSE octetsWritten)
  /\ octetsSent' = octetsSent + octetsWritten

(* The three lines after send(), whatever it has returned.                  *)
Written(octetsWritten) ==
  /\ octetsRemaining' = octetsRemaining - octetsWritten
  /\ octetPtr' = octetPtr + octetsWritten
  /\ octetsSent' = octetsSent + octetsWritten

SendPiece ==
  /\ call = "sending"
  /\ octetsRemaining > 0
  /\ \E octetsWritten \in 1 .. octetsRemaining :
       /\ Len(toPeer) + octetsWritten <= SocketBuffer
       /\ toPeer' = toPeer \o Slice(exchange, octetPtr, octetsWritten)
       /\ Written(octetsWritten)
  /\ UNCHANGED <<call, exchange, received, errors, peerVars, fromPeer>>

(* send() returns -1 (ENOBUFS, say), and the connection is still there.     *)
SendError ==
  /\ call = "sending"
  /\ octetsRemaining > 0
  /\ errors < SendErrors
  /\ errors' = errors + 1
  /\ Written(-1)
  /\ UNCHANGED <<call, exchange, received, peerVars, toPeer, fromPeer>>

(* Mutation: the loop goes on until less than nothing remains.              *)
SendDataReturnsLate ==
  /\ call = "sending"
  /\ octetsRemaining < 0
  /\ call' = "receive"
  /\ received' = << >>
  /\ UNCHANGED <<exchange, octetPtr, octetsRemaining, octetsSent, errors,
                 peerVars, toPeer, fromPeer>>

(* sendRadioCommand calls receiveData at once.                              *)
SendDataReturns ==
  /\ call = "sending"
  /\ octetsRemaining <= 0
  /\ call' = "receive"
  /\ received' = << >>
  /\ UNCHANGED <<exchange, octetPtr, octetsRemaining, octetsSent, errors,
                 peerVars, toPeer, fromPeer>>

-----------------------------------------------------------------------------
(* receiveData                                                              *)

(* Mutation: what is read overwrites what was read before.                  *)
RecvOverwrites ==
  /\ call = "receive"
  /\ fromPeer # << >>
  /\ received' = fromPeer
  /\ fromPeer' = << >>
  /\ UNCHANGED <<call, exchange, octetPtr, octetsRemaining, octetsSent, errors,
                 peerVars, toPeer>>

Recv ==
  /\ call = "receive"
  /\ fromPeer # << >>
  /\ received' = received \o fromPeer
  /\ fromPeer' = << >>
  /\ UNCHANGED <<call, exchange, octetPtr, octetsRemaining, octetsSent, errors,
                 peerVars, toPeer>>

(* Radio diags has nothing to do and nothing to send.                       *)
PeerSilent == toPeer = << >> /\ Len(peerBuffer) < CommandLength /\ answer = << >>

(* Mutation: receiveData returns with the first octets.                     *)
ReceiveDataReturnsEarly ==
  /\ call = "receive"
  /\ received # << >>
  /\ call' = "send"
  /\ UNCHANGED <<exchange, octetPtr, octetsRemaining, octetsSent, received, errors,
                 peerVars, toPeer, fromPeer>>

(* select() times out.                                                      *)
ReceiveDataReturns ==
  /\ call = "receive"
  /\ fromPeer = << >>
  /\ PeerSilent
  /\ call' = "send"
  /\ UNCHANGED <<exchange, octetPtr, octetsRemaining, octetsSent, received, errors,
                 peerVars, toPeer, fromPeer>>

-----------------------------------------------------------------------------
(* Radio diags                                                              *)

PeerReads ==
  /\ toPeer # << >>
  /\ peerBuffer' = peerBuffer \o toPeer
  /\ toPeer' = << >>
  /\ UNCHANGED <<clientVars, executed, answer, fromPeer>>

PeerExecutes ==
  /\ Len(peerBuffer) >= CommandLength
  /\ answer = << >>
  /\ executed' = peerBuffer[1][1]
  /\ answer' = Octets(executed', ResponseLength)
  /\ peerBuffer' = SubSeq(peerBuffer, CommandLength + 1, Len(peerBuffer))
  /\ UNCHANGED <<clientVars, toPeer, fromPeer>>

PeerAnswers ==
  /\ \E n \in 1 .. Len(answer) :
       /\ Len(fromPeer) + n <= SocketBuffer
       /\ fromPeer' = fromPeer \o SubSeq(answer, 1, n)
       /\ answer' = SubSeq(answer, n + 1, Len(answer))
  /\ UNCHANGED <<clientVars, peerBuffer, executed, toPeer>>

ClientStep ==
  \/ CallSendData
  \/ SendPiece
  \/ SendDataReturns
  \/ Recv
  \/ ReceiveDataReturns

PeerStep == PeerReads \/ PeerExecutes \/ PeerAnswers

Next == ClientStep \/ SendError \/ PeerStep

Spec == Init /\ [][Next]_vars

(* Both programs run whenever they can.                                     *)
FairSpec == Spec /\ WF_vars(ClientStep) /\ WF_vars(PeerStep)

-----------------------------------------------------------------------------
(* Until send() fails: however it cuts a command, radio diags gets its      *)
(* octets once each and in order (TcpClient.cc:185-198).                    *)
Handed == peerBuffer \o toPeer

CommandArrivesWhole ==
  errors = 0 =>
    Handed = IF executed < exchange THEN Slice(exchange, 0, octetPtr) ELSE << >>

(* However the network cuts an answer, receiveData returns with the whole   *)
(* answer to the command before it and nothing of another one               *)
(* (TcpClient.cc:249-283).                                                  *)
AnswerReceivedWhole ==
  errors = 0 /\ call = "send" => received = Octets(exchange, ResponseLength)

(* Also when send() returns -1 on the way, every octet of the command is    *)
(* sent, if not once each (TcpClient.cc:185-198; seen until radio diags     *)
(* takes octets for a command).                                             *)
NoOctetLost ==
  call = "sending" /\ octetsRemaining <= 0 /\ executed = 0 =>
    \A i \in 1 .. CommandLength : \E k \in DOMAIN Handed : Handed[k] = <<exchange, i>>

(* Every command is sent and answered, unless send() fails                  *)
(* (TcpClient.cc:167-203, 226-289).                                         *)
ExchangesComplete ==
  <>((call = "send" /\ exchange = Exchanges) \/ errors > 0)

(* Seen command by command, and until send() fails, this is the exchange    *)
(* the radio server relies on: a command counts when its last octet is      *)
(* sent, an answer until its last octet is read.                            *)
Sent == IF call = "sending" /\ octetsRemaining > 0 THEN exchange - 1 ELSE exchange

Exchange == INSTANCE TcpExchange WITH
  Faults <- {},
  peerUp <- TRUE,
  connected <- TRUE,
  call <- IF call = "send" \/ Sent < exchange THEN "send" ELSE "receive",
  exchange <- Sent,
  toRadio <- IF executed < Sent
             THEN <<[verb |-> "rxifgain", value |-> Sent]>> ELSE << >>,
  fromRadio <- IF answer \o fromPeer # << >> THEN 1 ELSE 0,
  radioGain <- IF executed = 0 THEN -1 ELSE executed,
  configured <- IF executed = 0 THEN {} ELSE {"rxifgain"}

ImplementsExchange ==
  Exchange!Init /\ [][errors' = 0 => Exchange!Next]_(Exchange!exchangeVars)

=============================================================================
