----------------------------- MODULE ServerProofs -----------------------------
(***************************************************************************)
(* What the operations of the message queue do, and type correctness of    *)
(* the two servers and of the connection, whoever sends the commands: the  *)
(* coordinator or the test clients.                                        *)
(***************************************************************************)
EXTENDS RadioServer, SpectrumServer, SequenceTheorems, TLAPS

-----------------------------------------------------------------------------
(* What the operations of the message queue do.                             *)

(* A message that was sent is the last one of its type; the other types and *)
(* the identifiers are as before (IpcMessageQueue::sendData).               *)
LEMMA SendDataEffect ==
  ASSUME QueueTypeOK, NEW id, NEW type \in MessageType, NEW body \in Body,
         SendData(id, type, body)
  PROVE  /\ Attached(id)
         /\ QueueTypeOK'
         /\ queue'[type] = Append(queue[type], body)
         /\ \A other \in MessageType : other # type => queue'[other] = queue[other]
         /\ qid' = qid /\ lastId' = lastId /\ lastId' >= lastId
BY DEF SendData, QueueTypeOK

(* The first message of the type is gone; the other types and the           *)
(* identifiers are as before (IpcMessageQueue::receiveData).                *)
LEMMA ReceiveDataEffect ==
  ASSUME QueueTypeOK, NEW id, NEW type \in MessageType, ReceiveData(id, type)
  PROVE  /\ Attached(id)
         /\ queue[type] # << >>
         /\ Received(type) \in Body
         /\ QueueTypeOK'
         /\ queue'[type] = Tail(queue[type])
         /\ \A other \in MessageType : other # type => queue'[other] = queue[other]
         /\ qid' = qid /\ lastId' = lastId /\ lastId' >= lastId
<1>1. queue[type] \in Seq(Body) /\ queue[type] # << >>
  BY DEF ReceiveData, QueueTypeOK
<1>2. Head(queue[type]) \in Body /\ Tail(queue[type]) \in Seq(Body)
  BY <1>1
<1>. QED
  BY <1>1, <1>2 DEF ReceiveData, QueueTypeOK, Received

(* A new queue has an identifier nobody holds (IpcMessageQueue's            *)
(* constructor).                                                            *)
LEMMA OpenQueueEffect ==
  ASSUME QueueTypeOK, OpenQueue
  PROVE  /\ QueueTypeOK'
         /\ OpenedId \in 1 .. lastId' /\ lastId' >= lastId
         /\ qid' = OpenedId
         /\ IF qid = NoQueue THEN qid' > lastId ELSE qid' = qid
         /\ queue' = queue
BY DEF OpenQueue, OpenedId, QueueTypeOK, NoQueue

(* A removed queue takes its messages with it.                              *)
LEMMA RemoveQueueEffect ==
  ASSUME QueueTypeOK, RemoveQueue
  PROVE  /\ QueueTypeOK'
         /\ lastId' = lastId /\ lastId' >= lastId /\ qid' = NoQueue
         /\ \A type \in MessageType : queue'[type] = << >>
BY DEF RemoveQueue, QueueTypeOK, NoQueue, EmptyQueue, Body

-----------------------------------------------------------------------------
(* Type correctness.                                                        *)

(* The queue, the connection and the servers start well typed.              *)
LEMMA TypesAtStart ==
  ASSUME QueueInit, LinkInit, RadioInit, SpectrumInit
  PROVE  QueueTypeOK /\ LinkTypeOK /\ RadioTypeOK /\ SpectrumTypeOK
<1>1. QueueTypeOK
  BY DEF QueueInit, QueueTypeOK, NoQueue, EmptyQueue, Body
<1>2. LinkTypeOK
  <2>1. radioGain \in Int /\ toRadio = << >>
    BY DEF LinkInit
  <2>2. peerUp \in BOOLEAN /\ connected \in BOOLEAN /\ fromRadio \in Nat /\ configured \subseteq Verb
    BY DEF LinkInit
  <2>. QED
    BY <2>1, <2>2 DEF LinkTypeOK
<1>3. RadioTypeOK
  BY DEF RadioInit, QueueInit, RadioTypeOK, RadioPc, NoQueue, SetupLength, Command, Verb,
     RadioCommands
<1>4. SpectrumTypeOK
  BY DEF SpectrumInit, QueueInit, SpectrumTypeOK, SpecPc, NoQueue
<1>. QED
  BY <1>1, <1>2, <1>3, <1>4

(* The message types are four, and an acknowledgement is a message body.    *)
LEMMA MessagesAreTyped ==
  /\ MessageType = {RadioServerTypeCmd, RadioServerTypeAck,
                    SpectrumServerTypeCmd, SpectrumServerTypeAck}
  /\ Ack \in Body
BY DEF MessageType, RadioServerTypeCmd, RadioServerTypeAck,
       SpectrumServerTypeCmd, SpectrumServerTypeAck, Ack, Body

(* The four message types are four numbers.                                 *)
LEMMA DistinctTypes ==
  /\ RadioServerTypeCmd # RadioServerTypeAck
  /\ RadioServerTypeCmd # SpectrumServerTypeCmd
  /\ RadioServerTypeCmd # SpectrumServerTypeAck
  /\ RadioServerTypeAck # SpectrumServerTypeCmd
  /\ RadioServerTypeAck # SpectrumServerTypeAck
  /\ SpectrumServerTypeCmd # SpectrumServerTypeAck
BY DEF RadioServerTypeCmd, RadioServerTypeAck, SpectrumServerTypeCmd, SpectrumServerTypeAck

(* Taking the only message leaves nothing.                                  *)
LEMMA TailOfOne == ASSUME NEW message PROVE Tail(<<message>>) = << >>
OBVIOUS

(* A sequence with an element has a last one, and appending leaves one.     *)
LEMMA LastOfSequence ==
  ASSUME NEW S, NEW s \in Seq(S)
  PROVE  /\ s # << >> => s[Len(s)] \in S
         /\ \A e \in S : Append(s, e) # << >>
OBVIOUS

(* The element that is appended is the last one.                            *)
LEMMA LastAppended ==
  ASSUME NEW S, NEW s \in Seq(S), NEW e \in S
  PROVE  /\ Append(s, e) # << >> /\ Len(Append(s, e)) = Len(s) + 1
         /\ Append(s, e)[Len(Append(s, e))] = e
         /\ \A i \in 1 .. Len(s) : Append(s, e)[i] = s[i]
OBVIOUS

(* The commands of the set up are commands.                                 *)
LEMMA SetupScriptIsTyped ==
  \A step \in 1 .. SetupLength : SetupScript[step] \in RadioCommands
<1>. TAKE step \in 1 .. SetupLength
<1>1. step \in {1, 2, 3, 4, 5, 6, 7, 8}
  BY DEF SetupLength
<1>2. SetupScript[1] \in RadioCommands /\ SetupScript[2] \in RadioCommands
  BY DEF SetupScript, Command, Verb, RadioCommands
<1>3. SetupScript[4] \in RadioCommands /\ SetupScript[5] \in RadioCommands
  BY DEF SetupScript, Command, Verb, RadioCommands
<1>4. SetupScript[6] \in RadioCommands /\ SetupScript[7] \in RadioCommands
  BY DEF SetupScript, Command, Verb, RadioCommands
<1>5. SetupScript[8] \in RadioCommands
  BY DEF SetupScript, Command, Verb, RadioCommands, DefaultFrequency
<1>6. SetupScript[3] \in RadioCommands
  BY DEF SetupScript, Command, Verb, RadioCommands
<1>. QED
  BY <1>1, <1>2, <1>3, <1>4, <1>5, <1>6

(* The decoders take a second number only from a message that has one.      *)
LEMMA DecodeReadsWhatIsThere ==
  ASSUME NEW body \in Body
  PROVE  /\ RadioDecode(body) = "send" => body[2] \in Int
         /\ SpectrumDecode(body) = "capture" => body[2] \in Int
<1>1. RadioDecode(body) = "send" => Len(body) = 2
  BY DEF RadioDecode
<1>2. SpectrumDecode(body) = "capture" => Len(body) = 2
  BY DEF SpectrumDecode
<1>. QED
  BY <1>1, <1>2 DEF Body

(* Of what is under way when the socket is closed, nothing is added and     *)
(* nothing is put in another order.                                         *)
LEMMA DisconnectEffect ==
  ASSUME LinkTypeOK, Disconnect
  PROVE  /\ connected' = FALSE /\ fromRadio' = 0 /\ peerUp' = peerUp
         /\ toRadio' \in Seq(RadioCommands)
         /\ Len(toRadio') <= Len(toRadio)
         /\ \A i \in 1 .. Len(toRadio') : toRadio'[i] = toRadio[i]
         /\ toRadio = << >> => toRadio' = << >>
<1>1. PICK n \in 0 .. Len(toRadio) : toRadio' = SubSeq(toRadio, 1, n)
  BY DEF Disconnect
<1>2. toRadio \in Seq(RadioCommands) /\ Len(toRadio) \in Nat
  BY DEF LinkTypeOK
<1>3. /\ toRadio' \in Seq(RadioCommands)
      /\ Len(toRadio') = n
      /\ \A i \in 1 .. n : toRadio'[i] = toRadio[i]
  BY <1>1, <1>2
<1>4. toRadio = << >> => toRadio' = << >>
  BY <1>2, <1>3
<1>. QED
  BY <1>1, <1>2, <1>3, <1>4 DEF Disconnect

(* The connection is left alone, or closed.                                 *)
LEMMA ConnectionReleased ==
  ASSUME LinkTypeOK, ReleasesConnection, UNCHANGED diagsVars
  PROVE  /\ LinkTypeOK' /\ peerUp' = peerUp
         /\ radioPc' # "exited" => UNCHANGED linkVars
         /\ toRadio = << >> => toRadio' = << >>
<1>1. CASE radioPc' = "exited"
  <2>1. /\ connected' = FALSE /\ fromRadio' = 0 /\ peerUp' = peerUp
        /\ toRadio' \in Seq(RadioCommands)
        /\ toRadio = << >> => toRadio' = << >>
    BY <1>1, DisconnectEffect DEF ReleasesConnection
  <2>. QED
    BY <1>1, <2>1 DEF LinkTypeOK, diagsVars
<1>2. CASE radioPc' # "exited"
  BY <1>2 DEF ReleasesConnection, LinkTypeOK, linkVars, diagsVars
<1>. QED
  BY <1>1, <1>2

(* What the radio server does keeps it, its connection and the queue well   *)
(* typed.                                                                   *)
LEMMA RadioServerType ==
  ASSUME QueueTypeOK, LinkTypeOK, RadioTypeOK, RadioServerStep
  PROVE  QueueTypeOK' /\ lastId' >= lastId /\ LinkTypeOK' /\ RadioTypeOK'
<1>. USE MessagesAreTyped
<1>0. /\ QueueTypeOK /\ LinkTypeOK /\ RadioTypeOK
      /\ lastId \in Nat /\ radioQid \in 0 .. lastId
  BY DEF RadioTypeOK, QueueTypeOK
<1>1. CASE LaunchRadioServer
  <2>1. QueueTypeOK' /\ lastId' = lastId
    BY <1>0, <1>1 DEF LaunchRadioServer, queueVars, QueueTypeOK
  <2>2. LinkTypeOK'
    <3>1. UNCHANGED diagsVars /\ (Connect \/ ConnectFails)
      BY <1>1 DEF LaunchRadioServer
    <3>2. CASE Connect
      BY <1>0, <3>1, <3>2 DEF Connect, diagsVars, LinkTypeOK
    <3>3. CASE ConnectFails
      BY <1>0, <3>1, <3>3 DEF ConnectFails, linkVars, diagsVars, LinkTypeOK
    <3>. QED
      BY <3>1, <3>2, <3>3
  <2>3. RadioTypeOK'
    BY <1>0, <1>1, <2>1 DEF LaunchRadioServer, RadioTypeOK, RadioPc
  <2>. QED
    BY <1>0, <2>1, <2>2, <2>3
<1>2. CASE RadioSend
  <2>1. QueueTypeOK' /\ lastId' = lastId
    BY <1>0, <1>2 DEF RadioSend, queueVars, QueueTypeOK
  <2>2. ASSUME SendRaisesSigpipe PROVE LinkTypeOK'
    <3>1. /\ connected' = FALSE /\ fromRadio' = 0 /\ peerUp' = peerUp
          /\ toRadio' \in Seq(RadioCommands)
      BY <1>0, <2>2, DisconnectEffect DEF SendRaisesSigpipe
    <3>. QED
      BY <1>0, <1>2, <3>1 DEF RadioSend, diagsVars, LinkTypeOK
  <2>3. LinkTypeOK'
    <3>1. CASE SendOctets(radioCommand)
      <4>1. toRadio' \in Seq(RadioCommands)
        BY <1>0, <3>1 DEF SendOctets, LinkTypeOK, RadioTypeOK
      <4>. QED
        BY <1>0, <1>2, <3>1, <4>1 DEF RadioSend, SendOctets, diagsVars, LinkTypeOK
    <3>. QED
      BY <1>2, <2>2, <3>1 DEF RadioSend
  <2>4. RadioTypeOK'
    BY <1>0, <1>2, <2>1 DEF RadioSend, RadioTypeOK, RadioPc
  <2>. QED
    BY <1>0, <2>1, <2>3, <2>4
<1>3. CASE RadioRead
  BY <1>0, <1>3 DEF RadioRead, ReadAvailable, ReadEndOfFile, linkVars, diagsVars, queueVars,
     radioVars,
     QueueTypeOK, LinkTypeOK, RadioTypeOK
<1>4. CASE RadioQuiet
  <2>1. QueueTypeOK' /\ lastId' = lastId /\ LinkTypeOK'
    BY <1>0, <1>4 DEF RadioQuiet, SelectTimesOut, queueVars, linkVars, diagsVars,
       QueueTypeOK, LinkTypeOK
  <2>2. radioPc' \in RadioPc /\ radioQid' = radioQid
    BY <1>4 DEF RadioQuiet, AfterResponse, RadioPc
  <2>3. setupStep' \in 0 .. SetupLength /\ radioCommand' \in RadioCommands
    <3>1. CASE setupStep < SetupLength
      <4>1. setupStep + 1 \in 1 .. SetupLength
        BY <1>0, <3>1 DEF RadioTypeOK, SetupLength
      <4>2. setupStep' = setupStep + 1 /\ radioCommand' = SetupScript[setupStep + 1]
        BY <1>4, <3>1 DEF RadioQuiet
      <4>. QED
        BY <4>1, <4>2, SetupScriptIsTyped DEF SetupLength
    <3>2. CASE ~(setupStep < SetupLength)
      BY <1>0, <1>4, <3>2 DEF RadioQuiet, RadioTypeOK
    <3>. QED
      BY <3>1, <3>2
  <2>. QED
    BY <1>0, <2>1, <2>2, <2>3 DEF RadioTypeOK
<1>5. CASE RadioOpensQueue
  <2>1. LinkTypeOK'
    BY <1>0, <1>5, ConnectionReleased DEF RadioOpensQueue
  <2>2. QueueTypeOK' /\ lastId' >= lastId /\ radioQid' \in 0 .. lastId'
    <3>1. CASE OpenQueue /\ radioQid' = OpenedId
      BY <1>0, <3>1, OpenQueueEffect
    <3>2. CASE OpenFails /\ UNCHANGED radioQid
      BY <1>0, <3>2 DEF OpenFails, queueVars, QueueTypeOK
    <3>. QED
      BY <1>5, <3>1, <3>2 DEF RadioOpensQueue
  <2>3. RadioTypeOK'
    BY <1>0, <1>5, <2>2 DEF RadioOpensQueue, RadioTypeOK, RadioPc
  <2>. QED
    BY <2>1, <2>2, <2>3
<1>6. CASE RadioReceive
  <2>1. LinkTypeOK'
    BY <1>0, <1>6, ConnectionReleased DEF RadioReceive
  <2>2. CASE ReceiveData(radioQid, RadioServerTypeCmd)
    <3>1. /\ QueueTypeOK' /\ lastId' >= lastId /\ lastId' = lastId
          /\ Received(RadioServerTypeCmd) \in Body
      BY <1>0, <2>2, ReceiveDataEffect
    <3>2. CASE ReceiveDataFails(radioQid)
      BY <2>2, <3>2 DEF ReceiveData, ReceiveDataFails
    <3>3. RadioDecode(Received(RadioServerTypeCmd)) = "send"
            => Command("rxifgain", Received(RadioServerTypeCmd)[2]) \in RadioCommands
      BY <3>1, DecodeReadsWhatIsThere DEF Command, RadioCommands, Verb
    <3>4. radioPc' \in RadioPc /\ radioQid' = radioQid /\ setupStep' = setupStep
      BY <1>6 DEF RadioReceive, RadioDecode, RadioPc
    <3>5. radioCommand' \in RadioCommands
      BY <1>0, <1>6, <3>2, <3>3 DEF RadioReceive, RadioTypeOK
    <3>. QED
      BY <1>0, <2>1, <3>1, <3>4, <3>5 DEF RadioTypeOK
  <2>3. CASE ReceiveDataFails(radioQid) /\ radioPc' = "exited" /\ UNCHANGED radioCommand
    BY <1>0, <1>6, <2>1, <2>3 DEF RadioReceive, ReceiveDataFails, queueVars, QueueTypeOK,
       RadioTypeOK, RadioPc
  <2>. QED
    BY <1>6, <2>2, <2>3 DEF RadioReceive
<1>7. CASE RadioAck
  <2>1. LinkTypeOK'
    BY <1>0, <1>7, ConnectionReleased DEF RadioAck
  <2>2. QueueTypeOK' /\ lastId' >= lastId /\ lastId' = lastId
    <3>1. CASE SendData(radioQid, RadioServerTypeAck, Ack)
      BY <1>0, <3>1, SendDataEffect
    <3>2. CASE SendDataFails(radioQid)
      BY <1>0, <3>2 DEF SendDataFails, queueVars, QueueTypeOK
    <3>. QED
      BY <1>7, <3>1, <3>2 DEF RadioAck
  <2>3. RadioTypeOK'
    BY <1>0, <1>7, <2>2 DEF RadioAck, RadioTypeOK, RadioPc
  <2>. QED
    BY <2>1, <2>2, <2>3
<1>. QED
  BY <1>1, <1>2, <1>3, <1>4, <1>5, <1>6, <1>7 DEF RadioServerStep

(* The radio server goes through its life in order, whoever commands it.    *)
LEMMA RadioPhaseKept ==
  ASSUME QueueTypeOK, RadioTypeOK, RadioPhase, RadioServerStep
  PROVE  RadioPhase'
<1>0. RadioPhase /\ lastId \in Nat /\ setupStep \in 0 .. SetupLength /\ QueueTypeOK
  BY DEF RadioTypeOK, QueueTypeOK
<1>1. CASE LaunchRadioServer \/ RadioSend \/ RadioRead \/ RadioReceive \/ RadioAck
  <2>1. UNCHANGED <<radioQid, setupStep>>
    BY <1>1 DEF LaunchRadioServer, RadioSend, RadioRead, RadioReceive, RadioAck, radioVars
  <2>2. CASE LaunchRadioServer
    BY <1>0, <2>1, <2>2 DEF LaunchRadioServer, RadioPhase
  <2>3. CASE RadioSend
    BY <1>0, <2>1, <2>3 DEF RadioSend, RadioPhase
  <2>4. CASE RadioRead
    BY <1>0, <2>1, <2>4 DEF RadioRead, RadioPhase, radioVars
  <2>5. CASE RadioReceive
    BY <1>0, <2>1, <2>5 DEF RadioReceive, RadioDecode, RadioPhase
  <2>6. CASE RadioAck
    BY <1>0, <2>1, <2>6 DEF RadioAck, RadioPhase
  <2>. QED
    BY <1>1, <2>2, <2>3, <2>4, <2>5, <2>6
<1>2. CASE RadioQuiet
  BY <1>0, <1>2 DEF RadioQuiet, AfterResponse, RadioPhase, SetupLength
<1>3. CASE RadioOpensQueue
  <2>1. CASE OpenQueue /\ radioQid' = OpenedId /\ radioPc' = "wait"
    <3>1. OpenedId # NoQueue
      BY <1>0, <2>1, OpenQueueEffect DEF NoQueue
    <3>. QED
      BY <1>0, <1>3, <2>1, <3>1 DEF RadioOpensQueue, RadioPhase
  <2>2. CASE radioPc' = "exited" /\ UNCHANGED radioQid
    BY <1>0, <1>3, <2>2 DEF RadioOpensQueue, RadioPhase
  <2>. QED
    BY <1>3, <2>1, <2>2 DEF RadioOpensQueue
<1>. QED
  BY <1>1, <1>2, <1>3 DEF RadioServerStep

(* What the spectrum server does keeps it and the queue well typed.         *)
LEMMA SpectrumServerType ==
  ASSUME QueueTypeOK, LinkTypeOK, SpectrumTypeOK, SpectrumServerStep
  PROVE  QueueTypeOK' /\ lastId' >= lastId /\ SpectrumTypeOK'
<1>. USE MessagesAreTyped
<1>0. /\ QueueTypeOK /\ SpectrumTypeOK /\ radioGain \in Int
      /\ lastId \in Nat /\ specQid \in 0 .. lastId
  BY DEF SpectrumTypeOK, QueueTypeOK, LinkTypeOK
<1>1. CASE LaunchSpectrumServer
  <2>1. QueueTypeOK' /\ lastId' >= lastId /\ specQid' \in 0 .. lastId'
    <3>1. CASE OpenQueue /\ specQid' = OpenedId
      BY <1>0, <3>1, OpenQueueEffect
    <3>2. CASE OpenFails /\ UNCHANGED specQid
      BY <1>0, <3>2 DEF OpenFails, queueVars, QueueTypeOK
    <3>. QED
      BY <1>1, <3>1, <3>2 DEF LaunchSpectrumServer
  <2>2. SpectrumTypeOK'
    BY <1>0, <1>1, <2>1 DEF LaunchSpectrumServer, SpectrumTypeOK, SpecPc
  <2>. QED
    BY <2>1, <2>2
<1>2. CASE SpectrumReceive
  <2>1. CASE ReceiveData(specQid, SpectrumServerTypeCmd)
    <3>1. /\ QueueTypeOK' /\ lastId' >= lastId /\ lastId' = lastId
          /\ Received(SpectrumServerTypeCmd) \in Body
      BY <1>0, <2>1, ReceiveDataEffect
    <3>2. ~ReceiveDataFails(specQid)
      BY <2>1 DEF ReceiveData, ReceiveDataFails
    <3>3. SpectrumDecode(Received(SpectrumServerTypeCmd)) = "capture"
            => Received(SpectrumServerTypeCmd)[2] \in Int
      BY <3>1, DecodeReadsWhatIsThere
    <3>4. specPc' \in SpecPc
      BY <1>2 DEF SpectrumReceive, SpectrumDecode, SpecPc
    <3>5. spectrumTag' \in Int /\ samples' = {}
      BY <1>0, <1>2, <3>2, <3>3 DEF SpectrumReceive, SpectrumTypeOK
    <3>. QED
      BY <1>0, <1>2, <3>1, <3>4, <3>5 DEF SpectrumReceive, SpectrumTypeOK
  <2>2. CASE ReceiveDataFails(specQid) /\ specPc' = "exited" /\ UNCHANGED <<spectrumTag, samples>>
    BY <1>0, <1>2, <2>2 DEF SpectrumReceive, ReceiveDataFails, queueVars, QueueTypeOK,
       SpectrumTypeOK, SpecPc
  <2>. QED
    BY <1>2, <2>1, <2>2 DEF SpectrumReceive
<1>3. CASE StreamSamples
  BY <1>0, <1>3 DEF StreamSamples, queueVars, QueueTypeOK, SpectrumTypeOK
<1>4. CASE Measure
  <2>1. QueueTypeOK' /\ lastId' = lastId
    BY <1>0, <1>4 DEF Measure, queueVars, QueueTypeOK
  <2>2. [tag |-> spectrumTag, gains |-> samples] \in OutputRecord
    BY <1>0 DEF SpectrumTypeOK, OutputRecord
  <2>3. results' \in Seq(OutputRecord)
    BY <1>0, <1>4, <2>2 DEF Measure, SpectrumTypeOK
  <2>. QED
    BY <1>0, <1>4, <2>1, <2>3 DEF Measure, SpectrumTypeOK, SpecPc
<1>5. CASE PipelineFails
  BY <1>0, <1>5 DEF PipelineFails, queueVars, QueueTypeOK, SpectrumTypeOK, SpecPc
<1>6. CASE SpectrumAck
  <2>1. QueueTypeOK' /\ lastId' >= lastId /\ lastId' = lastId
    <3>1. CASE SendData(specQid, SpectrumServerTypeAck, Ack)
      BY <1>0, <3>1, SendDataEffect
    <3>2. CASE SendDataFails(specQid)
      BY <1>0, <3>2 DEF SendDataFails, queueVars, QueueTypeOK
    <3>. QED
      BY <1>6, <3>1, <3>2 DEF SpectrumAck
  <2>2. SpectrumTypeOK'
    BY <1>0, <1>6, <2>1 DEF SpectrumAck, SpectrumTypeOK, SpecPc
  <2>. QED
    BY <2>1, <2>2
<1>. QED
  BY <1>1, <1>2, <1>3, <1>4, <1>5, <1>6 DEF SpectrumServerStep

(* Radio diags keeps the connection well typed.                             *)
LEMMA DiagsType ==
  ASSUME LinkTypeOK, DiagsExecute \/ DiagsCloses
  PROVE  LinkTypeOK'
<1>1. CASE DiagsExecute
  <2>1. toRadio \in Seq(RadioCommands) /\ toRadio # << >>
    BY <1>1 DEF LinkTypeOK, DiagsExecute
  <2>2. /\ Head(toRadio) \in RadioCommands
        /\ Tail(toRadio) \in Seq(RadioCommands)
    BY <2>1
  <2>3. Head(toRadio).verb \in Verb /\ Head(toRadio).value \in Int
    BY <2>2 DEF RadioCommands
  <2>4. radioGain' \in Int /\ configured' \subseteq Verb
    BY <1>1, <2>3 DEF LinkTypeOK, DiagsExecute
  <2>5. toRadio' \in Seq(RadioCommands) /\ fromRadio' \in Nat
    BY <1>1, <2>2 DEF LinkTypeOK, DiagsExecute
  <2>. QED
    BY <1>1, <2>4, <2>5 DEF LinkTypeOK, DiagsExecute
<1>2. CASE DiagsCloses
  <2>1. toRadio' \in Seq(RadioCommands)
    BY <1>2 DEF DiagsCloses
  <2>. QED
    BY <1>2, <2>1 DEF LinkTypeOK, DiagsCloses, diagsVars
<1>. QED
  BY <1>1, <1>2

=============================================================================
