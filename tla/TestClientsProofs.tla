--------------------------- MODULE TestClientsProofs ---------------------------
(***************************************************************************)
(* What holds of the two test clients and the two servers for every number *)
(* of keys and every size of the queue.                                    *)
(***************************************************************************)
EXTENDS TestClientsInvariant, ServerProofs

-----------------------------------------------------------------------------
(* Type correctness.                                                        *)

(* The two clients use message types of their own, and no opcode is taken   *)
(* for the terminate command.                                               *)
LEMMA TypesOfClients ==
  ASSUME NEW client \in Client
  PROVE  /\ TypeCmd(client) \in MessageType /\ TypeAck(client) \in MessageType
         /\ TypeCmd(client) # TypeAck(client)
         /\ Opcode(client) \in Int
         /\ \A other \in Client : other # client =>
              {TypeCmd(client), TypeAck(client)} \cap {TypeCmd(other), TypeAck(other)} = {}
<1>1. CASE client = "radioClient"
  BY <1>1, MessagesAreTyped, DistinctTypes DEF Client, TypeCmd, TypeAck, Opcode,
     RadioServerCmdSetIfGain
<1>2. CASE client = "spectrumClient"
  BY <1>2, MessagesAreTyped, DistinctTypes DEF Client, TypeCmd, TypeAck, Opcode,
     SpectrumServerCmdComputePower
<1>. QED
  BY <1>1, <1>2 DEF Client

(* A client's command with a number in it is a message body.               *)
LEMMA ClientCommandIsTyped ==
  ASSUME NEW client \in Client, NEW n \in Int
  PROVE  <<Opcode(client), n>> \in Body
<1>1. Opcode(client) \in Int
  BY TypesOfClients
<1>. QED
  BY <1>1 DEF Body

(* So is the terminate command.                                             *)
LEMMA TerminateIsTyped == <<CmdTerminate>> \in Body
BY DEF Body, CmdTerminate

(* The counter wraps to the start value.                                    *)
LEMMA NextValueIsInt == ASSUME NEW n \in Int PROVE NextValue(n) \in Int
BY TestClientsAssumption DEF NextValue

(* Nothing has happened at the start.                                       *)
LEMMA ClientsTypeInit == Init => ClientsTypeOK
<1>. SUFFICES ASSUME Init PROVE ClientsTypeOK
  OBVIOUS
<1>1. QueueTypeOK /\ LinkTypeOK /\ RadioTypeOK /\ SpectrumTypeOK
  BY TypesAtStart DEF Init
<1>2. value \in [Client -> Int] /\ asked \in [Client -> Seq(Int)]
  BY TestClientsAssumption DEF Init, ClientInit
<1>. QED
  BY <1>1, <1>2 DEF Init, ClientInit, ClientsTypeOK, QueueInit, NoQueue

(* What a client and its user do keeps the client and the queue well typed. *)
LEMMA ClientType ==
  ASSUME ClientsTypeOK, NEW client \in Client, ClientStep(client) \/ UserStep(client)
  PROVE  /\ QueueTypeOK' /\ lastId' \in Nat /\ lastId' >= lastId
         /\ clientPc' \in [Client -> {"off", "prompt", "send", "wait", "terminate",
                                      "destroy", "exited"}]
         /\ clientQid' \in [Client -> 0 .. lastId']
         /\ value' \in [Client -> Int]
         /\ asked' \in [Client -> Seq(Int)]
<1>0. /\ QueueTypeOK /\ lastId \in Nat
      /\ clientPc \in [Client -> {"off", "prompt", "send", "wait", "terminate",
                                  "destroy", "exited"}]
      /\ clientQid \in [Client -> 0 .. lastId] /\ clientQid[client] \in 0 .. lastId
      /\ value \in [Client -> Int] /\ value[client] \in Int
      /\ asked \in [Client -> Seq(Int)] /\ asked[client] \in Seq(Int)
  BY DEF ClientsTypeOK, QueueTypeOK
<1>1. clientPc' \in [Client -> {"off", "prompt", "send", "wait", "terminate",
                                "destroy", "exited"}]
  BY <1>0 DEF ClientStep, UserStep, LaunchClient, SendCommand, WaitForServerAck,
     SendTerminateCommand, DestroyQueue, KeyMeasure, KeyExit, EndOfInput, Goes
<1>2. value' \in [Client -> Int]
  <2>1. NextValue(value[client]) \in Int
    BY <1>0, NextValueIsInt
  <2>. QED
    BY <1>0, <2>1 DEF ClientStep, UserStep, LaunchClient, SendCommand, WaitForServerAck,
     SendTerminateCommand, DestroyQueue, KeyMeasure, KeyExit, EndOfInput, CountValue
<1>3. asked' \in [Client -> Seq(Int)]
  <2>1. Append(asked[client], value[client]) \in Seq(Int)
    BY <1>0
  <2>. QED
    BY <1>0, <2>1 DEF ClientStep, UserStep, LaunchClient, SendCommand, WaitForServerAck,
     SendTerminateCommand, DestroyQueue, KeyMeasure, KeyExit, EndOfInput
<1>4. /\ QueueTypeOK' /\ lastId' >= lastId
      /\ clientQid' \in [Client -> 0 .. lastId']
  <2>1. CASE LaunchClient(client)
    <3>1. CASE OpenQueue /\ clientQid' = [clientQid EXCEPT ![client] = OpenedId]
      BY <1>0, <3>1, OpenQueueEffect DEF QueueTypeOK
    <3>2. CASE OpenFails /\ UNCHANGED clientQid
      BY <1>0, <3>2 DEF OpenFails, queueVars, QueueTypeOK
    <3>. QED
      BY <2>1, <3>1, <3>2 DEF LaunchClient
  <2>2. CASE UserStep(client)
    BY <1>0, <2>2 DEF UserStep, KeyMeasure, KeyExit, EndOfInput, queueVars, QueueTypeOK
  <2>3. CASE SendCommand(client)
    <3>1. CASE SendData(clientQid[client], TypeCmd(client), <<Opcode(client), value[client]>>)
      BY <1>0, <2>3, <3>1, SendDataEffect, TypesOfClients, ClientCommandIsTyped DEF SendCommand
    <3>2. CASE SendDataFails(clientQid[client])
      BY <1>0, <2>3, <3>2 DEF SendCommand, SendDataFails, queueVars, QueueTypeOK
    <3>. QED
      BY <2>3, <3>1, <3>2 DEF SendCommand
  <2>4. CASE WaitForServerAck(client)
    <3>1. CASE ReceiveData(clientQid[client], TypeAck(client))
      BY <1>0, <2>4, <3>1, ReceiveDataEffect, TypesOfClients DEF WaitForServerAck
    <3>2. CASE ReceiveDataFails(clientQid[client])
      BY <1>0, <2>4, <3>2 DEF WaitForServerAck, ReceiveDataFails, queueVars, QueueTypeOK
    <3>. QED
      BY <2>4, <3>1, <3>2 DEF WaitForServerAck
  <2>5. CASE SendTerminateCommand(client)
    <3>1. CASE SendData(clientQid[client], TypeCmd(client), <<CmdTerminate>>)
      BY <1>0, <2>5, <3>1, SendDataEffect, TypesOfClients, TerminateIsTyped DEF SendTerminateCommand
    <3>2. CASE SendDataFails(clientQid[client])
      BY <1>0, <2>5, <3>2 DEF SendTerminateCommand, SendDataFails, queueVars, QueueTypeOK
    <3>. QED
      BY <2>5, <3>1, <3>2 DEF SendTerminateCommand
  <2>6. CASE DestroyQueue(client)
    <3>1. CASE RemoveQueue
      BY <1>0, <2>6, <3>1, RemoveQueueEffect DEF DestroyQueue
    <3>2. CASE UNCHANGED queueVars
      BY <1>0, <2>6, <3>2 DEF DestroyQueue, queueVars, QueueTypeOK
    <3>. QED
      BY <2>6, <3>1, <3>2 DEF DestroyQueue, Destroy
  <2>. QED
    BY <2>1, <2>2, <2>3, <2>4, <2>5, <2>6 DEF ClientStep
<1>. QED
  BY <1>0, <1>1, <1>2, <1>3, <1>4 DEF QueueTypeOK

(* Every step keeps the types.                                              *)
LEMMA ClientsTypeStep == ClientsTypeOK /\ [Next]_vars => ClientsTypeOK'
<1>. SUFFICES ASSUME ClientsTypeOK, [Next]_vars PROVE ClientsTypeOK'
  OBVIOUS
<1>0. /\ QueueTypeOK /\ LinkTypeOK /\ RadioTypeOK /\ SpectrumTypeOK /\ lastId \in Nat
      /\ radioQid \in 0 .. lastId /\ specQid \in 0 .. lastId
      /\ clientQid \in [Client -> 0 .. lastId]
  BY DEF ClientsTypeOK, QueueTypeOK, RadioTypeOK, SpectrumTypeOK
<1>1. CASE ClientsServing \/ UsersServing
  <2>1. PICK client \in Client : ClientStep(client) \/ UserStep(client)
    BY <1>1 DEF ClientsServing, UsersServing
  <2>2. UNCHANGED <<linkVars, diagsVars, radioVars, spectrumVars>>
    BY <1>1 DEF ClientsServing, UsersServing
  <2>3. lastId' \in Nat /\ lastId' >= lastId
    BY <2>1, ClientType
  <2>4. LinkTypeOK'
    BY <1>0, <2>2 DEF linkVars, diagsVars, LinkTypeOK
  <2>5. RadioTypeOK'
    BY <1>0, <2>2, <2>3 DEF radioVars, RadioTypeOK
  <2>6. SpectrumTypeOK'
    BY <1>0, <2>2, <2>3 DEF spectrumVars, SpectrumTypeOK
  <2>. QED
    BY <2>1, <2>4, <2>5, <2>6, ClientType DEF ClientsTypeOK
<1>2. CASE RadioServing
  <2>1. QueueTypeOK' /\ lastId' >= lastId /\ LinkTypeOK' /\ RadioTypeOK'
    BY <1>0, <1>2, RadioServerType DEF RadioServing
  <2>2. lastId' \in Nat
    BY <2>1 DEF QueueTypeOK
  <2>3. SpectrumTypeOK'
    BY <1>0, <1>2, <2>1, <2>2 DEF RadioServing, spectrumVars, SpectrumTypeOK
  <2>. QED
    BY <1>0, <1>2, <2>1, <2>2, <2>3 DEF RadioServing, clientVars, ClientsTypeOK
<1>3. CASE SpectrumServing
  <2>1. QueueTypeOK' /\ lastId' >= lastId /\ SpectrumTypeOK'
    BY <1>0, <1>3, SpectrumServerType DEF SpectrumServing
  <2>2. lastId' \in Nat
    BY <2>1 DEF QueueTypeOK
  <2>3. RadioTypeOK'
    BY <1>0, <1>3, <2>1, <2>2 DEF SpectrumServing, radioVars, RadioTypeOK
  <2>4. LinkTypeOK'
    BY <1>0, <1>3 DEF SpectrumServing, linkVars, diagsVars, LinkTypeOK
  <2>. QED
    BY <1>0, <1>3, <2>1, <2>2, <2>3, <2>4 DEF SpectrumServing, clientVars, ClientsTypeOK
<1>4. CASE DiagsServing
  <2>1. LinkTypeOK'
    BY <1>0, <1>4, DiagsType DEF DiagsServing
  <2>. QED
    BY <1>0, <1>4, <2>1 DEF DiagsServing, queueVars, radioVars, spectrumVars, clientVars,
       QueueTypeOK, RadioTypeOK, SpectrumTypeOK, ClientsTypeOK
<1>5. CASE UNCHANGED vars
  BY <1>0, <1>5 DEF vars, queueVars, linkVars, diagsVars, radioVars, spectrumVars, clientVars,
     QueueTypeOK, LinkTypeOK, RadioTypeOK, SpectrumTypeOK, ClientsTypeOK
<1>. QED
  BY <1>1, <1>2, <1>3, <1>4, <1>5 DEF Next

(* Every variable of the two clients, the servers, the queue and the        *)
(* connection has its type in every reachable state, whatever fails.        *)
THEOREM ClientsTypeCorrectness == Spec => []ClientsTypeOK
<1>. QED
  BY ClientsTypeInit, ClientsTypeStep, PTL DEF Spec

-----------------------------------------------------------------------------
(* One command at a time.                                                   *)

(* The legs are idle at the start.                                          *)
LEMMA LegsInit == Init => LegsInv
<1>. SUFFICES ASSUME Init PROVE LegsInv
  OBVIOUS
<1>1. ClientsTypeOK
  BY ClientsTypeInit
<1>2. RadioPhase
  BY DEF Init, RadioInit, RadioPhase
<1>3. specPc = "off" /\ radioQid = NoQueue /\ specQid = NoQueue
  BY DEF Init, SpectrumInit, RadioInit
<1>4. ASSUME NEW client \in Client PROVE ClientPhase(client) /\ Leg(client)
  <2>1. LegIdle(client)
    BY <1>4, TypesOfClients DEF Init, QueueInit, EmptyQueue, LegIdle
  <2>2. ~Works(client)
    BY <1>3 DEF Works, ServerQid
  <2>3. ClientPhase(client)
    BY <1>4 DEF Init, ClientInit, ClientPhase
  <2>. QED
    BY <2>1, <2>2, <2>3 DEF Leg, LegIdle
<1>. QED
  BY <1>1, <1>2, <1>3, <1>4 DEF LegsInv

(* The queue the key names stays or is a new one.                           *)
QueueStaysOrIsNew == qid' = qid \/ (qid = NoQueue /\ qid' > lastId)

(* A leg is in order as long as neither its client nor its messages change  *)
(* and its server takes up no work.                                         *)
LEMMA LegKept ==
  ASSUME ClientsTypeOK, NEW client \in Client, ClientPhase(client), Leg(client),
         Works(client)' => Works(client) /\ ServerQid(client)' = ServerQid(client),
         clientPc'[client] = clientPc[client], clientQid'[client] = clientQid[client],
         asked'[client] = asked[client],
         queue'[TypeCmd(client)] = queue[TypeCmd(client)],
         queue'[TypeAck(client)] = queue[TypeAck(client)],
         QueueStaysOrIsNew
  PROVE  ClientPhase(client)' /\ Leg(client)'
<1>1. ClientPhase(client)'
  BY DEF ClientPhase
<1>2. clientQid[client] \in 0 .. lastId /\ lastId \in Nat /\ qid \in 0 .. lastId
  BY DEF ClientsTypeOK, QueueTypeOK
<1>3. Attached(clientQid[client])' <=> Attached(clientQid[client])
  BY <1>2 DEF Attached, QueueStaysOrIsNew, NoQueue
<1>4. LastAsked(client)' = LastAsked(client)
  BY DEF LastAsked
<1>5. Works(client)' => /\ ServerQid(client)' = clientQid'[client]
                        /\ asked'[client] # << >>
                        /\ clientPc'[client] \in {"wait", "destroy", "exited"}
                        /\ Attached(clientQid[client])' => clientPc'[client] = "wait"
                        /\ LegIdle(client)'
  BY <1>3 DEF Leg, LegIdle
<1>6. queue'[TypeAck(client)] # << >> =>
       /\ Attached(clientQid[client])' /\ clientPc'[client] = "wait"
       /\ asked'[client] # << >>
       /\ queue'[TypeCmd(client)] = << >> /\ queue'[TypeAck(client)] = <<Ack>>
  BY <1>3 DEF Leg
<1>7. queue'[TypeCmd(client)] # << >> =>
       /\ Attached(clientQid[client])'
       /\ \/ /\ clientPc'[client] = "wait" /\ asked'[client] # << >>
             /\ queue'[TypeCmd(client)] = <<<<Opcode(client), LastAsked(client)'>>>>
          \/ /\ clientPc'[client] = "destroy"
             /\ queue'[TypeCmd(client)] = <<<<CmdTerminate>>>>
  BY <1>3, <1>4 DEF Leg
<1>. QED
  BY <1>1, <1>5, <1>6, <1>7 DEF Leg

(* When a queue goes, the messages of every leg go with it; a server may    *)
(* still work.                                                              *)
LEMMA LegOfRemovedQueue ==
  ASSUME ClientsTypeOK, RemoveQueue, NEW client \in Client, ClientPhase(client), Leg(client),
         Works(client)' => Works(client) /\ ServerQid(client)' = ServerQid(client),
         \/ clientPc'[client] = clientPc[client]
         \/ clientPc[client] = "destroy" /\ clientPc'[client] = "exited",
         clientQid'[client] = clientQid[client], asked'[client] = asked[client]
  PROVE  ClientPhase(client)' /\ Leg(client)'
<1>1. ClientPhase(client)'
  BY DEF ClientPhase
<1>2. queue'[TypeCmd(client)] = << >> /\ queue'[TypeAck(client)] = << >> /\ qid' = NoQueue
  BY RemoveQueueEffect, TypesOfClients DEF ClientsTypeOK
<1>3. ~Attached(clientQid[client])'
  BY <1>2 DEF Attached
<1>. QED
  BY <1>1, <1>2, <1>3 DEF Leg, LegIdle

(* A client that neither waits nor has left has an idle leg.                *)
LEMMA LegIdleAtTheInput ==
  ASSUME NEW client \in Client, Leg(client),
         clientPc[client] \in {"off", "prompt", "send", "terminate"}
  PROVE  LegIdle(client) /\ ~Works(client)
BY DEF Leg, LegIdle

(* What a client and its user do keeps both legs in order.                  *)
LEMMA LegsClient ==
  ASSUME LegsInv, NEW client \in Client, ClientStep(client) \/ UserStep(client),
         UNCHANGED <<radioVars, spectrumVars>>, NEW other \in Client
  PROVE  ClientPhase(other)' /\ Leg(other)'
<1>0. /\ ClientsTypeOK /\ QueueTypeOK
      /\ ClientPhase(client) /\ Leg(client) /\ ClientPhase(other) /\ Leg(other)
      /\ clientPc \in [Client -> {"off", "prompt", "send", "wait", "terminate",
                                  "destroy", "exited"}]
      /\ clientQid \in [Client -> 0 .. lastId] /\ clientQid[client] \in 0 .. lastId
      /\ value \in [Client -> Int] /\ value[client] \in Int
      /\ asked \in [Client -> Seq(Int)] /\ asked[client] \in Seq(Int)
      /\ lastId \in Nat
  BY DEF LegsInv, ClientsTypeOK, QueueTypeOK
<1>1. \A c \in Client : Works(c)' = Works(c) /\ ServerQid(c)' = ServerQid(c)
  BY DEF Works, ServerQid, radioVars, spectrumVars
<1>2. ASSUME client # other
      PROVE  /\ clientPc'[other] = clientPc[other]
             /\ clientQid'[other] = clientQid[other]
             /\ asked'[other] = asked[other]
  BY <1>0, <1>2 DEF ClientStep, UserStep, LaunchClient, SendCommand, WaitForServerAck,
     SendTerminateCommand, DestroyQueue, KeyMeasure, KeyExit, EndOfInput, Goes
<1>3. CASE UserStep(client)
  <2>1. clientPc[client] = "prompt" /\ clientPc'[client] \in {"send", "terminate", "destroy"}
    BY <1>0, <1>3 DEF UserStep, KeyMeasure, KeyExit, EndOfInput, Goes
  <2>2. UNCHANGED <<queue, qid, clientQid, asked>>
    BY <1>3 DEF UserStep, KeyMeasure, KeyExit, EndOfInput, queueVars
  <2>3. CASE client = other
    BY <1>0, <1>1, <2>1, <2>2, <2>3, LegIdleAtTheInput DEF Leg, LegIdle, ClientPhase
  <2>4. CASE client # other
    BY <1>0, <1>1, <1>2, <2>2, <2>4, LegKept DEF QueueStaysOrIsNew
  <2>. QED
    BY <2>3, <2>4
<1>4. CASE LaunchClient(client)
  <2>1. clientPc[client] = "off" /\ UNCHANGED asked
    BY <1>4 DEF LaunchClient, Goes
  <2>2. CASE OpenQueue /\ Goes(client, "off", "prompt")
             /\ clientQid' = [clientQid EXCEPT ![client] = OpenedId]
    <3>1. queue' = queue /\ OpenedId # NoQueue /\ QueueStaysOrIsNew
      BY <1>0, <2>2, OpenQueueEffect DEF QueueStaysOrIsNew, NoQueue
    <3>2. clientPc'[client] = "prompt" /\ clientQid'[client] = OpenedId
      BY <1>0, <2>2 DEF Goes
    <3>3. CASE client = other
      BY <1>0, <1>1, <2>1, <3>1, <3>2, <3>3, LegIdleAtTheInput DEF Leg, LegIdle, ClientPhase
    <3>4. CASE client # other
      BY <1>0, <1>1, <1>2, <3>1, <3>4, LegKept
    <3>. QED
      BY <3>3, <3>4
  <2>3. CASE OpenFails /\ Goes(client, "off", "exited") /\ UNCHANGED clientQid
    <3>1. UNCHANGED <<queue, qid>> /\ clientPc'[client] = "exited"
      BY <1>0, <2>3 DEF OpenFails, queueVars, Goes
    <3>2. CASE client = other
      BY <1>0, <1>1, <2>1, <3>1, <3>2, LegIdleAtTheInput DEF Leg, LegIdle, ClientPhase
    <3>3. CASE client # other
      BY <1>0, <1>1, <1>2, <3>1, <3>3, LegKept DEF QueueStaysOrIsNew
    <3>. QED
      BY <3>2, <3>3
  <2>. QED
    BY <1>4, <2>2, <2>3 DEF LaunchClient
<1>5. CASE SendCommand(client)
  <2>1. clientPc[client] = "send" /\ UNCHANGED clientQid
    BY <1>5 DEF SendCommand, Goes
  <2>2. LegIdle(client) /\ ~Works(client)
    BY <1>0, <2>1, LegIdleAtTheInput
  <2>3. CASE /\ Goes(client, "send", "wait")
             /\ SendData(clientQid[client], TypeCmd(client), <<Opcode(client), value[client]>>)
             /\ asked' = [asked EXCEPT ![client] = Append(@, value[client])]
    <3>1. /\ Attached(clientQid[client]) /\ qid' = qid
          /\ queue'[TypeCmd(client)]
               = Append(queue[TypeCmd(client)], <<Opcode(client), value[client]>>)
          /\ \A type \in MessageType : type # TypeCmd(client) => queue'[type] = queue[type]
      <4>1. TypeCmd(client) \in MessageType /\ <<Opcode(client), value[client]>> \in Body
        BY <1>0, TypesOfClients, ClientCommandIsTyped
      <4>. QED
        BY <1>0, <2>3, <4>1, SendDataEffect
    <3>2. CASE client = other
      <4>1. clientPc'[client] = "wait" /\ asked'[client] = Append(asked[client], value[client])
        BY <1>0, <2>3 DEF Goes
      <4>2. asked'[client] # << >> /\ LastAsked(client)' = value[client]
        <5>1. /\ Append(asked[client], value[client]) # << >>
              /\ Append(asked[client], value[client])[Len(Append(asked[client], value[client]))]
                   = value[client]
          <6>1. asked[client] \in Seq(Int) /\ value[client] \in Int
            BY <1>0
          <6>. QED
            BY <6>1, LastAppended
        <5>. QED
          BY <4>1, <5>1 DEF LastAsked
      <4>3. /\ queue'[TypeCmd(client)] = <<<<Opcode(client), value[client]>>>>
            /\ queue'[TypeAck(client)] = << >>
        BY <2>2, <3>1, TypesOfClients DEF LegIdle
      <4>. QED
        BY <1>0, <1>1, <2>1, <2>2, <3>1, <3>2, <4>1, <4>2, <4>3 DEF Leg, ClientPhase, Attached
    <3>3. CASE client # other
      <4>1. /\ queue'[TypeCmd(other)] = queue[TypeCmd(other)]
            /\ queue'[TypeAck(other)] = queue[TypeAck(other)]
        BY <3>1, <3>3, TypesOfClients
      <4>. QED
        BY <1>0, <1>1, <1>2, <3>1, <3>3, <4>1, LegKept DEF QueueStaysOrIsNew
    <3>. QED
      BY <3>2, <3>3
  <2>4. CASE Goes(client, "send", "destroy") /\ SendDataFails(clientQid[client]) /\ UNCHANGED asked
    <3>1. UNCHANGED <<queue, qid>> /\ clientPc'[client] = "destroy"
      BY <1>0, <2>4 DEF SendDataFails, queueVars, Goes
    <3>2. CASE client = other
      BY <1>0, <1>1, <2>1, <2>2, <2>4, <3>1, <3>2 DEF Leg, LegIdle, ClientPhase
    <3>3. CASE client # other
      BY <1>0, <1>1, <1>2, <3>1, <3>3, LegKept DEF QueueStaysOrIsNew
    <3>. QED
      BY <3>2, <3>3
  <2>. QED
    BY <1>5, <2>3, <2>4 DEF SendCommand
<1>6. CASE WaitForServerAck(client)
  <2>1. clientPc[client] = "wait" /\ UNCHANGED <<clientQid, asked>>
    BY <1>6 DEF WaitForServerAck, Goes
  <2>2. CASE ReceiveData(clientQid[client], TypeAck(client)) /\ Goes(client, "wait", "prompt")
    <3>1. /\ Attached(clientQid[client]) /\ qid' = qid /\ queue[TypeAck(client)] # << >>
          /\ queue'[TypeAck(client)] = Tail(queue[TypeAck(client)])
          /\ \A type \in MessageType : type # TypeAck(client) => queue'[type] = queue[type]
      BY <1>0, <2>2, ReceiveDataEffect, TypesOfClients
    <3>2. CASE client = other
      <4>1. queue[TypeAck(client)] = <<Ack>> /\ queue[TypeCmd(client)] = << >> /\ ~Works(client)
        BY <1>0, <3>1 DEF Leg, LegIdle
      <4>2. queue'[TypeAck(client)] = << >> /\ queue'[TypeCmd(client)] = << >>
        BY <3>1, <4>1, TailOfOne, TypesOfClients
      <4>3. clientPc'[client] = "prompt"
        BY <1>0, <2>2 DEF Goes
      <4>. QED
        BY <1>0, <1>1, <2>1, <3>2, <4>1, <4>2, <4>3 DEF Leg, LegIdle, ClientPhase
    <3>3. CASE client # other
      <4>1. /\ queue'[TypeCmd(other)] = queue[TypeCmd(other)]
            /\ queue'[TypeAck(other)] = queue[TypeAck(other)]
        BY <3>1, <3>3, TypesOfClients
      <4>. QED
        BY <1>0, <1>1, <1>2, <3>1, <3>3, <4>1, LegKept DEF QueueStaysOrIsNew
    <3>. QED
      BY <3>2, <3>3
  <2>3. CASE ReceiveDataFails(clientQid[client]) /\ Goes(client, "wait", "destroy")
    <3>1. ~Attached(clientQid[client]) /\ UNCHANGED <<queue, qid>> /\ clientPc'[client] = "destroy"
      BY <1>0, <2>3 DEF ReceiveDataFails, queueVars, Goes
    <3>2. CASE client = other
      <4>1. queue[TypeCmd(client)] = << >> /\ queue[TypeAck(client)] = << >>
        BY <1>0, <3>1 DEF Leg
      <4>. QED
        BY <1>0, <1>1, <2>1, <3>1, <3>2, <4>1 DEF Leg, LegIdle, ClientPhase, Attached
    <3>3. CASE client # other
      BY <1>0, <1>1, <1>2, <3>1, <3>3, LegKept DEF QueueStaysOrIsNew
    <3>. QED
      BY <3>2, <3>3
  <2>. QED
    BY <1>6, <2>2, <2>3 DEF WaitForServerAck
<1>7. CASE SendTerminateCommand(client)
  <2>1. /\ clientPc[client] = "terminate" /\ UNCHANGED <<clientQid, asked>>
        /\ clientPc'[client] = "destroy"
    BY <1>0, <1>7 DEF SendTerminateCommand, Goes
  <2>2. LegIdle(client) /\ ~Works(client)
    BY <1>0, <2>1, LegIdleAtTheInput
  <2>3. CASE SendData(clientQid[client], TypeCmd(client), <<CmdTerminate>>)
    <3>1. /\ Attached(clientQid[client]) /\ qid' = qid
          /\ queue'[TypeCmd(client)] = Append(queue[TypeCmd(client)], <<CmdTerminate>>)
          /\ \A type \in MessageType : type # TypeCmd(client) => queue'[type] = queue[type]
      <4>1. QueueTypeOK
        BY <1>0
      <4>. QED
        BY <4>1, <2>3, SendDataEffect, TypesOfClients, TerminateIsTyped
    <3>2. CASE client = other
      <4>1. queue'[TypeCmd(client)] = <<<<CmdTerminate>>>> /\ queue'[TypeAck(client)] = << >>
        BY <2>2, <3>1, TypesOfClients DEF LegIdle
      <4>. QED
        BY <1>0, <1>1, <2>1, <2>2, <3>1, <3>2, <4>1 DEF Leg, ClientPhase, Attached
    <3>3. CASE client # other
      <4>1. /\ queue'[TypeCmd(other)] = queue[TypeCmd(other)]
            /\ queue'[TypeAck(other)] = queue[TypeAck(other)]
        BY <3>1, <3>3, TypesOfClients
      <4>. QED
        BY <1>0, <1>1, <1>2, <3>1, <3>3, <4>1, LegKept DEF QueueStaysOrIsNew
    <3>. QED
      BY <3>2, <3>3
  <2>4. CASE SendDataFails(clientQid[client])
    <3>1. UNCHANGED <<queue, qid>>
      BY <2>4 DEF SendDataFails, queueVars
    <3>2. CASE client = other
      BY <1>0, <1>1, <2>1, <2>2, <3>1, <3>2 DEF Leg, LegIdle, ClientPhase
    <3>3. CASE client # other
      BY <1>0, <1>1, <1>2, <3>1, <3>3, LegKept DEF QueueStaysOrIsNew
    <3>. QED
      BY <3>2, <3>3
  <2>. QED
    BY <1>7, <2>3, <2>4 DEF SendTerminateCommand
<1>8. CASE DestroyQueue(client)
  <2>1. /\ clientPc[client] = "destroy" /\ UNCHANGED <<clientQid, asked>>
        /\ clientPc'[client] = "exited"
    BY <1>0, <1>8 DEF DestroyQueue, Goes
  <2>2. CASE Attached(clientQid[client]) /\ RemoveQueue
    BY <1>0, <1>1, <1>2, <2>1, <2>2, LegOfRemovedQueue
  <2>3. CASE ~Attached(clientQid[client]) /\ UNCHANGED queueVars
    <3>1. UNCHANGED <<queue, qid>>
      BY <2>3 DEF queueVars
    <3>2. CASE client = other
      <4>1. queue[TypeCmd(client)] = << >> /\ queue[TypeAck(client)] = << >>
        BY <1>0, <2>3 DEF Leg
      <4>. QED
        BY <1>0, <1>1, <2>1, <2>3, <3>1, <3>2, <4>1 DEF Leg, LegIdle, ClientPhase, Attached
    <3>3. CASE client # other
      BY <1>0, <1>1, <1>2, <3>1, <3>3, LegKept DEF QueueStaysOrIsNew
    <3>. QED
      BY <3>2, <3>3
  <2>. QED
    BY <1>8, <2>2, <2>3 DEF DestroyQueue, Destroy
<1>. QED
  BY <1>3, <1>4, <1>5, <1>6, <1>7, <1>8 DEF ClientStep

(* What the servers make of the commands of their clients.                  *)
LEMMA DecodeOfClientCommands ==
  /\ RadioDecode(<<CmdTerminate>>) = "exited"
  /\ SpectrumDecode(<<CmdTerminate>>) = "exited"
  /\ \A n \in Int : /\ RadioDecode(<<Opcode("radioClient"), n>>) = "send"
                    /\ SpectrumDecode(<<Opcode("spectrumClient"), n>>) = "capture"
BY DEF RadioDecode, SpectrumDecode, Opcode, CmdTerminate, RadioServerCmdSetIfGain,
   SpectrumServerCmdComputePower

(* The last value a client sent is a number.                                *)
LEMMA LastAskedIsInt ==
  ASSUME ClientsTypeOK, NEW client \in Client, asked[client] # << >>
  PROVE  LastAsked(client) \in Int
<1>1. asked[client] \in Seq(Int)
  BY DEF ClientsTypeOK
<1>. QED
  BY <1>1, LastOfSequence DEF LastAsked

(* A server that takes a command works on it while the client waits; one    *)
(* that takes the terminate command works no more.                          *)
LEMMA LegWhenTaken ==
  ASSUME ClientsTypeOK, NEW client \in Client, ClientPhase(client), Leg(client),
         ReceiveData(ServerQid(client), TypeCmd(client)), UNCHANGED clientVars,
         ServerQid(client)' = ServerQid(client),
         Received(TypeCmd(client)) = <<CmdTerminate>> => ~Works(client)'
  PROVE  ClientPhase(client)' /\ Leg(client)'
<1>1. ClientPhase(client)' /\ LastAsked(client)' = LastAsked(client)
  BY DEF ClientPhase, LastAsked, clientVars
<1>2. /\ Attached(ServerQid(client)) /\ qid' = qid /\ queue[TypeCmd(client)] # << >>
      /\ queue'[TypeCmd(client)] = Tail(queue[TypeCmd(client)])
      /\ queue'[TypeAck(client)] = queue[TypeAck(client)]
  BY ReceiveDataEffect, TypesOfClients DEF ClientsTypeOK
<1>3. Attached(clientQid[client]) /\ queue[TypeAck(client)] = << >>
  BY <1>2 DEF Leg
<1>4. LegIdle(client)'
  BY <1>2, <1>3, TailOfOne DEF Leg, LegIdle
<1>5. CASE clientPc[client] = "wait" /\ asked[client] # << >>
  BY <1>1, <1>2, <1>3, <1>4, <1>5 DEF Leg, LegIdle, Attached, clientVars
<1>6. CASE queue[TypeCmd(client)] = <<<<CmdTerminate>>>>
  <2>1. Received(TypeCmd(client)) = <<CmdTerminate>>
    BY <1>6 DEF Received
  <2>. QED
    BY <1>4, <1>1, <2>1 DEF Leg, LegIdle
<1>. QED
  BY <1>2, <1>5, <1>6 DEF Leg

(* The acknowledgement ends the work, and the client still waits for it.    *)
LEMMA LegWhenAcknowledged ==
  ASSUME ClientsTypeOK, NEW client \in Client, ClientPhase(client), Leg(client),
         Works(client), SendData(ServerQid(client), TypeAck(client), Ack),
         UNCHANGED clientVars, ~Works(client)'
  PROVE  ClientPhase(client)' /\ Leg(client)'
<1>1. ClientPhase(client)' /\ LastAsked(client)' = LastAsked(client)
  BY DEF ClientPhase, LastAsked, clientVars
<1>2. /\ Attached(ServerQid(client)) /\ qid' = qid
      /\ queue'[TypeAck(client)] = Append(queue[TypeAck(client)], Ack)
      /\ queue'[TypeCmd(client)] = queue[TypeCmd(client)]
  <2>1. QueueTypeOK /\ TypeAck(client) \in MessageType /\ TypeCmd(client) \in MessageType
        /\ TypeCmd(client) # TypeAck(client) /\ Ack \in Body
    BY TypesOfClients, MessagesAreTyped DEF ClientsTypeOK
  <2>. QED
    BY <2>1, SendDataEffect
<1>3. /\ ServerQid(client) = clientQid[client] /\ asked[client] # << >>
      /\ clientPc[client] = "wait" /\ LegIdle(client)
  BY <1>2 DEF Leg
<1>4. queue'[TypeAck(client)] = <<Ack>> /\ queue'[TypeCmd(client)] = << >>
  BY <1>2, <1>3 DEF LegIdle
<1>. QED
  BY <1>1, <1>2, <1>3, <1>4 DEF Leg, Attached, clientVars

(* What happens to the queue between a server and its client does not touch *)
(* the other client's leg.                                                  *)
LEMMA OtherLegKept ==
  ASSUME LegsInv, NEW client \in Client, NEW other \in Client, other # client,
         UNCHANGED clientVars,
         Works(other)' = Works(other), ServerQid(other)' = ServerQid(other),
         \/ UNCHANGED queueVars
         \/ OpenQueue
         \/ ReceiveData(ServerQid(client), TypeCmd(client))
         \/ SendData(ServerQid(client), TypeAck(client), Ack)
  PROVE  ClientPhase(other)' /\ Leg(other)'
<1>1. ClientsTypeOK /\ QueueTypeOK /\ ClientPhase(other) /\ Leg(other)
  BY DEF LegsInv, ClientsTypeOK
<1>2. /\ clientPc'[other] = clientPc[other] /\ clientQid'[other] = clientQid[other]
      /\ asked'[other] = asked[other]
  BY DEF clientVars
<1>3. /\ queue'[TypeCmd(other)] = queue[TypeCmd(other)]
      /\ queue'[TypeAck(other)] = queue[TypeAck(other)]
      /\ QueueStaysOrIsNew
  <2>1. CASE UNCHANGED queueVars
    BY <2>1 DEF queueVars, QueueStaysOrIsNew
  <2>2. CASE OpenQueue
    BY <1>1, <2>2, OpenQueueEffect DEF QueueStaysOrIsNew
  <2>3. CASE ReceiveData(ServerQid(client), TypeCmd(client))
    <3>1. /\ \A type \in MessageType : type # TypeCmd(client) => queue'[type] = queue[type]
          /\ qid' = qid
      BY <1>1, <2>3, ReceiveDataEffect, TypesOfClients
    <3>. QED
      BY <3>1, TypesOfClients DEF QueueStaysOrIsNew
  <2>4. CASE SendData(ServerQid(client), TypeAck(client), Ack)
    <3>1. /\ \A type \in MessageType : type # TypeAck(client) => queue'[type] = queue[type]
          /\ qid' = qid
      BY <1>1, <2>4, SendDataEffect, TypesOfClients, MessagesAreTyped
    <3>. QED
      BY <3>1, TypesOfClients DEF QueueStaysOrIsNew
  <2>. QED
    BY <2>1, <2>2, <2>3, <2>4
<1>. QED
  BY <1>1, <1>2, <1>3, LegKept

(* The radio server keeps its client's leg in order.                        *)
LEMMA LegsOfRadioServer ==
  ASSUME LegsInv, RadioServing, NEW other \in Client
  PROVE  ClientPhase(other)' /\ Leg(other)'
<1>. DEFINE client == "radioClient"
<1>0. /\ ClientsTypeOK /\ QueueTypeOK /\ RadioPhase /\ client \in Client
      /\ ClientPhase(client) /\ Leg(client)
      /\ ServerQid(client) = radioQid /\ ServerQid(client)' = radioQid'
      /\ UNCHANGED clientVars /\ RadioServerStep /\ UNCHANGED spectrumVars
      /\ TypeCmd(client) = RadioServerTypeCmd /\ TypeAck(client) = RadioServerTypeAck
  BY DEF LegsInv, ClientsTypeOK, Client, ServerQid, RadioServing, TypeCmd, TypeAck
<1>1. Works(client) <=> radioQid # NoQueue /\ radioPc \in {"send", "receive", "ack"}
  BY DEF Works, ServerQid
<1>2. Works(client)' <=> radioQid' # NoQueue /\ radioPc' \in {"send", "receive", "ack"}
  BY DEF Works, ServerQid
<1>3. ASSUME other # client
      PROVE  Works(other)' = Works(other) /\ ServerQid(other)' = ServerQid(other)
  BY <1>0, <1>3 DEF Works, ServerQid, spectrumVars, Client
<1>4. /\ clientPc'[client] = clientPc[client] /\ clientQid'[client] = clientQid[client]
      /\ asked'[client] = asked[client]
  BY <1>0 DEF clientVars
<1>. HIDE DEF client
<1>5. CASE \/ LaunchRadioServer \/ RadioSend \/ RadioRead \/ RadioQuiet
           \/ RadioOpensQueue /\ OpenFails /\ radioPc' = "exited" /\ UNCHANGED radioQid
           \/ RadioReceive /\ ReceiveDataFails(radioQid) /\ radioPc' = "exited"
           \/ RadioAck /\ SendDataFails(radioQid) /\ radioPc' = "exited"
  <2>1. UNCHANGED queueVars /\ radioQid' = radioQid
    BY <1>5 DEF LaunchRadioServer, RadioSend, RadioRead, RadioQuiet, RadioReceive, RadioAck,
       OpenFails, ReceiveDataFails, SendDataFails, radioVars
  <2>2. Works(client)' => Works(client)
    BY <1>0, <1>1, <1>2, <1>5, <2>1 DEF LaunchRadioServer, RadioSend, RadioRead, RadioQuiet,
       radioVars, RadioPhase
  <2>3. CASE other = client
    BY <1>0, <1>4, <2>1, <2>2, <2>3, LegKept DEF queueVars, QueueStaysOrIsNew
  <2>4. CASE other # client
    BY <1>0, <1>3, <2>1, <2>4, OtherLegKept
  <2>. QED
    BY <2>3, <2>4
<1>6. CASE RadioOpensQueue /\ OpenQueue /\ radioPc' = "wait"
  <2>1. CASE other = client
    <3>1. queue' = queue /\ QueueStaysOrIsNew
      BY <1>0, <1>6, OpenQueueEffect DEF QueueStaysOrIsNew
    <3>. QED
      BY <1>0, <1>2, <1>4, <1>6, <2>1, <3>1, LegKept
  <2>2. CASE other # client
    BY <1>0, <1>3, <1>6, <2>2, OtherLegKept
  <2>. QED
    BY <2>1, <2>2
<1>7. CASE /\ RadioReceive /\ ReceiveData(radioQid, RadioServerTypeCmd)
           /\ radioPc' = RadioDecode(Received(RadioServerTypeCmd))
  <2>1. CASE other = client
    <3>1. Received(TypeCmd(client)) = <<CmdTerminate>> => ~Works(client)'
      BY <1>0, <1>2, <1>7, DecodeOfClientCommands
    <3>2. radioQid' = radioQid
      BY <1>7 DEF RadioReceive
    <3>. QED
      BY <1>0, <1>7, <2>1, <3>1, <3>2, LegWhenTaken
  <2>2. CASE other # client
    BY <1>0, <1>3, <1>7, <2>2, OtherLegKept
  <2>. QED
    BY <2>1, <2>2
<1>8. CASE RadioAck /\ SendData(radioQid, RadioServerTypeAck, Ack) /\ radioPc' = "wait"
  <2>1. CASE other = client
    <3>1. Works(client) /\ ~Works(client)'
      BY <1>0, <1>1, <1>2, <1>8 DEF RadioAck, RadioPhase
    <3>. QED
      BY <1>0, <1>8, <2>1, <3>1, LegWhenAcknowledged
  <2>2. CASE other # client
    BY <1>0, <1>3, <1>8, <2>2, OtherLegKept
  <2>. QED
    BY <2>1, <2>2
<1>. QED
  BY <1>0, <1>5, <1>6, <1>7, <1>8 DEF RadioServerStep, RadioOpensQueue, RadioReceive, RadioAck

(* The spectrum server keeps its client's leg in order.                     *)
LEMMA LegsOfSpectrumServer ==
  ASSUME LegsInv, SpectrumServing, NEW other \in Client
  PROVE  ClientPhase(other)' /\ Leg(other)'
<1>. DEFINE client == "spectrumClient"
<1>0. /\ ClientsTypeOK /\ QueueTypeOK /\ client \in Client
      /\ specPc \in {"capture", "ack"} => specQid # NoQueue
      /\ ClientPhase(client) /\ Leg(client)
      /\ ServerQid(client) = specQid /\ ServerQid(client)' = specQid'
      /\ UNCHANGED clientVars /\ SpectrumServerStep /\ UNCHANGED radioVars
      /\ TypeCmd(client) = SpectrumServerTypeCmd /\ TypeAck(client) = SpectrumServerTypeAck
  BY DEF LegsInv, ClientsTypeOK, Client, ServerQid, SpectrumServing, TypeCmd, TypeAck
<1>1. Works(client) <=> specQid # NoQueue /\ specPc \in {"capture", "ack"}
  BY DEF Works, ServerQid
<1>2. Works(client)' <=> specQid' # NoQueue /\ specPc' \in {"capture", "ack"}
  BY DEF Works, ServerQid
<1>3. ASSUME other # client
      PROVE  Works(other)' = Works(other) /\ ServerQid(other)' = ServerQid(other)
  BY <1>0, <1>3 DEF Works, ServerQid, radioVars, Client
<1>4. /\ clientPc'[client] = clientPc[client] /\ clientQid'[client] = clientQid[client]
      /\ asked'[client] = asked[client]
  BY <1>0 DEF clientVars
<1>. HIDE DEF client
<1>5. CASE \/ LaunchSpectrumServer /\ OpenFails /\ specPc' = "exited" /\ UNCHANGED specQid
           \/ SpectrumReceive /\ ReceiveDataFails(specQid) /\ specPc' = "exited"
           \/ StreamSamples \/ Measure \/ PipelineFails
           \/ SpectrumAck /\ SendDataFails(specQid) /\ specPc' = "exited"
  <2>1. UNCHANGED queueVars /\ specQid' = specQid
    BY <1>5 DEF LaunchSpectrumServer, SpectrumReceive, StreamSamples, Measure, PipelineFails,
       SpectrumAck, OpenFails, ReceiveDataFails, SendDataFails
  <2>2. Works(client)' => Works(client)
    BY <1>0, <1>1, <1>2, <1>5, <2>1 DEF StreamSamples, Measure, PipelineFails
  <2>3. CASE other = client
    BY <1>0, <1>4, <2>1, <2>2, <2>3, LegKept DEF queueVars, QueueStaysOrIsNew
  <2>4. CASE other # client
    BY <1>0, <1>3, <2>1, <2>4, OtherLegKept
  <2>. QED
    BY <2>3, <2>4
<1>6. CASE LaunchSpectrumServer /\ OpenQueue /\ specPc' = "wait"
  <2>1. CASE other = client
    <3>1. queue' = queue /\ QueueStaysOrIsNew
      BY <1>0, <1>6, OpenQueueEffect DEF QueueStaysOrIsNew
    <3>. QED
      BY <1>0, <1>2, <1>4, <1>6, <2>1, <3>1, LegKept
  <2>2. CASE other # client
    BY <1>0, <1>3, <1>6, <2>2, OtherLegKept
  <2>. QED
    BY <2>1, <2>2
<1>7. CASE /\ SpectrumReceive /\ ReceiveData(specQid, SpectrumServerTypeCmd)
           /\ specPc' = SpectrumDecode(Received(SpectrumServerTypeCmd))
  <2>1. CASE other = client
    <3>1. Received(TypeCmd(client)) = <<CmdTerminate>> => ~Works(client)'
      BY <1>0, <1>2, <1>7, DecodeOfClientCommands
    <3>2. specQid' = specQid
      BY <1>7 DEF SpectrumReceive
    <3>. QED
      BY <1>0, <1>7, <2>1, <3>1, <3>2, LegWhenTaken
  <2>2. CASE other # client
    BY <1>0, <1>3, <1>7, <2>2, OtherLegKept
  <2>. QED
    BY <2>1, <2>2
<1>8. CASE SpectrumAck /\ SendData(specQid, SpectrumServerTypeAck, Ack) /\ specPc' = "wait"
  <2>1. CASE other = client
    <3>1. Works(client) /\ ~Works(client)'
      BY <1>0, <1>1, <1>2, <1>8 DEF SpectrumAck
    <3>. QED
      BY <1>0, <1>8, <2>1, <3>1, LegWhenAcknowledged
  <2>2. CASE other # client
    BY <1>0, <1>3, <1>8, <2>2, OtherLegKept
  <2>. QED
    BY <2>1, <2>2
<1>. QED
  BY <1>0, <1>5, <1>6, <1>7, <1>8 DEF SpectrumServerStep, LaunchSpectrumServer,
     SpectrumReceive, SpectrumAck

(* Every step keeps both legs in order.                                     *)
LEMMA LegsStep == LegsInv /\ [Next]_vars => LegsInv'
<1>. SUFFICES ASSUME LegsInv, [Next]_vars PROVE LegsInv'
  OBVIOUS
<1>0. /\ ClientsTypeOK /\ QueueTypeOK /\ LinkTypeOK /\ RadioTypeOK /\ SpectrumTypeOK /\ RadioPhase
      /\ specPc \in {"capture", "ack"} => specQid # NoQueue
  BY DEF LegsInv, ClientsTypeOK
<1>1. ClientsTypeOK'
  BY <1>0, ClientsTypeStep
<1>2. RadioPhase'
  <2>1. CASE RadioServing
    BY <1>0, <2>1, RadioPhaseKept DEF RadioServing
  <2>2. CASE UNCHANGED radioVars
    BY <1>0, <2>2 DEF radioVars, RadioPhase
  <2>. QED
    BY <2>1, <2>2 DEF Next, ClientsServing, UsersServing, SpectrumServing, DiagsServing, vars
<1>3. (specPc \in {"capture", "ack"} => specQid # NoQueue)'
  <2>1. CASE SpectrumServing
    BY <1>0, <2>1 DEF SpectrumServing, SpectrumServerStep, LaunchSpectrumServer, SpectrumReceive,
       StreamSamples, Measure, PipelineFails, SpectrumAck, ReceiveData, ReceiveDataFails, Attached
  <2>2. CASE UNCHANGED spectrumVars
    BY <1>0, <2>2 DEF spectrumVars
  <2>. QED
    BY <2>1, <2>2 DEF Next, ClientsServing, UsersServing, RadioServing, DiagsServing, vars
<1>4. ASSUME NEW other \in Client PROVE ClientPhase(other)' /\ Leg(other)'
  <2>1. CASE ClientsServing \/ UsersServing
    BY <1>4, <2>1, LegsClient DEF ClientsServing, UsersServing
  <2>2. CASE RadioServing
    BY <1>4, <2>2, LegsOfRadioServer
  <2>3. CASE SpectrumServing
    BY <1>4, <2>3, LegsOfSpectrumServer
  <2>4. CASE DiagsServing \/ UNCHANGED vars
    <3>1. UNCHANGED <<queueVars, radioVars, spectrumVars, clientVars>>
      BY <2>4 DEF DiagsServing, vars
    <3>2. Works(other)' = Works(other) /\ ServerQid(other)' = ServerQid(other)
      BY <3>1 DEF Works, ServerQid, radioVars, spectrumVars
    <3>. QED
      BY <1>0, <1>4, <3>1, <3>2, LegKept DEF LegsInv, queueVars, clientVars, QueueStaysOrIsNew
  <2>. QED
    BY <2>1, <2>2, <2>3, <2>4 DEF Next
<1>. QED
  BY <1>1, <1>2, <1>3, <1>4 DEF LegsInv

(* An acknowledgement that waits is the one a client waits for, on the      *)
(* queue it waits on, whatever fails and whoever takes the queue away.      *)
THEOREM AckIsAwaitedHolds == Spec => []AckIsAwaited
<1>1. LegsInv => AckIsAwaited
  <2>. SUFFICES ASSUME LegsInv, NEW client \in Client, queue[TypeAck(client)] # << >>
                PROVE  /\ clientPc[client] = "wait" /\ clientQid[client] = qid
                       /\ Len(queue[TypeAck(client)]) = 1
    BY DEF AckIsAwaited
  <2>1. /\ Attached(clientQid[client]) /\ clientPc[client] = "wait"
        /\ queue[TypeAck(client)] = <<Ack>>
    BY DEF LegsInv, Leg
  <2>. QED
    BY <2>1 DEF Attached
<1>. QED
  BY <1>1, LegsInit, LegsStep, PTL DEF Spec

-----------------------------------------------------------------------------
(* The gain at the prompt.                                                  *)

(* A command or an acknowledgement is new only where a client sends.        *)
LEMMA ClientMessages ==
  ASSUME LegsInv, NEW client \in Client, ClientStep(client) \/ UserStep(client),
         NEW other \in Client
  PROVE  /\ queue'[TypeAck(other)] # << >> => queue[TypeAck(other)] # << >>
         /\ \/ queue'[TypeCmd(other)] # << >> => queue[TypeCmd(other)] # << >>
            \/ other = client /\ (SendCommand(client) \/ SendTerminateCommand(client))
<1>0. /\ QueueTypeOK /\ value[client] \in Int
  BY DEF LegsInv, ClientsTypeOK
<1>1. CASE UNCHANGED queue
  BY <1>1
<1>2. CASE RemoveQueue
  BY <1>0, <1>2, RemoveQueueEffect, TypesOfClients
<1>3. CASE ReceiveData(clientQid[client], TypeAck(client))
  <2>1. /\ \A type \in MessageType : type # TypeAck(client) => queue'[type] = queue[type]
        /\ queue[TypeAck(client)] # << >>
    BY <1>0, <1>3, ReceiveDataEffect, TypesOfClients
  <2>. QED
    BY <2>1, TypesOfClients
<1>4. CASE /\ SendCommand(client) \/ SendTerminateCommand(client)
           /\ \E body \in Body : SendData(clientQid[client], TypeCmd(client), body)
  <2>1. \A type \in MessageType : type # TypeCmd(client) => queue'[type] = queue[type]
    BY <1>0, <1>4, SendDataEffect, TypesOfClients
  <2>. QED
    BY <1>4, <2>1, TypesOfClients
<1>5. <<CmdTerminate>> \in Body /\ <<Opcode(client), value[client]>> \in Body
  BY <1>0, ClientCommandIsTyped, TerminateIsTyped
<1>. QED
  BY <1>1, <1>2, <1>3, <1>4, <1>5 DEF ClientStep, UserStep, LaunchClient, SendCommand,
     WaitForServerAck,
     SendTerminateCommand, DestroyQueue, Destroy, KeyMeasure, KeyExit, EndOfInput,
     OpenQueue, OpenFails, SendDataFails, ReceiveDataFails, queueVars

(* A client only comes back to its input, and only finds an acknowledgement *)
(* in the queue, where one was waiting or it was there already.             *)
LEMMA BackAtTheInput ==
  ASSUME LegsInv, NEW client \in Client, ClientStep(client) \/ UserStep(client),
         NEW other \in Client, asked'[other] # << >>,
         clientPc'[other] = "prompt" \/ queue'[TypeAck(other)] # << >>
  PROVE  /\ clientPc[other] = "prompt" \/ queue[TypeAck(other)] # << >>
         /\ asked'[other] = asked[other] /\ asked[other] # << >>
<1>0. /\ QueueTypeOK /\ ClientPhase(client) /\ Leg(client)
      /\ clientPc \in [Client -> {"off", "prompt", "send", "wait", "terminate",
                                  "destroy", "exited"}]
      /\ asked \in [Client -> Seq(Int)] /\ value[client] \in Int
      /\ clientQid \in [Client -> 0 .. lastId]
  BY DEF LegsInv, ClientsTypeOK
<1>1. queue'[TypeAck(other)] # << >> => queue[TypeAck(other)] # << >>
  BY ClientMessages
<1>2. CASE client # other
  <2>1. clientPc'[other] = clientPc[other] /\ asked'[other] = asked[other]
    BY <1>0, <1>2 DEF ClientStep, UserStep, LaunchClient, SendCommand, WaitForServerAck,
       SendTerminateCommand, DestroyQueue, KeyMeasure, KeyExit, EndOfInput, Goes
  <2>. QED
    BY <1>1, <2>1
<1>3. CASE client = other
  <2>1. CASE SendCommand(client)
    <3>1. clientPc[client] = "send" /\ clientPc'[client] # "prompt"
      BY <1>0, <2>1 DEF SendCommand, Goes
    <3>. QED
      BY <1>0, <1>1, <1>3, <3>1 DEF Leg
  <2>2. CASE ~SendCommand(client)
    <3>1. UNCHANGED asked
      BY <2>2 DEF ClientStep, UserStep, LaunchClient, WaitForServerAck,
         SendTerminateCommand, DestroyQueue, KeyMeasure, KeyExit, EndOfInput
    <3>2. ASSUME clientPc'[client] = "prompt"
          PROVE  clientPc[client] = "off" \/ queue[TypeAck(client)] # << >>
      BY <1>0, <2>2, <3>2 DEF ClientStep, UserStep, LaunchClient, WaitForServerAck,
         SendTerminateCommand, DestroyQueue, KeyMeasure, KeyExit, EndOfInput, Goes, ReceiveData
    <3>. QED
      BY <1>0, <1>1, <1>3, <3>1, <3>2 DEF ClientPhase
  <2>. QED
    BY <2>1, <2>2
<1>. QED
  BY <1>2, <1>3

(* What a client does while its server works changes nothing it asked for.  *)
LEMMA AskedStays ==
  ASSUME LegsInv, NEW client \in Client, ClientStep(client) \/ UserStep(client),
         NEW other \in Client, Works(other)
  PROVE  asked'[other] = asked[other]
<1>0. /\ asked \in [Client -> Seq(Int)]
      /\ clientPc[other] \in {"wait", "destroy", "exited"}
  BY DEF LegsInv, ClientsTypeOK, Leg
<1>. QED
  BY <1>0 DEF ClientStep, UserStep, LaunchClient, SendCommand, WaitForServerAck,
     SendTerminateCommand, DestroyQueue, KeyMeasure, KeyExit, EndOfInput, Goes

(* The spectrum server takes no part in the other leg.                      *)
LEMMA SpectrumLeavesRadioAck ==
  ASSUME QueueTypeOK, SpectrumServing
  PROVE  queue'[RadioServerTypeAck] = queue[RadioServerTypeAck]
<1>1. CASE UNCHANGED queue
  BY <1>1
<1>2. CASE ReceiveData(specQid, SpectrumServerTypeCmd)
  BY <1>2, ReceiveDataEffect, MessagesAreTyped, DistinctTypes
<1>3. CASE SendData(specQid, SpectrumServerTypeAck, Ack)
  BY <1>3, SendDataEffect, MessagesAreTyped, DistinctTypes
<1>. QED
  BY <1>1, <1>2, <1>3 DEF SpectrumServing, SpectrumServerStep, LaunchSpectrumServer,
     SpectrumReceive,
     StreamSamples, Measure, PipelineFails, SpectrumAck, OpenQueue, OpenFails, ReceiveDataFails,
     SendDataFails, queueVars

(* Nothing was asked at the start.                                          *)
LEMMA GainFollowsInit == Init => GainFollows
<1>. SUFFICES ASSUME Init PROVE GainFollows
  OBVIOUS
<1>1. peerUp /\ toRadio = << >> /\ asked["radioClient"] = << >> /\ radioQid = NoQueue
  BY DEF Init, LinkInit, ClientInit, RadioInit, Client
<1>2. ~Works("radioClient")
  BY <1>1 DEF Works, ServerQid
<1>. QED
  BY <1>1, <1>2 DEF GainFollows

(* The client and its user leave the radio alone.                           *)
LEMMA GainFollowsClient ==
  ASSUME GainInv, NEW client \in Client, ClientStep(client) \/ UserStep(client),
         UNCHANGED <<linkVars, diagsVars, radioVars, spectrumVars>>
  PROVE  GainFollows'
<1>0. LegsInv /\ GainFollows /\ "radioClient" \in Client
  BY DEF GainInv, Client
<1>1. /\ Works("radioClient")' <=> Works("radioClient")
      /\ UNCHANGED <<radioPc, radioQid, radioCommand, toRadio, radioGain, peerUp>>
  BY DEF Works, ServerQid, radioVars, linkVars, diagsVars
<1>2. ASSUME asked'["radioClient"] = asked["radioClient"]
      PROVE  GainSet' <=> GainSet
  BY <1>1, <1>2 DEF GainSet, LastAsked
<1>3. Works("radioClient") => LastAsked("radioClient")' = LastAsked("radioClient")
                             /\ (GainSet' <=> GainSet)
  BY <1>0, <1>2, AskedStays DEF LastAsked
<1>4. ASSUME asked'["radioClient"] # << >>,
             clientPc'["radioClient"] = "prompt" \/ queue'[RadioServerTypeAck] # << >>
      PROVE  GainSet'
  <2>1. /\ clientPc["radioClient"] = "prompt" \/ queue[RadioServerTypeAck] # << >>
        /\ asked'["radioClient"] = asked["radioClient"] /\ asked["radioClient"] # << >>
    BY <1>0, <1>4, BackAtTheInput DEF TypeAck
  <2>. QED
    BY <1>0, <1>2, <2>1 DEF GainFollows
<1>5. peerUp' /\ (toRadio' # << >> => radioPc' = "receive" /\ toRadio' = <<radioCommand'>>)
  BY <1>0, <1>1 DEF GainFollows
<1>6. Works("radioClient")' =>
        /\ radioCommand' = Command("rxifgain", LastAsked("radioClient")')
        /\ radioPc' = "receive" /\ toRadio' = << >> => GainSet'
        /\ radioPc' = "ack" => GainSet'
  BY <1>0, <1>1, <1>3 DEF GainFollows
<1>. QED
  BY <1>4, <1>5, <1>6 DEF GainFollows

(* The radio is only waited for, and only set, for the client's last value. *)
LEMMA GainFollowsRadioServer ==
  ASSUME NoLateReply, GainInv, RadioPhase', RadioServing
  PROVE  GainFollows'
<1>0. /\ ClientsTypeOK /\ QueueTypeOK /\ LinkTypeOK /\ RadioPhase /\ RadioPhase' /\ GainFollows /\ LegsInv
      /\ Leg("radioClient") /\ ClientPhase("radioClient")
      /\ UNCHANGED clientVars /\ RadioServerStep
      /\ setupStep \in 0 .. SetupLength
      /\ TypeCmd("radioClient") = RadioServerTypeCmd /\ TypeAck("radioClient") = RadioServerTypeAck
  BY DEF GainInv, LegsInv, ClientsTypeOK, Client, RadioServing, TypeCmd, TypeAck, RadioTypeOK
<1>1. Works("radioClient") <=> radioQid # NoQueue /\ radioPc \in {"send", "receive", "ack"}
  BY DEF Works, ServerQid
<1>2. Works("radioClient")' <=> radioQid' # NoQueue /\ radioPc' \in {"send", "receive", "ack"}
  BY DEF Works, ServerQid
<1>3. /\ asked' = asked /\ clientPc' = clientPc
      /\ LastAsked("radioClient")' = LastAsked("radioClient")
  BY <1>0 DEF clientVars, LastAsked
<1>4. /\ peerUp /\ (toRadio # << >> => radioPc = "receive" /\ toRadio = <<radioCommand>>)
      /\ Works("radioClient") =>
            /\ radioCommand = Command("rxifgain", LastAsked("radioClient"))
            /\ radioPc = "receive" /\ toRadio = << >> => GainSet
            /\ radioPc = "ack" => GainSet
      /\ /\ clientPc["radioClient"] = "prompt" \/ queue[RadioServerTypeAck] # << >>
         /\ asked["radioClient"] # << >>
         => GainSet /\ ~Works("radioClient")
  BY <1>0 DEF GainFollows, Leg, LegIdle
<1>5. ASSUME radioQid' = radioQid, toRadio' = toRadio, radioGain' = radioGain
      PROVE  GainSet' <=> GainSet
  BY <1>3, <1>5 DEF GainSet
<1>6. CASE LaunchRadioServer
  <2>1. /\ radioPc = "off" /\ radioQid = NoQueue /\ radioQid' = NoQueue /\ UNCHANGED <<queue, radioGain>>
    BY <1>0, <1>6 DEF LaunchRadioServer, queueVars, diagsVars, RadioPhase
  <2>2. peerUp' /\ toRadio' = toRadio /\ toRadio = << >>
    BY <1>4, <1>6, <2>1 DEF LaunchRadioServer, Connect, ConnectFails, linkVars
  <2>3. ~GainSet /\ ~Works("radioClient")'
    BY <1>2, <2>1 DEF GainSet
  <2>. QED
    BY <1>3, <1>4, <2>1, <2>2, <2>3 DEF GainFollows
<1>7. CASE RadioSend
  <2>1. /\ radioPc = "send" /\ UNCHANGED <<radioQid, radioCommand, queue, radioGain>>
        /\ toRadio = << >>
    BY <1>4, <1>7 DEF RadioSend, queueVars, diagsVars
  <2>2. /\ peerUp' /\ toRadio' = <<radioCommand'>> /\ radioPc' = "receive"
    BY <1>4, <1>7, <2>1 DEF RadioSend, SendOctets, SendRaisesSigpipe
  <2>3. Works("radioClient")' => Works("radioClient")
    BY <1>1, <1>2, <2>1
  <2>4. ~GainSet \/ Works("radioClient")
    BY <1>1, <2>1 DEF GainSet
  <2>. QED
    BY <1>3, <1>4, <2>1, <2>2, <2>3, <2>4 DEF GainFollows
<1>8. CASE RadioRead
  <2>1. UNCHANGED <<radioPc, radioQid, radioCommand, queue, radioGain, peerUp, toRadio>>
    BY <1>8 DEF RadioRead, ReadAvailable, ReadEndOfFile, radioVars, queueVars, linkVars, diagsVars
  <2>2. Works("radioClient")' => Works("radioClient")
    BY <1>1, <1>2, <2>1
  <2>. QED
    BY <1>3, <1>4, <1>5, <2>1, <2>2 DEF GainFollows
<1>9. CASE RadioQuiet
  <2>1. /\ radioPc = "receive" /\ toRadio = << >>
        /\ UNCHANGED <<radioQid, queue, radioGain, peerUp, toRadio>>
    BY <1>9 DEF RadioQuiet, SelectTimesOut, NoLateReply, queueVars, linkVars, diagsVars
  <2>2. GainSet' <=> GainSet
    BY <1>5, <2>1
  <2>3. ASSUME Works("radioClient")'
        PROVE  /\ Works("radioClient") /\ radioPc' = "ack" /\ radioCommand' = radioCommand /\ GainSet
    <3>1. radioQid # NoQueue /\ setupStep = SetupLength
      BY <1>0, <1>2, <2>1, <2>3 DEF RadioPhase
    <3>2. radioPc' = "ack" /\ radioCommand' = radioCommand
      BY <1>9, <3>1 DEF RadioQuiet, AfterResponse, SetupLength
    <3>3. Works("radioClient")
      BY <1>1, <2>1, <3>1
    <3>. QED
      BY <1>4, <2>1, <3>2, <3>3
  <2>. QED
    BY <1>3, <1>4, <2>1, <2>2, <2>3 DEF GainFollows
<1>10. CASE RadioOpensQueue
  <2>1. /\ radioPc = "open" /\ radioQid = NoQueue /\ toRadio = << >>
        /\ UNCHANGED <<queue, radioGain, peerUp, toRadio>>
    <3>1. radioPc = "open" /\ radioQid = NoQueue /\ toRadio = << >> /\ UNCHANGED <<queue, radioGain>>
      BY <1>0, <1>4, <1>10 DEF RadioOpensQueue, OpenQueue, OpenFails, queueVars, diagsVars, RadioPhase
    <3>2. peerUp' = peerUp /\ toRadio' = << >>
      BY <1>0, <1>10, <3>1, ConnectionReleased DEF RadioOpensQueue
    <3>. QED
      BY <3>1, <3>2
  <2>2. ~GainSet /\ ~Works("radioClient")'
    BY <1>2, <1>10, <2>1 DEF RadioOpensQueue, GainSet
  <2>. QED
    BY <1>3, <1>4, <2>1, <2>2 DEF GainFollows
<1>11. CASE RadioReceive
  <2>1. /\ radioPc = "wait" /\ toRadio = << >>
        /\ UNCHANGED <<radioQid, radioGain, peerUp, toRadio>>
    <3>1. radioPc = "wait" /\ toRadio = << >> /\ UNCHANGED <<radioQid, radioGain>>
      BY <1>4, <1>11 DEF RadioReceive, diagsVars
    <3>2. peerUp' = peerUp /\ toRadio' = << >>
      BY <1>0, <1>11, <3>1, ConnectionReleased DEF RadioReceive
    <3>. QED
      BY <3>1, <3>2
  <2>2. GainSet' <=> GainSet
    BY <1>5, <2>1
  <2>3. CASE ReceiveData(radioQid, RadioServerTypeCmd)
    <3>1. /\ queue[RadioServerTypeCmd] # << >>
          /\ queue'[RadioServerTypeAck] = queue[RadioServerTypeAck]
      BY <1>0, <2>3, ReceiveDataEffect, MessagesAreTyped, DistinctTypes
    <3>2. /\ queue'[RadioServerTypeAck] = << >> /\ clientPc["radioClient"] # "prompt"
          /\ \/ /\ asked["radioClient"] # << >>
                /\ queue[RadioServerTypeCmd]
                     = <<<<Opcode("radioClient"), LastAsked("radioClient")>>>>
             \/ queue[RadioServerTypeCmd] = <<<<CmdTerminate>>>>
      BY <1>0, <3>1 DEF Leg
    <3>3. /\ radioPc' = RadioDecode(Received(RadioServerTypeCmd))
          /\ radioCommand' = IF RadioDecode(Received(RadioServerTypeCmd)) = "send"
                             THEN Command("rxifgain", Received(RadioServerTypeCmd)[2])
                             ELSE radioCommand
      BY <1>11, <2>3 DEF RadioReceive, ReceiveData, ReceiveDataFails
    <3>4. ASSUME Works("radioClient")'
          PROVE  radioPc' = "send" /\ radioCommand' = Command("rxifgain", LastAsked("radioClient"))
      <4>1. Received(RadioServerTypeCmd) # <<CmdTerminate>>
        BY <1>2, <3>3, <3>4, DecodeOfClientCommands
      <4>2. /\ asked["radioClient"] # << >>
            /\ Received(RadioServerTypeCmd) = <<Opcode("radioClient"), LastAsked("radioClient")>>
        BY <3>2, <4>1 DEF Received
      <4>3. LastAsked("radioClient") \in Int
        BY <1>0, <4>2, LastAskedIsInt DEF Client
      <4>4. /\ RadioDecode(Received(RadioServerTypeCmd)) = "send"
            /\ Received(RadioServerTypeCmd)[2] = LastAsked("radioClient")
        <5>1. RadioDecode(<<Opcode("radioClient"), LastAsked("radioClient")>>) = "send"
          BY <4>3, DecodeOfClientCommands
        <5>2. <<Opcode("radioClient"), LastAsked("radioClient")>>[2] = LastAsked("radioClient")
          OBVIOUS
        <5>. QED
          BY <4>2, <5>1, <5>2
      <4>. QED
        BY <3>3, <4>4
    <3>. QED
      BY <1>3, <1>4, <2>1, <3>2, <3>4 DEF GainFollows
  <2>4. CASE ReceiveDataFails(radioQid) /\ radioPc' = "exited"
    <3>1. ~Works("radioClient")' /\ queue' = queue
      BY <1>2, <2>4 DEF ReceiveDataFails, queueVars
    <3>. QED
      BY <1>3, <1>4, <2>1, <2>2, <3>1 DEF GainFollows
  <2>. QED
    BY <1>11, <2>3, <2>4 DEF RadioReceive
<1>12. CASE RadioAck
  <2>1. /\ radioPc = "ack" /\ UNCHANGED <<radioQid, radioGain, peerUp, toRadio>>
        /\ radioPc' \in {"wait", "exited"} /\ toRadio = << >>
    <3>1. /\ radioPc = "ack" /\ UNCHANGED <<radioQid, radioGain>>
          /\ radioPc' \in {"wait", "exited"} /\ toRadio = << >>
      BY <1>4, <1>12 DEF RadioAck, diagsVars
    <3>2. peerUp' = peerUp /\ toRadio' = << >>
      BY <1>0, <1>12, <3>1, ConnectionReleased DEF RadioAck
    <3>. QED
      BY <3>1, <3>2
  <2>2. Works("radioClient") /\ ~Works("radioClient")'
    BY <1>0, <1>1, <1>2, <2>1 DEF RadioPhase
  <2>3. GainSet /\ GainSet'
    BY <1>4, <1>5, <2>1, <2>2
  <2>. QED
    BY <1>4, <2>1, <2>2, <2>3 DEF GainFollows
<1>. QED
  BY <1>0, <1>6, <1>7, <1>8, <1>9, <1>10, <1>11, <1>12 DEF RadioServerStep

(* The radio takes the gain that was sent.                                  *)
LEMMA GainFollowsDiags ==
  ASSUME GainInv, DiagsServing
  PROVE  GainFollows'
<1>0. /\ GainFollows /\ toRadio # << >> /\ peerUp' = peerUp
      /\ UNCHANGED <<queueVars, radioVars, spectrumVars, clientVars>> /\ DiagsExecute
  BY DEF GainInv, DiagsServing, DiagsExecute
<1>1. /\ toRadio = <<radioCommand>> /\ radioPc = "receive" /\ toRadio' = << >>
      /\ radioGain' = IF radioCommand.verb = "rxifgain" THEN radioCommand.value ELSE radioGain
  BY <1>0, TailOfOne DEF GainFollows, DiagsExecute
<1>2. /\ Works("radioClient")' <=> Works("radioClient")
      /\ LastAsked("radioClient")' = LastAsked("radioClient")
      /\ UNCHANGED <<radioPc, radioQid, radioCommand, queue, asked, clientPc>>
  BY <1>0 DEF Works, ServerQid, radioVars, spectrumVars, clientVars, queueVars, LastAsked
<1>3. ASSUME Works("radioClient")
      PROVE  GainSet'
  <2>1. radioCommand = Command("rxifgain", LastAsked("radioClient")) /\ radioQid # NoQueue
    BY <1>0, <1>3 DEF GainFollows, Works, ServerQid
  <2>. QED
    BY <1>1, <1>2, <2>1 DEF GainSet, Command
<1>4. ~GainSet
  BY <1>0 DEF GainSet
<1>. QED
  BY <1>0, <1>1, <1>2, <1>3, <1>4 DEF GainFollows

(* Every step keeps the gain in line.                                       *)
LEMMA GainFollowsStep ==
  ASSUME NoLateReply
  PROVE  GainInv /\ [Next]_vars => GainInv'
<1>. SUFFICES ASSUME GainInv, [Next]_vars PROVE GainInv'
  OBVIOUS
<1>1. LegsInv'
  BY LegsStep DEF GainInv
<1>2. GainFollows'
  <2>1. CASE ClientsServing \/ UsersServing
    BY <2>1, GainFollowsClient DEF ClientsServing, UsersServing
  <2>2. CASE RadioServing
    BY <1>1, <2>2, GainFollowsRadioServer DEF LegsInv
  <2>3. CASE SpectrumServing \/ UNCHANGED vars
    <3>1. queue'[RadioServerTypeAck] = queue[RadioServerTypeAck]
      BY <2>3, SpectrumLeavesRadioAck DEF GainInv, LegsInv, ClientsTypeOK, vars, queueVars
    <3>2. UNCHANGED <<linkVars, diagsVars, radioVars, clientVars>>
      BY <2>3 DEF SpectrumServing, vars
    <3>3. /\ Works("radioClient")' <=> Works("radioClient")
          /\ LastAsked("radioClient")' = LastAsked("radioClient")
          /\ GainSet' <=> GainSet
      BY <3>2 DEF Works, ServerQid, LastAsked, GainSet, radioVars, clientVars, linkVars, diagsVars
    <3>. QED
      BY <3>1, <3>2, <3>3 DEF GainInv, GainFollows, radioVars, clientVars, linkVars
  <2>4. CASE DiagsServing
    BY <2>4, GainFollowsDiags
  <2>. QED
    BY <2>1, <2>2, <2>3, <2>4 DEF Next
<1>. QED
  BY <1>1, <1>2 DEF GainInv

(* When the radio client is back at its input after 'r', the radio is at    *)
(* the gain it sent, as long as radio diags answers while receiveData       *)
(* waits; the other client may take the queue at any time.                  *)
THEOREM PromptMeansGainSetHolds ==
  ASSUME NoLateReply
  PROVE  Spec => []PromptMeansGainSet
<1>1. Init => GainInv
  BY LegsInit, GainFollowsInit DEF GainInv
<1>2. GainInv => PromptMeansGainSet
  BY DEF GainInv, GainFollows, GainSet, LastAsked, PromptMeansGainSet
<1>. QED
  BY <1>1, <1>2, GainFollowsStep, PTL DEF Spec

-----------------------------------------------------------------------------
(* The records as they were asked for.                                      *)

(* No record and no command at the start.                                   *)
LEMMA RecordsFollowInit == Init => RecordsFollow
<1>. SUFFICES ASSUME Init PROVE RecordsFollow
  OBVIOUS
<1>1. /\ results = << >> /\ asked["spectrumClient"] = << >> /\ specPc = "off"
      /\ queue[SpectrumServerTypeCmd] = << >>
  BY MessagesAreTyped DEF Init, SpectrumInit, ClientInit, QueueInit, EmptyQueue, Client
<1>. QED
  BY <1>1 DEF RecordsFollow, FileComplete

(* What the radio server does leaves the other leg's messages alone.        *)
LEMMA RadioLeavesSpectrumMessages ==
  ASSUME QueueTypeOK, RadioServing
  PROVE  /\ queue'[SpectrumServerTypeCmd] = queue[SpectrumServerTypeCmd]
         /\ queue'[SpectrumServerTypeAck] = queue[SpectrumServerTypeAck]
<1>1. CASE UNCHANGED queue
  BY <1>1
<1>2. CASE ReceiveData(radioQid, RadioServerTypeCmd)
  BY <1>2, ReceiveDataEffect, MessagesAreTyped, DistinctTypes
<1>3. CASE SendData(radioQid, RadioServerTypeAck, Ack)
  BY <1>3, SendDataEffect, MessagesAreTyped, DistinctTypes
<1>. QED
  BY <1>1, <1>2, <1>3 DEF RadioServing, RadioServerStep, LaunchRadioServer, RadioSend, RadioRead,
     RadioQuiet, RadioOpensQueue, RadioReceive, RadioAck, OpenQueue, OpenFails, ReceiveDataFails,
     SendDataFails, queueVars, radioVars

(* A client asks for one record more than the file holds, and only when it  *)
(* holds all the others.                                                    *)
LEMMA RecordsFollowClient ==
  ASSUME RecordsInv, NEW client \in Client, ClientStep(client) \/ UserStep(client),
         UNCHANGED spectrumVars
  PROVE  RecordsFollow'
<1>. DEFINE other == "spectrumClient"
<1>0. /\ LegsInv /\ RecordsFollow /\ other \in Client /\ Leg(other)
      /\ clientPc \in [Client -> {"off", "prompt", "send", "wait", "terminate",
                                  "destroy", "exited"}]
      /\ asked \in [Client -> Seq(Int)] /\ value \in [Client -> Int]
      /\ TypeCmd(other) = SpectrumServerTypeCmd /\ TypeAck(other) = SpectrumServerTypeAck
      /\ specPc' = specPc /\ results' = results /\ spectrumTag' = spectrumTag
      /\ results \in Seq(OutputRecord)
  BY DEF RecordsInv, LegsInv, ClientsTypeOK, Client, TypeCmd, TypeAck, spectrumVars, SpectrumTypeOK
<1>1. /\ queue'[TypeAck(other)] # << >> => queue[TypeAck(other)] # << >>
      /\ \/ queue'[TypeCmd(other)] # << >> => queue[TypeCmd(other)] # << >>
         \/ other = client /\ (SendCommand(client) \/ SendTerminateCommand(client))
  BY <1>0, ClientMessages
<1>. HIDE DEF other
<1>2. CASE other = client /\ SendCommand(client) /\ clientPc'[client] = "wait"
  <2>1. /\ clientPc[client] = "send" /\ value[client] \in Int
        /\ asked'[client] = Append(asked[client], value[client])
    BY <1>0, <1>2 DEF SendCommand, Goes
  <2>2. specPc \notin {"capture", "ack"} /\ queue[TypeAck(other)] = << >>
    <3>1. LegIdle(other) /\ ~Works(other)
      BY <1>0, <1>2, <2>1, LegIdleAtTheInput
    <3>2. specPc \in {"capture", "ack"} => specQid # NoQueue
      BY <1>0 DEF LegsInv
    <3>. QED
      BY <3>1, <3>2 DEF LegIdle, Works, ServerQid, other
  <2>3. Len(asked[other]) = Len(results)
    BY <1>2, <2>1 DEF RecordsInv, RecordsFollow, FileComplete, other
  <2>4. /\ Len(asked'[other]) = Len(asked[other]) + 1
        /\ \A i \in 1 .. Len(asked[other]) : asked'[other][i] = asked[other][i]
    <3>1. asked[other] \in Seq(Int) /\ value[client] \in Int
      BY <1>0, <2>1
    <3>. QED
      BY <1>2, <2>1, <3>1, LastAppended
  <2>5. DOMAIN results = 1 .. Len(results) /\ Len(results) \in Nat
    BY <1>0
  <2>6. /\ Len(results) <= Len(asked'[other])
        /\ \A i \in DOMAIN results : results[i].tag = asked'[other][i]
    <3>1. \A i \in 1 .. Len(results) : results[i].tag = asked[other][i]
      BY <1>0, <2>5 DEF RecordsFollow, other
    <3>2. \A i \in 1 .. Len(results) : asked'[other][i] = asked[other][i]
      BY <2>3, <2>4
    <3>. QED
      BY <2>3, <2>4, <2>5, <3>1, <3>2
  <2>7. RecordMissing'
    BY <1>0, <2>3, <2>4 DEF RecordMissing, other
  <2>8. clientPc'[other] = "wait" /\ queue'[TypeAck(other)] = << >>
    BY <1>1, <1>2, <2>2
  <2>. QED
    BY <1>0, <2>2, <2>6, <2>7, <2>8 DEF RecordsFollow, other
<1>3. CASE ~(other = client /\ SendCommand(client) /\ clientPc'[client] = "wait")
  <2>1. asked'[other] = asked[other]
    BY <1>0, <1>3 DEF ClientStep, UserStep, LaunchClient, SendCommand, WaitForServerAck,
       SendTerminateCommand, DestroyQueue, KeyMeasure, KeyExit, EndOfInput, Goes
  <2>2. clientPc'[other] = "wait" => /\ clientPc[other] = "wait"
                                     /\ ~(other = client /\ SendCommand(client))
                                     /\ ~(other = client /\ SendTerminateCommand(client))
    BY <1>0, <1>3 DEF ClientStep, UserStep, LaunchClient, SendCommand, WaitForServerAck,
       SendTerminateCommand, DestroyQueue, KeyMeasure, KeyExit, EndOfInput, Goes
  <2>3. clientPc'[other] \in {"off", "prompt", "send", "terminate"}
         => \/ clientPc[other] \in {"off", "prompt", "send", "terminate"}
            \/ queue[TypeAck(other)] # << >>
    BY <1>0, <1>3 DEF ClientStep, UserStep, LaunchClient, SendCommand, WaitForServerAck,
       ReceiveData,
       SendTerminateCommand, DestroyQueue, KeyMeasure, KeyExit, EndOfInput, Goes
  <2>4. /\ LastAsked(other)' = LastAsked(other)
        /\ RecordMissing' <=> RecordMissing
        /\ FileComplete' <=> FileComplete
    BY <1>0, <2>1 DEF LastAsked, RecordMissing, FileComplete, other
  <2>. QED
    BY <1>0, <1>1, <2>1, <2>2, <2>3, <2>4 DEF RecordsFollow, other
<1>. QED
  BY <1>2, <1>3

(* The spectrum server writes the record that is missing.                   *)
LEMMA RecordsFollowSpectrumServer ==
  ASSUME PipelinesWrite, RecordsInv, SpectrumServing
  PROVE  RecordsFollow'
<1>0. /\ LegsInv /\ RecordsFollow /\ QueueTypeOK /\ ClientsTypeOK
      /\ "spectrumClient" \in Client /\ Leg("spectrumClient")
      /\ asked["spectrumClient"] \in Seq(Int) /\ results \in Seq(OutputRecord)
      /\ spectrumTag \in Int /\ samples \subseteq Int
      /\ SpectrumServerStep /\ asked' = asked /\ clientPc' = clientPc
      /\ TypeCmd("spectrumClient") = SpectrumServerTypeCmd
      /\ TypeAck("spectrumClient") = SpectrumServerTypeAck
      /\ specPc \in {"capture", "ack"} => specQid # NoQueue
  BY DEF RecordsInv, LegsInv, ClientsTypeOK, Client, TypeCmd, TypeAck, SpectrumServing, clientVars,
     SpectrumTypeOK
<1>1. specPc \in {"capture", "ack"}
       => /\ queue[SpectrumServerTypeCmd] = << >> /\ queue[SpectrumServerTypeAck] = << >>
          /\ clientPc["spectrumClient"] \in {"wait", "destroy", "exited"}
          /\ asked["spectrumClient"] # << >>
  BY <1>0 DEF Leg, LegIdle, Works, ServerQid
<1>2. LastAsked("spectrumClient")' = LastAsked("spectrumClient")
  BY <1>0 DEF LastAsked
<1>3. CASE LaunchSpectrumServer \/ StreamSamples
  <2>1. /\ UNCHANGED <<results, queue, spectrumTag>>
        /\ specPc' = specPc \/ specPc' \in {"wait", "exited"}
    BY <1>3 DEF LaunchSpectrumServer, StreamSamples, OpenQueue, OpenFails, queueVars
  <2>. QED
    BY <1>0, <1>2, <2>1 DEF RecordsFollow, FileComplete, RecordMissing
<1>4. CASE SpectrumReceive
  <2>1. specPc = "wait" /\ results' = results
    BY <1>4 DEF SpectrumReceive
  <2>2. CASE ReceiveData(specQid, SpectrumServerTypeCmd)
    <3>1. /\ queue[SpectrumServerTypeCmd] # << >>
          /\ queue'[SpectrumServerTypeCmd] = Tail(queue[SpectrumServerTypeCmd])
          /\ queue'[SpectrumServerTypeAck] = queue[SpectrumServerTypeAck]
      BY <1>0, <2>2, ReceiveDataEffect, MessagesAreTyped, DistinctTypes
    <3>2. /\ queue'[SpectrumServerTypeCmd] = << >> /\ queue'[SpectrumServerTypeAck] = << >>
          /\ clientPc["spectrumClient"] \in {"wait", "destroy"}
          /\ \/ /\ clientPc["spectrumClient"] = "wait" /\ asked["spectrumClient"] # << >>
                /\ queue[SpectrumServerTypeCmd]
                     = <<<<Opcode("spectrumClient"), LastAsked("spectrumClient")>>>>
             \/ queue[SpectrumServerTypeCmd] = <<<<CmdTerminate>>>>
      BY <1>0, <3>1, TailOfOne DEF Leg
    <3>3. /\ specPc' = SpectrumDecode(Received(SpectrumServerTypeCmd))
          /\ spectrumTag' = IF SpectrumDecode(Received(SpectrumServerTypeCmd)) = "capture"
                            THEN Received(SpectrumServerTypeCmd)[2] ELSE spectrumTag
      BY <2>2, <1>4 DEF SpectrumReceive, ReceiveData, ReceiveDataFails
    <3>4. CASE queue[SpectrumServerTypeCmd]
                 = <<<<Opcode("spectrumClient"), LastAsked("spectrumClient")>>>>
      <4>1. /\ Received(SpectrumServerTypeCmd)
                 = <<Opcode("spectrumClient"), LastAsked("spectrumClient")>>
            /\ clientPc["spectrumClient"] = "wait" /\ asked["spectrumClient"] # << >>
        <5>1. Opcode("spectrumClient") # CmdTerminate
          BY DEF Opcode, CmdTerminate, SpectrumServerCmdComputePower
        <5>2. <<<<Opcode("spectrumClient"), LastAsked("spectrumClient")>>>> # <<<<CmdTerminate>>>>
          BY <5>1
        <5>. QED
          BY <3>2, <3>4, <5>2 DEF Received
      <4>2. LastAsked("spectrumClient") \in Int
        BY <1>0, <4>1, LastAskedIsInt
      <4>3. SpectrumDecode(<<Opcode("spectrumClient"), LastAsked("spectrumClient")>>) = "capture"
        BY <4>2, DecodeOfClientCommands
      <4>4. specPc' = "capture" /\ spectrumTag' = LastAsked("spectrumClient")
        BY <3>3, <4>1, <4>3
      <4>5. RecordMissing
        BY <1>0, <3>1, <4>1 DEF RecordsFollow
      <4>. QED
        BY <1>0, <1>2, <2>1, <3>2, <4>1, <4>4, <4>5 DEF RecordsFollow, RecordMissing
    <3>5. CASE queue[SpectrumServerTypeCmd] = <<<<CmdTerminate>>>>
      <4>1. specPc' = "exited"
        BY <3>3, <3>5, DecodeOfClientCommands DEF Received
      <4>. QED
        BY <1>0, <1>2, <2>1, <3>2, <4>1 DEF RecordsFollow
    <3>. QED
      BY <3>2, <3>4, <3>5
  <2>3. CASE ReceiveDataFails(specQid) /\ specPc' = "exited"
    <3>1. queue' = queue
      BY <2>3 DEF ReceiveDataFails, queueVars
    <3>. QED
      BY <1>0, <1>2, <2>1, <2>3, <3>1 DEF RecordsFollow, FileComplete, RecordMissing
  <2>. QED
    BY <1>4, <2>2, <2>3 DEF SpectrumReceive
<1>5. CASE Measure
  <2>. DEFINE record == [tag |-> spectrumTag, gains |-> samples]
  <2>1. /\ specPc = "capture" /\ specPc' = "ack" /\ queue' = queue
        /\ results' = Append(results, record)
    BY <1>5 DEF Measure, queueVars
  <2>2. record \in OutputRecord /\ record.tag = spectrumTag
    BY <1>0 DEF OutputRecord
  <2>. HIDE DEF record
  <2>3. /\ Len(results') = Len(results) + 1 /\ results'[Len(results')] = record
        /\ \A i \in 1 .. Len(results) : results'[i] = results[i]
    BY <1>0, <2>1, <2>2, LastAppended
  <2>4. /\ Len(asked["spectrumClient"]) = Len(results) + 1
        /\ spectrumTag = asked["spectrumClient"][Len(asked["spectrumClient"])]
    BY <1>0, <2>1 DEF RecordsFollow, RecordMissing, LastAsked
  <2>5. /\ DOMAIN results = 1 .. Len(results) /\ Len(results) \in Nat
    BY <1>0
  <2>6. DOMAIN results' = 1 .. Len(results')
    BY <1>0, <2>1, <2>2
  <2>7. \A i \in DOMAIN results' : results'[i].tag = asked["spectrumClient"][i]
    BY <1>0, <2>2, <2>3, <2>4, <2>5, <2>6 DEF RecordsFollow
  <2>8. FileComplete' /\ Len(results') <= Len(asked["spectrumClient"])
    BY <1>0, <2>3, <2>4, <2>5 DEF FileComplete
  <2>. QED
    BY <1>0, <1>1, <2>1, <2>7, <2>8 DEF RecordsFollow
<1>6. CASE PipelineFails
  BY <1>6 DEF PipelineFails, PipelinesWrite
<1>7. CASE SpectrumAck
  <2>1. /\ specPc = "ack" /\ results' = results /\ specPc' \in {"wait", "exited"}
    BY <1>7 DEF SpectrumAck
  <2>2. FileComplete' /\ FileComplete
    BY <1>0, <2>1 DEF RecordsFollow, FileComplete
  <2>3. queue'[SpectrumServerTypeCmd] = queue[SpectrumServerTypeCmd]
    <3>1. CASE SendData(specQid, SpectrumServerTypeAck, Ack)
      BY <1>0, <3>1, SendDataEffect, MessagesAreTyped, DistinctTypes
    <3>2. CASE SendDataFails(specQid)
      BY <3>2 DEF SendDataFails, queueVars
    <3>. QED
      BY <1>7, <3>1, <3>2 DEF SpectrumAck
  <2>. QED
    BY <1>0, <1>1, <2>1, <2>2, <2>3 DEF RecordsFollow
<1>. QED
  BY <1>0, <1>3, <1>4, <1>5, <1>6, <1>7 DEF SpectrumServerStep

(* Every step keeps the file in line with the commands.                     *)
LEMMA RecordsFollowStep ==
  ASSUME PipelinesWrite
  PROVE  RecordsInv /\ [Next]_vars => RecordsInv'
<1>. SUFFICES ASSUME RecordsInv, [Next]_vars PROVE RecordsInv'
  OBVIOUS
<1>1. LegsInv'
  BY LegsStep DEF RecordsInv
<1>2. RecordsFollow'
  <2>1. CASE ClientsServing \/ UsersServing
    BY <2>1, RecordsFollowClient DEF ClientsServing, UsersServing
  <2>2. CASE SpectrumServing
    BY <2>2, RecordsFollowSpectrumServer
  <2>3. CASE RadioServing \/ DiagsServing \/ UNCHANGED vars
    <3>1. /\ queue'[SpectrumServerTypeCmd] = queue[SpectrumServerTypeCmd]
          /\ queue'[SpectrumServerTypeAck] = queue[SpectrumServerTypeAck]
      BY <2>3, RadioLeavesSpectrumMessages DEF RecordsInv, LegsInv, ClientsTypeOK, vars, queueVars,
         DiagsServing
    <3>2. UNCHANGED <<spectrumVars, clientVars>>
      BY <2>3 DEF RadioServing, DiagsServing, vars
    <3>. QED
      BY <3>1, <3>2 DEF RecordsInv, RecordsFollow, RecordMissing, FileComplete, LastAsked,
         spectrumVars, clientVars
  <2>. QED
    BY <2>1, <2>2, <2>3 DEF Next
<1>. QED
  BY <1>1, <1>2 DEF RecordsInv

(* The file holds the records of the tags the spectrum client sent, once    *)
(* each and in order, and all of them when it is back at its input, as long *)
(* as every pipeline writes its record.                                     *)
THEOREM RecordsAsAskedHolds ==
  ASSUME PipelinesWrite
  PROVE  Spec => []RecordsAsAsked
<1>1. Init => RecordsInv
  BY LegsInit, RecordsFollowInit DEF RecordsInv
<1>2. RecordsInv => RecordsAsAsked
  BY DEF RecordsInv, RecordsFollow, FileComplete, RecordsAsAsked
<1>. QED
  BY <1>1, <1>2, RecordsFollowStep, PTL DEF Spec

=============================================================================
