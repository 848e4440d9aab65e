------------------------- MODULE RapidPrototypeProofs -------------------------
(***************************************************************************)
(* What holds of the prototypes for every number of clients and servers,   *)
(* with the queue class and without it.                                    *)
(***************************************************************************)
EXTENDS RapidPrototype, SequenceTheorems, FiniteSetTheorems, TLAPS

-----------------------------------------------------------------------------
(* Type correctness, and what the steps do.                                 *)

(* Where a client can be.                                                   *)
ClientPc == {"off", "send", "receive", "destroy", "exited"}
(* Where a server can be.                                                   *)
ServerPc == {"off", "receive", "respond", "exited"}

(* The text of a message is the program that sent it.                       *)
PrototypeTypeOK ==
  /\ lastId \in Nat
  /\ qid \in 0 .. lastId
  /\ queue \in [MessageType -> Seq(Programs)]
  /\ inPairs \in BOOLEAN
  /\ pc \in [Programs -> ClientPc \cup ServerPc]
  /\ \A c \in Clients : pc[c] \in ClientPc
  /\ \A s \in Servers : pc[s] \in ServerPc
  /\ mqid \in [Programs -> 0 .. lastId]
  /\ got \in [Programs -> Programs \cup {NoMessage}]

(* Nobody has sent or received anything.                                    *)
LEMMA PrototypeTypeInit == Init => PrototypeTypeOK
BY DEF Init, PrototypeTypeOK, QueueInit, NoQueue, EmptyQueue, ClientPc, ServerPc, Programs

(* Only the queue and one program change at a time.                         *)
OnlyMoves(p) ==
  /\ pc' = [pc EXCEPT ![p] = pc'[p]]
  /\ mqid' = [mqid EXCEPT ![p] = mqid'[p]]
  /\ got' = [got EXCEPT ![p] = got'[p]]

(* The two types of messages are not one.                                   *)
LEMMA PrototypeMessages ==
  /\ RequestType \in MessageType /\ ResponseType \in MessageType
  /\ RequestType # ResponseType
BY DEF RequestType, ResponseType, MessageType, RadioServerTypeCmd, SpectrumServerTypeAck

(* A program that is launched has the queue the key names, a new one if     *)
(* there was none; in a crowd it may also fail, and take the queue along.   *)
LEMMA LaunchEffect ==
  ASSUME PrototypeTypeOK, NEW p \in Programs, Launch(p)
  PROVE  /\ OnlyMoves(p) /\ pc[p] = "off" /\ got'[p] = got[p]
         /\ lastId' \in Nat /\ lastId' >= lastId /\ qid' \in 0 .. lastId'
         /\ \/ queue' = queue /\ (qid' = qid \/ (qid = NoQueue /\ qid' > lastId))
            \/ ~inPairs /\ queue' = EmptyQueue /\ qid' = NoQueue
         /\ mqid'[p] \in 0 .. lastId'
         /\ \/ pc'[p] = IF p \in Clients THEN "send" ELSE "receive"
            \/ ~inPairs /\ pc'[p] = "exited"
<1>1. pc \in [Programs -> ClientPc \cup ServerPc] /\ mqid \in [Programs -> 0 .. lastId]
      /\ got \in [Programs -> Programs \cup {NoMessage}] /\ lastId \in Nat /\ qid \in 0 .. lastId
  BY DEF PrototypeTypeOK
<1>2. pc[p] = "off" /\ got' = got
  BY DEF Launch, Goes
<1>3. CASE /\ OpenQueue
           /\ Goes(p, "off", IF p \in Clients THEN "send" ELSE "receive")
           /\ mqid' = [mqid EXCEPT ![p] = OpenedId]
  <2>1. /\ queue' = queue /\ lastId' \in Nat /\ lastId' >= lastId /\ qid' \in 0 .. lastId'
        /\ qid' = qid \/ (qid = NoQueue /\ qid' > lastId)
        /\ OpenedId \in 0 .. lastId'
    BY <1>1, <1>3 DEF OpenQueue, OpenedId, NoQueue
  <2>2. pc' = [pc EXCEPT ![p] = IF p \in Clients THEN "send" ELSE "receive"]
    BY <1>3 DEF Goes
  <2>. QED
    BY <1>1, <1>2, <1>3, <2>1, <2>2 DEF OnlyMoves
<1>4. CASE ~inPairs /\ OpenFails /\ Goes(p, "off", "exited") /\ UNCHANGED mqid
  BY <1>1, <1>2, <1>4 DEF OpenFails, queueVars, Goes, OnlyMoves
<1>5. CASE ~inPairs /\ OpenFailsAndRemoves /\ Goes(p, "off", "exited") /\ UNCHANGED mqid
  BY <1>1, <1>2, <1>5 DEF OpenFailsAndRemoves, RemoveQueue, Goes, OnlyMoves, NoQueue
<1>. QED
  BY <1>3, <1>4, <1>5 DEF Launch

(* A client that sends puts a request at the end of the queue.              *)
LEMMA ClientSendsEffect ==
  ASSUME PrototypeTypeOK, NEW p \in Programs, ClientSends(p)
  PROVE  /\ OnlyMoves(p) /\ p \in Clients /\ pc[p] = "send" /\ mqid'[p] = mqid[p] /\ got'[p] = got[p]
         /\ qid' = qid /\ lastId' = lastId
         /\ \/ /\ Attached(mqid[p]) /\ pc'[p] = "receive"
               /\ queue' = [queue EXCEPT ![RequestType] = Append(@, p)]
            \/ pc'[p] \in {"receive", "destroy"} /\ queue' = queue
<1>1. pc \in [Programs -> ClientPc \cup ServerPc] /\ mqid \in [Programs -> 0 .. lastId]
      /\ got \in [Programs -> Programs \cup {NoMessage}]
  BY DEF PrototypeTypeOK
<1>2. pc[p] = "send" /\ UNCHANGED <<mqid, got>>
  BY DEF ClientSends, Goes
<1>3. p \in Clients
  BY <1>2 DEF PrototypeTypeOK, Programs, ServerPc
<1>4. CASE SendData(mqid[p], RequestType, p) /\ Goes(p, "send", "receive")
  BY <1>1, <1>2, <1>3, <1>4 DEF SendData, Goes, OnlyMoves
<1>5. CASE SendDataFails(mqid[p]) /\ Goes(p, "send", IF p \in Raw THEN "receive" ELSE "destroy")
  BY <1>1, <1>2, <1>3, <1>5 DEF SendDataFails, queueVars, Goes, OnlyMoves
<1>. QED
  BY <1>4, <1>5 DEF ClientSends

(* A client that receives takes the first response, or its queue is gone.   *)
LEMMA ClientReceivesEffect ==
  ASSUME PrototypeTypeOK, NEW p \in Programs, ClientReceives(p)
  PROVE  /\ OnlyMoves(p) /\ p \in Clients /\ pc[p] = "receive" /\ mqid'[p] = mqid[p]
         /\ pc'[p] = "destroy"
         /\ qid' = qid /\ lastId' = lastId
         /\ \/ /\ Attached(mqid[p]) /\ queue[ResponseType] # << >>
               /\ queue' = [queue EXCEPT ![ResponseType] = Tail(@)]
               /\ got'[p] = Head(queue[ResponseType])
            \/ ~Attached(mqid[p]) /\ queue' = queue /\ got'[p] = got[p]
<1>1. pc \in [Programs -> ClientPc \cup ServerPc] /\ mqid \in [Programs -> 0 .. lastId]
      /\ got \in [Programs -> Programs \cup {NoMessage}]
  BY DEF PrototypeTypeOK
<1>2. p \in Clients /\ pc[p] = "receive" /\ pc' = [pc EXCEPT ![p] = "destroy"] /\ mqid' = mqid
  BY DEF ClientReceives, Goes
<1>3. CASE ReceiveData(mqid[p], ResponseType) /\ got' = [got EXCEPT ![p] = Received(ResponseType)]
  BY <1>1, <1>2, <1>3 DEF ReceiveData, Received, OnlyMoves
<1>4. CASE ReceiveDataFails(mqid[p]) /\ UNCHANGED got
  BY <1>1, <1>2, <1>4 DEF ReceiveDataFails, queueVars, OnlyMoves
<1>. QED
  BY <1>3, <1>4 DEF ClientReceives

(* A client that exits takes its queue along, with all messages.            *)
LEMMA RemovesQueueEffect ==
  ASSUME PrototypeTypeOK, NEW p \in Programs, RemovesQueue(p)
  PROVE  /\ OnlyMoves(p) /\ p \in Clients /\ pc[p] = "destroy" /\ mqid'[p] = mqid[p] /\ got'[p] = got[p]
         /\ pc'[p] = "exited" /\ lastId' = lastId
         /\ \/ Attached(mqid[p]) /\ qid' = NoQueue /\ queue' = EmptyQueue
            \/ ~Attached(mqid[p]) /\ qid' = qid /\ queue' = queue
<1>1. pc \in [Programs -> ClientPc \cup ServerPc] /\ mqid \in [Programs -> 0 .. lastId]
      /\ got \in [Programs -> Programs \cup {NoMessage}]
  BY DEF PrototypeTypeOK
<1>2. pc[p] = "destroy" /\ pc' = [pc EXCEPT ![p] = "exited"] /\ UNCHANGED <<mqid, got>>
  BY DEF RemovesQueue, Goes
<1>3. p \in Clients
  BY <1>2 DEF PrototypeTypeOK, Programs, ServerPc
<1>4. /\ lastId' = lastId
      /\ \/ Attached(mqid[p]) /\ qid' = NoQueue /\ queue' = EmptyQueue
         \/ ~Attached(mqid[p]) /\ qid' = qid /\ queue' = queue
  BY DEF RemovesQueue, Destroy, RemoveQueue, queueVars
<1>. QED
  BY <1>1, <1>2, <1>3, <1>4 DEF OnlyMoves

(* A server that receives takes the first request, or its queue is gone.    *)
LEMMA ServerReceivesEffect ==
  ASSUME PrototypeTypeOK, NEW p \in Programs, ServerReceives(p)
  PROVE  /\ OnlyMoves(p) /\ p \in Servers /\ pc[p] = "receive" /\ mqid'[p] = mqid[p]
         /\ qid' = qid /\ lastId' = lastId
         /\ \/ /\ Attached(mqid[p]) /\ queue[RequestType] # << >>
               /\ queue' = [queue EXCEPT ![RequestType] = Tail(@)]
               /\ got'[p] = Head(queue[RequestType]) /\ pc'[p] = "respond"
            \/ /\ ~Attached(mqid[p]) /\ queue' = queue /\ got'[p] = got[p]
               /\ pc'[p] \in {"respond", "exited"}
<1>1. pc \in [Programs -> ClientPc \cup ServerPc] /\ mqid \in [Programs -> 0 .. lastId]
      /\ got \in [Programs -> Programs \cup {NoMessage}]
  BY DEF PrototypeTypeOK
<1>2. p \in Servers /\ pc[p] = "receive" /\ mqid' = mqid
  BY DEF ServerReceives, Goes
<1>3. CASE /\ ReceiveData(mqid[p], RequestType)
           /\ got' = [got EXCEPT ![p] = Received(RequestType)]
           /\ Goes(p, "receive", "respond")
  BY <1>1, <1>2, <1>3 DEF ReceiveData, Received, Goes, OnlyMoves
<1>4. CASE /\ ReceiveDataFails(mqid[p])
           /\ Goes(p, "receive", IF p \in Raw THEN "respond" ELSE "exited")
           /\ UNCHANGED got
  BY <1>1, <1>2, <1>4 DEF ReceiveDataFails, queueVars, Goes, OnlyMoves
<1>. QED
  BY <1>3, <1>4 DEF ServerReceives

(* A server that responds puts a response at the end of the queue, or its   *)
(* queue is gone, or the message is lost.                                   *)
LEMMA ServerRespondsEffect ==
  ASSUME PrototypeTypeOK, NEW p \in Programs, ServerResponds(p)
  PROVE  /\ OnlyMoves(p) /\ p \in Servers /\ pc[p] = "respond" /\ pc'[p] = "exited"
         /\ mqid'[p] = mqid[p] /\ got'[p] = got[p]
         /\ qid' = qid /\ lastId' = lastId
         /\ \/ /\ Attached(mqid[p])
               /\ queue' = [queue EXCEPT ![ResponseType] = Append(@, p)]
            \/ queue' = queue
<1>1. pc \in [Programs -> ClientPc \cup ServerPc] /\ mqid \in [Programs -> 0 .. lastId]
      /\ got \in [Programs -> Programs \cup {NoMessage}]
  BY DEF PrototypeTypeOK
<1>2. pc[p] = "respond" /\ pc' = [pc EXCEPT ![p] = "exited"] /\ UNCHANGED <<mqid, got>>
  BY DEF ServerResponds, Goes
<1>3. p \in Servers
  BY <1>2 DEF PrototypeTypeOK, Programs, ClientPc
<1>4. /\ qid' = qid /\ lastId' = lastId
      /\ \/ /\ Attached(mqid[p])
            /\ queue' = [queue EXCEPT ![ResponseType] = Append(@, p)]
         \/ queue' = queue
  BY DEF ServerResponds, SendData, SendDataFails, queueVars
<1>. QED
  BY <1>1, <1>2, <1>3, <1>4 DEF OnlyMoves

(* One program moves, and its place, queue and message stay well typed.     *)
LEMMA OnlyMovesType ==
  ASSUME PrototypeTypeOK, NEW p \in Programs, OnlyMoves(p),
         lastId' \in Nat, lastId' >= lastId, qid' \in 0 .. lastId',
         queue' \in [MessageType -> Seq(Programs)], inPairs' = inPairs,
         p \in Clients => pc'[p] \in ClientPc, p \in Servers => pc'[p] \in ServerPc,
         mqid'[p] \in 0 .. lastId', got'[p] \in Programs \cup {NoMessage}
  PROVE  PrototypeTypeOK'
<1>1. /\ pc \in [Programs -> ClientPc \cup ServerPc] /\ mqid \in [Programs -> 0 .. lastId]
      /\ got \in [Programs -> Programs \cup {NoMessage}] /\ lastId \in Nat
      /\ \A c \in Clients : pc[c] \in ClientPc
      /\ \A s \in Servers : pc[s] \in ServerPc
      /\ inPairs \in BOOLEAN
  BY DEF PrototypeTypeOK
<1>2. pc'[p] \in ClientPc \cup ServerPc
  BY DEF Programs
<1>3. pc' \in [Programs -> ClientPc \cup ServerPc]
  BY <1>1, <1>2 DEF OnlyMoves
<1>4. /\ \A c \in Clients : pc'[c] \in ClientPc
      /\ \A s \in Servers : pc'[s] \in ServerPc
  BY <1>1 DEF OnlyMoves, Programs
<1>5. mqid' \in [Programs -> 0 .. lastId']
  <2>1. 0 .. lastId \subseteq 0 .. lastId'
    BY <1>1
  <2>. QED
    BY <1>1, <2>1 DEF OnlyMoves
<1>6. got' \in [Programs -> Programs \cup {NoMessage}]
  BY <1>1 DEF OnlyMoves
<1>. QED
  BY <1>1, <1>3, <1>4, <1>5, <1>6 DEF PrototypeTypeOK

(* A client is no server.                                                   *)
LEMMA Roles ==
  ASSUME NEW p \in Programs
  PROVE  p \in Clients <=> p \notin Servers
BY PrototypeAssumption DEF Programs

(* Each step of the prototypes is one of a program.                         *)
LEMMA PrototypeTypeStep == PrototypeTypeOK /\ [Next]_vars => PrototypeTypeOK'
<1>. SUFFICES ASSUME PrototypeTypeOK, [Next]_vars PROVE PrototypeTypeOK'
  OBVIOUS
<1>0. /\ lastId \in Nat /\ qid \in 0 .. lastId /\ queue \in [MessageType -> Seq(Programs)]
      /\ \A p \in Programs : mqid[p] \in 0 .. lastId /\ got[p] \in Programs \cup {NoMessage}
      /\ RequestType \in MessageType /\ ResponseType \in MessageType
  BY PrototypeMessages DEF PrototypeTypeOK
<1>1. ASSUME NEW p \in Programs, Step(p), inPairs' = inPairs
      PROVE  PrototypeTypeOK'
  <2>1. CASE Launch(p)
    <3>1. /\ p \in Clients => pc'[p] \in ClientPc
          /\ p \in Servers => pc'[p] \in ServerPc
      BY <2>1, LaunchEffect, Roles DEF ClientPc, ServerPc
    <3>2. /\ OnlyMoves(p) /\ got'[p] = got[p] /\ queue' \in {queue, EmptyQueue}
          /\ lastId' \in Nat /\ lastId' >= lastId /\ qid' \in 0 .. lastId' /\ mqid'[p] \in 0 .. lastId'
      BY <2>1, LaunchEffect
    <3>3. queue' \in [MessageType -> Seq(Programs)]
      <4>1. EmptyQueue \in [MessageType -> Seq(Programs)]
        BY DEF EmptyQueue
      <4>. QED
        BY <1>0, <3>2, <4>1
    <3>. QED
      BY <1>0, <1>1, <3>1, <3>2, <3>3, OnlyMovesType
  <2>2. CASE ClientSends(p)
    <3>1. /\ OnlyMoves(p) /\ p \in Clients /\ got'[p] = got[p] /\ mqid'[p] = mqid[p]
          /\ pc'[p] \in ClientPc /\ qid' = qid /\ lastId' = lastId
      BY <2>2, ClientSendsEffect DEF ClientPc
    <3>2. queue' \in [MessageType -> Seq(Programs)]
      <4>1. Append(queue[RequestType], p) \in Seq(Programs)
        BY <1>0
      <4>. QED
        BY <1>0, <2>2, <4>1, ClientSendsEffect
    <3>3. /\ lastId' \in Nat /\ lastId' >= lastId /\ qid' \in 0 .. lastId'
          /\ mqid'[p] \in 0 .. lastId' /\ got'[p] \in Programs \cup {NoMessage}
      BY <1>0, <3>1
    <3>. QED
      BY <1>1, <3>1, <3>2, <3>3, OnlyMovesType, Roles
  <2>3. CASE ClientReceives(p)
    <3>1. /\ OnlyMoves(p) /\ p \in Clients /\ mqid'[p] = mqid[p]
          /\ pc'[p] \in ClientPc /\ qid' = qid /\ lastId' = lastId
      BY <2>3, ClientReceivesEffect DEF ClientPc
    <3>2. queue' \in [MessageType -> Seq(Programs)] /\ got'[p] \in Programs \cup {NoMessage}
      <4>1. queue[ResponseType] \in Seq(Programs)
        BY <1>0
      <4>2. queue[ResponseType] # << >> => /\ Head(queue[ResponseType]) \in Programs
                                          /\ Tail(queue[ResponseType]) \in Seq(Programs)
        BY <4>1
      <4>. QED
        BY <1>0, <2>3, <4>2, ClientReceivesEffect
    <3>. QED
      BY <1>0, <1>1, <3>1, <3>2, OnlyMovesType, Roles
  <2>4. CASE RemovesQueue(p)
    <3>1. /\ OnlyMoves(p) /\ p \in Clients /\ got'[p] = got[p] /\ mqid'[p] = mqid[p]
          /\ pc'[p] \in ClientPc /\ lastId' = lastId
      BY <2>4, RemovesQueueEffect DEF ClientPc
    <3>2. EmptyQueue \in [MessageType -> Seq(Programs)] /\ NoQueue \in 0 .. lastId
      BY <1>0 DEF EmptyQueue, NoQueue
    <3>3. queue' \in [MessageType -> Seq(Programs)] /\ qid' \in 0 .. lastId
      BY <1>0, <2>4, <3>2, RemovesQueueEffect
    <3>4. /\ lastId' \in Nat /\ lastId' >= lastId /\ qid' \in 0 .. lastId'
          /\ mqid'[p] \in 0 .. lastId' /\ got'[p] \in Programs \cup {NoMessage}
      BY <1>0, <3>1, <3>3
    <3>. QED
      BY <1>1, <3>1, <3>3, <3>4, OnlyMovesType, Roles
  <2>5. CASE ServerReceives(p)
    <3>1. /\ OnlyMoves(p) /\ p \in Servers /\ mqid'[p] = mqid[p]
          /\ pc'[p] \in ServerPc /\ qid' = qid /\ lastId' = lastId
      BY <2>5, ServerReceivesEffect DEF ServerPc
    <3>2. queue' \in [MessageType -> Seq(Programs)] /\ got'[p] \in Programs \cup {NoMessage}
      <4>1. queue[RequestType] \in Seq(Programs)
        BY <1>0
      <4>2. queue[RequestType] # << >> => /\ Head(queue[RequestType]) \in Programs
                                         /\ Tail(queue[RequestType]) \in Seq(Programs)
        BY <4>1
      <4>. QED
        BY <1>0, <2>5, <4>2, ServerReceivesEffect
    <3>. QED
      BY <1>0, <1>1, <3>1, <3>2, OnlyMovesType, Roles
  <2>6. CASE ServerResponds(p)
    <3>1. /\ OnlyMoves(p) /\ p \in Servers /\ got'[p] = got[p] /\ mqid'[p] = mqid[p]
          /\ pc'[p] \in ServerPc /\ qid' = qid /\ lastId' = lastId
      BY <2>6, ServerRespondsEffect DEF ServerPc
    <3>2. queue' \in [MessageType -> Seq(Programs)]
      <4>1. Append(queue[ResponseType], p) \in Seq(Programs)
        BY <1>0
      <4>. QED
        BY <1>0, <2>6, <4>1, ServerRespondsEffect
    <3>3. /\ lastId' \in Nat /\ lastId' >= lastId /\ qid' \in 0 .. lastId'
          /\ mqid'[p] \in 0 .. lastId' /\ got'[p] \in Programs \cup {NoMessage}
      BY <1>0, <3>1
    <3>. QED
      BY <1>1, <3>1, <3>2, <3>3, OnlyMovesType, Roles
  <2>. QED
    BY <1>1, <2>1, <2>2, <2>3, <2>4, <2>5, <2>6 DEF Step
<1>2. CASE UNCHANGED vars
  BY <1>2 DEF vars, queueVars, PrototypeTypeOK
<1>. QED
  BY <1>1, <1>2 DEF Next

(* The prototypes stay well typed.                                          *)
LEMMA PrototypeTypeInvariant == Spec => []PrototypeTypeOK
BY PrototypeTypeInit, PrototypeTypeStep, PTL DEF Spec

-----------------------------------------------------------------------------
(* No answer without a request, however many programs there are.            *)

(* The programs that have received a message, and the clients that have.    *)
Informed == {p \in Programs : got[p] # NoMessage}
AnsweredClients == {client \in Clients : Answered(client)}

(* The servers that had a request and have done with it.                    *)
Responded == {server \in Servers : got[server] # NoMessage /\ pc[server] = "exited"}

(* A server responds on a queue only to a request, and each answer, under   *)
(* way or received, is that of a server that has responded.                 *)
AnswerInv ==
  /\ IsFiniteSet(Informed)
  /\ \A server \in Servers :
       pc[server] = "respond" /\ Attached(mqid[server]) => got[server] # NoMessage
  /\ Cardinality(AnsweredClients) + Len(queue[ResponseType]) <= Cardinality(Responded)

(* What is counted is finite.                                               *)
LEMMA CountsAreNumbers ==
  ASSUME PrototypeTypeOK, IsFiniteSet(Informed)
  PROVE  /\ IsFiniteSet(AnsweredClients) /\ Cardinality(AnsweredClients) \in Nat
         /\ IsFiniteSet(Responded) /\ Cardinality(Responded) \in Nat
         /\ Len(queue[ResponseType]) \in Nat
<1>1. AnsweredClients \in SUBSET Informed /\ Responded \in SUBSET Informed
  BY DEF AnsweredClients, Answered, Responded, Informed, Programs
<1>2. IsFiniteSet(AnsweredClients) /\ IsFiniteSet(Responded)
  BY <1>1, FS_Subset
<1>3. Len(queue[ResponseType]) \in Nat
  <2>1. queue[ResponseType] \in Seq(Programs)
    BY PrototypeMessages DEF PrototypeTypeOK
  <2>. QED
    BY <2>1
<1>. QED
  BY <1>2, <1>3, FS_CardinalityType

(* At the start there is no answer and no request.                          *)
LEMMA AnswerInit == Init => AnswerInv
<1>. SUFFICES ASSUME Init PROVE AnswerInv
  OBVIOUS
<1>1. Informed = {} /\ AnsweredClients = {} /\ Responded = {}
  BY DEF Init, Informed, AnsweredClients, Answered, Responded, Programs
<1>2. queue[ResponseType] = << >>
  BY PrototypeMessages DEF Init, QueueInit, EmptyQueue
<1>3. \A server \in Servers : pc[server] # "respond"
  BY DEF Init, Programs
<1>. QED
  BY <1>1, <1>2, <1>3, FS_EmptySet DEF AnswerInv

(* One more program may know a message after the step of one.               *)
LEMMA OneMoreInformed ==
  ASSUME IsFiniteSet(Informed), NEW p \in Programs, PrototypeTypeOK, OnlyMoves(p)
  PROVE  IsFiniteSet(Informed')
<1>1. Informed' \in SUBSET (Informed \cup {p})
  BY DEF Informed, OnlyMoves, PrototypeTypeOK
<1>2. IsFiniteSet(Informed \cup {p})
  BY FS_AddElement
<1>. QED
  BY <1>1, <1>2, FS_Subset

(* The count after a step that adds a answers, takes r responses out of the *)
(* queue or puts them in.                                                   *)
LEMMA CountKept ==
  ASSUME AnswerInv, PrototypeTypeOK, PrototypeTypeOK', IsFiniteSet(Informed'),
         Responded \subseteq Responded',
         \/ /\ AnsweredClients' = AnsweredClients
            /\ \/ Len(queue'[ResponseType]) <= Len(queue[ResponseType])
               \/ /\ Len(queue'[ResponseType]) = Len(queue[ResponseType]) + 1
                  /\ \E p : p \notin Responded /\ Responded' = Responded \cup {p}
         \/ /\ \E p : AnsweredClients' \subseteq AnsweredClients \cup {p}
            /\ Len(queue'[ResponseType]) = Len(queue[ResponseType]) - 1
  PROVE  (Cardinality(AnsweredClients) + Len(queue[ResponseType]) <= Cardinality(Responded))'
<1>0. PICK a, r, b, s, q, t :
        /\ a = Cardinality(AnsweredClients) /\ b = Cardinality(AnsweredClients')
        /\ r = Cardinality(Responded) /\ s = Cardinality(Responded')
        /\ q = Len(queue[ResponseType]) /\ t = Len(queue'[ResponseType])
  OBVIOUS
<1>1. /\ IsFiniteSet(AnsweredClients) /\ IsFiniteSet(Responded)
      /\ a \in Nat /\ r \in Nat /\ q \in Nat /\ a + q <= r
  BY <1>0, CountsAreNumbers DEF AnswerInv
<1>2. /\ IsFiniteSet(AnsweredClients') /\ IsFiniteSet(Responded')
      /\ b \in Nat /\ s \in Nat
  <2>1. AnsweredClients' \in SUBSET Informed' /\ Responded' \in SUBSET Informed'
    BY DEF AnsweredClients, Answered, Responded, Informed, Programs
  <2>. QED
    BY <1>0, <2>1, FS_Subset, FS_CardinalityType
<1>3. t \in Nat
  <2>1. queue'[ResponseType] \in Seq(Programs)
    BY PrototypeMessages DEF PrototypeTypeOK
  <2>. QED
    BY <1>0, <2>1
<1>4. r <= s
  BY <1>0, <1>2, FS_Subset
<1>5. CASE /\ AnsweredClients' = AnsweredClients
           /\ t <= q
  BY <1>0, <1>1, <1>2, <1>3, <1>4, <1>5
<1>6. CASE /\ AnsweredClients' = AnsweredClients /\ t = q + 1
           /\ \E p : p \notin Responded /\ Responded' = Responded \cup {p}
  <2>1. s = r + 1
    <3>1. PICK p : p \notin Responded /\ Responded' = Responded \cup {p}
      BY <1>6
    <3>2. Cardinality(Responded \cup {p}) = Cardinality(Responded) + 1
      BY <1>1, <3>1, FS_AddElement
    <3>. QED
      BY <1>0, <3>1, <3>2
  <2>. QED
    BY <1>0, <1>1, <1>2, <1>3, <1>6, <2>1
<1>7. CASE /\ \E p : AnsweredClients' \subseteq AnsweredClients \cup {p}
           /\ t = q - 1
  <2>1. PICK p : AnsweredClients' \in SUBSET (AnsweredClients \cup {p})
    BY <1>7
  <2>2. IsFiniteSet(AnsweredClients \cup {p})
    BY <1>1, FS_AddElement
  <2>3. Cardinality(AnsweredClients \cup {p}) \in Nat
        /\ Cardinality(AnsweredClients \cup {p}) <= a + 1
    <3>1. Cardinality(AnsweredClients \cup {p}) = IF p \in AnsweredClients THEN a ELSE a + 1
      BY <1>0, <1>1, FS_AddElement
    <3>. QED
      BY <1>1, <3>1
  <2>4. b <= Cardinality(AnsweredClients \cup {p})
    BY <1>0, <2>1, <2>2, FS_Subset
  <2>5. b <= a + 1
    BY <1>1, <1>2, <2>3, <2>4
  <2>6. b + t <= s
    BY <1>1, <1>2, <1>3, <1>4, <1>7, <2>5
  <2>. QED
    BY <1>0, <2>6
<1>. QED
  BY <1>0, <1>5, <1>6, <1>7

(* Every step of a program keeps the count.                                 *)
LEMMA AnswerStep == PrototypeTypeOK /\ PrototypeTypeOK' /\ AnswerInv /\ [Next]_vars => AnswerInv'
<1>. SUFFICES ASSUME PrototypeTypeOK, PrototypeTypeOK', AnswerInv, [Next]_vars
              PROVE  AnswerInv'
  OBVIOUS
<1>0. /\ IsFiniteSet(Informed) /\ RequestType # ResponseType
      /\ lastId \in Nat /\ qid \in 0 .. lastId /\ queue \in [MessageType -> Seq(Programs)]
      /\ RequestType \in MessageType /\ ResponseType \in MessageType
      /\ \A p \in Programs : mqid[p] \in 0 .. lastId
      /\ \A server \in Servers :
           pc[server] = "respond" /\ Attached(mqid[server]) => got[server] # NoMessage
  BY PrototypeMessages DEF AnswerInv, PrototypeTypeOK
<1>1. ASSUME NEW p \in Programs, Step(p)
      PROVE  AnswerInv'
  <2>. DEFINE Due == \A server \in Servers :
                pc[server] = "respond" /\ Attached(mqid[server]) => got[server] # NoMessage
  <2>0. ASSUME OnlyMoves(p)
        PROVE  /\ \A other \in Programs : other # p => /\ pc'[other] = pc[other]
                                                       /\ mqid'[other] = mqid[other]
                                                       /\ got'[other] = got[other]
               /\ IsFiniteSet(Informed')
    BY <1>0, <2>0, OneMoreInformed DEF OnlyMoves, PrototypeTypeOK
  <2>1. CASE Launch(p)
    <3>1. /\ OnlyMoves(p) /\ pc[p] = "off" /\ got'[p] = got[p] /\ queue' \in {queue, EmptyQueue}
          /\ pc'[p] # "respond"
          /\ qid' = qid \/ qid' = NoQueue \/ (qid = NoQueue /\ qid' > lastId)
      BY <2>1, LaunchEffect
    <3>2. AnsweredClients' = AnsweredClients /\ Responded \subseteq Responded'
      BY <2>0, <3>1 DEF AnsweredClients, Answered, Responded, Programs
    <3>3. Due'
      <4>1. ASSUME NEW server \in Servers, pc'[server] = "respond", Attached(mqid[server])'
            PROVE  got'[server] # NoMessage
        <5>1. server \in Programs /\ server # p
          BY <3>1, <4>1 DEF Programs
        <5>2. mqid'[server] = mqid[server] /\ mqid[server] \in 0 .. lastId
          BY <1>0, <2>0, <3>1, <5>1
        <5>3. qid' = qid
          BY <1>0, <3>1, <4>1, <5>2 DEF Attached, NoQueue
        <5>. QED
          BY <1>0, <2>0, <3>1, <4>1, <5>1, <5>3 DEF Attached
      <4>. QED
        BY <4>1
    <3>4. Len(queue'[ResponseType]) <= Len(queue[ResponseType])
      <4>1. Len(queue[ResponseType]) \in Nat
        BY <1>0, CountsAreNumbers
      <4>2. Len(EmptyQueue[ResponseType]) = 0
        BY <1>0 DEF EmptyQueue
      <4>. QED
        BY <3>1, <4>1, <4>2
    <3>. QED
      BY <2>0, <3>1, <3>2, <3>3, <3>4, CountKept DEF AnswerInv
  <2>2. CASE ClientSends(p)
    <3>1. /\ OnlyMoves(p) /\ p \in Clients /\ pc[p] = "send" /\ mqid'[p] = mqid[p] /\ got'[p] = got[p]
          /\ qid' = qid /\ pc'[p] # "respond" /\ queue'[ResponseType] = queue[ResponseType]
      BY <1>0, <2>2, ClientSendsEffect
    <3>2. AnsweredClients' = AnsweredClients /\ Responded \subseteq Responded'
      BY <2>0, <3>1 DEF AnsweredClients, Answered, Responded, Programs
    <3>3. Due'
      BY <1>0, <2>0, <3>1 DEF Attached, Programs
    <3>4. Len(queue'[ResponseType]) = Len(queue[ResponseType]) /\ Len(queue[ResponseType]) \in Nat
      BY <1>0, <3>1, CountsAreNumbers
    <3>. QED
      BY <2>0, <3>1, <3>2, <3>3, <3>4, CountKept DEF AnswerInv
  <2>3. CASE ClientReceives(p)
    <3>1. /\ OnlyMoves(p) /\ p \in Clients /\ pc[p] = "receive" /\ mqid'[p] = mqid[p]
          /\ qid' = qid /\ pc'[p] = "destroy"
      BY <2>3, ClientReceivesEffect
    <3>2. /\ AnsweredClients' \subseteq AnsweredClients \cup {p}
          /\ got'[p] = got[p] => AnsweredClients' = AnsweredClients
          /\ Responded \subseteq Responded'
      BY <2>0, <3>1 DEF AnsweredClients, Answered, Responded, Programs
    <3>3. Due'
      BY <1>0, <2>0, <3>1, Roles DEF Attached, Programs
    <3>4. \/ Len(queue'[ResponseType]) = Len(queue[ResponseType]) - 1
          \/ got'[p] = got[p] /\ queue' = queue
      <4>1. CASE queue[ResponseType] # << >> /\ queue' = [queue EXCEPT ![ResponseType] = Tail(@)]
        <5>1. queue'[ResponseType] = Tail(queue[ResponseType]) /\ queue[ResponseType] \in Seq(Programs)
          BY <1>0, <4>1
        <5>2. Len(Tail(queue[ResponseType])) = Len(queue[ResponseType]) - 1
          BY <4>1, <5>1
        <5>. QED
          BY <5>1, <5>2
      <4>. QED
        BY <2>3, <4>1, ClientReceivesEffect
    <3>5. Len(queue[ResponseType]) \in Nat
      BY <1>0, CountsAreNumbers
    <3>6. \/ /\ AnsweredClients' = AnsweredClients
             /\ Len(queue'[ResponseType]) <= Len(queue[ResponseType])
          \/ /\ AnsweredClients' \subseteq AnsweredClients \cup {p}
             /\ Len(queue'[ResponseType]) = Len(queue[ResponseType]) - 1
      BY <3>2, <3>4, <3>5
    <3>7. (Cardinality(AnsweredClients) + Len(queue[ResponseType]) <= Cardinality(Responded))'
      BY <2>0, <3>1, <3>2, <3>6, CountKept
    <3>. QED
      BY <2>0, <3>1, <3>3, <3>7 DEF AnswerInv
  <2>4. CASE RemovesQueue(p)
    <3>1. /\ OnlyMoves(p) /\ p \in Clients /\ pc[p] = "destroy" /\ mqid'[p] = mqid[p] /\ got'[p] = got[p]
          /\ pc'[p] = "exited"
          /\ qid' = NoQueue \/ qid' = qid
      BY <2>4, RemovesQueueEffect
    <3>2. AnsweredClients' = AnsweredClients /\ Responded \subseteq Responded'
      BY <2>0, <3>1 DEF AnsweredClients, Answered, Responded, Programs
    <3>3. Due'
      BY <1>0, <2>0, <3>1 DEF Attached, Programs
    <3>4. Len(queue'[ResponseType]) <= Len(queue[ResponseType])
      <4>1. Len(queue[ResponseType]) \in Nat
        BY <1>0, CountsAreNumbers
      <4>2. CASE queue' = EmptyQueue
        <5>1. queue'[ResponseType] = << >>
          BY <1>0, <4>2 DEF EmptyQueue
        <5>2. Len(queue'[ResponseType]) = 0
          BY <5>1
        <5>. QED
          BY <4>1, <5>2
      <4>3. CASE queue' = queue
        BY <4>1, <4>3
      <4>. QED
        BY <2>4, <4>2, <4>3, RemovesQueueEffect
    <3>. QED
      BY <2>0, <3>1, <3>2, <3>3, <3>4, CountKept DEF AnswerInv
  <2>5. CASE ServerReceives(p)
    <3>1. /\ OnlyMoves(p) /\ p \in Servers /\ pc[p] = "receive" /\ mqid'[p] = mqid[p]
          /\ qid' = qid /\ queue'[ResponseType] = queue[ResponseType]
      BY <1>0, <2>5, ServerReceivesEffect
    <3>2. AnsweredClients' = AnsweredClients /\ Responded \subseteq Responded'
      BY <2>0, <3>1, Roles DEF AnsweredClients, Answered, Responded, Programs
    <3>3. Attached(mqid[p]) => got'[p] # NoMessage
      <4>1. CASE queue[RequestType] # << >> /\ got'[p] = Head(queue[RequestType])
        <5>1. queue[RequestType] \in Seq(Programs)
          BY <1>0
        <5>2. Head(queue[RequestType]) \in Programs
          BY <4>1, <5>1
        <5>. QED
          BY <4>1, <5>2, NoMessageAssumption
      <4>. QED
        BY <2>5, <4>1, ServerReceivesEffect
    <3>4. Due'
      BY <1>0, <2>0, <3>1, <3>3 DEF Attached, Programs
    <3>5. Len(queue'[ResponseType]) = Len(queue[ResponseType]) /\ Len(queue[ResponseType]) \in Nat
      BY <1>0, <3>1, CountsAreNumbers
    <3>. QED
      BY <2>0, <3>1, <3>2, <3>4, <3>5, CountKept DEF AnswerInv
  <2>6. CASE ServerResponds(p)
    <3>1. /\ OnlyMoves(p) /\ p \in Servers /\ pc[p] = "respond" /\ pc'[p] = "exited"
          /\ mqid'[p] = mqid[p] /\ got'[p] = got[p] /\ qid' = qid
      BY <2>6, ServerRespondsEffect
    <3>2. /\ AnsweredClients' = AnsweredClients /\ Responded \subseteq Responded'
          /\ p \notin Responded
          /\ got[p] # NoMessage => Responded' = Responded \cup {p}
      BY <2>0, <3>1, Roles DEF AnsweredClients, Answered, Responded, Programs
    <3>3. Due'
      BY <1>0, <2>0, <3>1 DEF Attached, Programs
    <3>4. Len(queue[ResponseType]) \in Nat
      BY <1>0, CountsAreNumbers
    <3>5. \/ Len(queue'[ResponseType]) = Len(queue[ResponseType]) + 1 /\ got[p] # NoMessage
          \/ queue' = queue
      <4>1. CASE Attached(mqid[p]) /\ queue' = [queue EXCEPT ![ResponseType] = Append(@, p)]
        <5>1. queue'[ResponseType] = Append(queue[ResponseType], p) /\ queue[ResponseType] \in Seq(Programs)
          BY <1>0, <4>1
        <5>2. got[p] # NoMessage
          BY <1>0, <3>1, <4>1
        <5>. QED
          BY <5>1, <5>2
      <4>. QED
        BY <2>6, <4>1, ServerRespondsEffect
    <3>6. CASE Len(queue'[ResponseType]) = Len(queue[ResponseType]) + 1 /\ got[p] # NoMessage
      BY <2>0, <3>1, <3>2, <3>3, <3>6, CountKept DEF AnswerInv
    <3>7. CASE queue' = queue
      <4>1. Len(queue'[ResponseType]) <= Len(queue[ResponseType])
        BY <3>4, <3>7
      <4>. QED
        BY <2>0, <3>1, <3>2, <3>3, <4>1, CountKept DEF AnswerInv
    <3>. QED
      BY <3>5, <3>6, <3>7
  <2>. QED
    BY <1>1, <2>1, <2>2, <2>3, <2>4, <2>5, <2>6 DEF Step
<1>2. CASE UNCHANGED vars
  BY <1>2 DEF vars, queueVars, AnswerInv, Informed, AnsweredClients, Answered, Responded, Attached
<1>. QED
  BY <1>1, <1>2 DEF Next

(* However many clients and servers there are, with the queue class and     *)
(* without it, and whatever fails, an answer follows a request              *)
(* (rapidPrototype/ipcClient.cc, ipcServer.cc, ipc/client.cc,               *)
(* ipc/server.cc).                                                          *)
THEOREM AnswerFollowsRequestHolds == Spec => []AnswerFollowsRequest
<1>1. PrototypeTypeOK /\ AnswerInv => AnswerFollowsRequest
  <2>. SUFFICES ASSUME PrototypeTypeOK, AnswerInv PROVE AnswerFollowsRequest
    OBVIOUS
  <2>. DEFINE Asked == {server \in Servers : got[server] # NoMessage}
  <2>1. IsFiniteSet(Asked)
    <3>1. IsFiniteSet(Informed) /\ Asked \in SUBSET Informed
      BY DEF AnswerInv, Informed, Programs
    <3>. QED
      BY <3>1, FS_Subset
  <2>2. Responded \in SUBSET Asked
    BY DEF Responded
  <2>3. Cardinality(Responded) <= Cardinality(Asked) /\ Cardinality(Asked) \in Nat
    BY <2>1, <2>2, FS_Subset, FS_CardinalityType
  <2>4. /\ Cardinality(AnsweredClients) \in Nat /\ Cardinality(Responded) \in Nat
        /\ Len(queue[ResponseType]) \in Nat
        /\ Cardinality(AnsweredClients) + Len(queue[ResponseType]) <= Cardinality(Responded)
    BY CountsAreNumbers DEF AnswerInv
  <2>5. Cardinality(AnsweredClients) + Len(queue[ResponseType]) <= Cardinality(Asked)
    BY <2>3, <2>4
  <2>. QED
    BY <2>5 DEF AnswerFollowsRequest, AnsweredClients
<1>. QED
  BY <1>1, PrototypeTypeInvariant, AnswerInit, AnswerStep, PTL DEF Spec

-----------------------------------------------------------------------------
(* In pairs, client and server are synchronized.                            *)

(* The program was launched and has not ended yet.                          *)
IsBusy(p) == pc[p] \notin {"off", "exited"}

(* The user launches a client and a server at a time: one program at most   *)
(* is busy in each role, and none in the one that is behind.                *)
InPairs ==
  /\ IsFiniteSet(Started(Clients)) /\ IsFiniteSet(Started(Servers))
  /\ Cardinality(Started(Clients)) <= Cardinality(Started(Servers)) + 1
  /\ Cardinality(Started(Servers)) <= Cardinality(Started(Clients)) + 1
  /\ \A c, d \in Clients : IsBusy(c) /\ IsBusy(d) => c = d
  /\ \A s, t \in Servers : IsBusy(s) /\ IsBusy(t) => s = t
  /\ Cardinality(Started(Clients)) < Cardinality(Started(Servers)) =>
       \A c \in Clients : ~IsBusy(c)
  /\ Cardinality(Started(Servers)) < Cardinality(Started(Clients)) =>
       \A s \in Servers : ~IsBusy(s)

(* InPairs is about that way to launch them only.                           *)
PairsInv == inPairs => InPairs

(* Before the first launch nobody is busy.                                  *)
LEMMA PairsInit == Init => PairsInv
<1>. SUFFICES ASSUME Init PROVE PairsInv
  OBVIOUS
<1>1. \A p \in Programs : pc[p] = "off"
  BY DEF Init
<1>2. Started(Clients) = {} /\ Started(Servers) = {}
  BY <1>1 DEF Started, Programs
<1>3. /\ \A c \in Clients : ~IsBusy(c)
      /\ \A s \in Servers : ~IsBusy(s)
  BY <1>1 DEF IsBusy, Programs
<1>. QED
  BY <1>2, <1>3, FS_EmptySet DEF PairsInv, InPairs

(* A program that was launched moves on: it is busy no more than before.    *)
LEMMA MovesOn ==
  ASSUME PrototypeTypeOK, NEW p \in Programs, OnlyMoves(p), IsBusy(p), pc'[p] # "off"
  PROVE  /\ Started(Clients)' = Started(Clients) /\ Started(Servers)' = Started(Servers)
         /\ \A q \in Programs : IsBusy(q)' => IsBusy(q)
<1>1. \A q \in Programs : q # p => pc'[q] = pc[q]
  BY DEF OnlyMoves, PrototypeTypeOK
<1>. QED
  BY <1>1 DEF Started, IsBusy, Programs

(* A launch is that of the program the user's pair lacks, or of the first   *)
(* one of a new pair.                                                       *)
LEMMA LaunchInPairs ==
  ASSUME PrototypeTypeOK, inPairs, InPairs, NEW p \in Programs, Launch(p)
  PROVE  InPairs'
<1>1. /\ OnlyMoves(p) /\ pc[p] = "off" /\ pc'[p] = IF p \in Clients THEN "send" ELSE "receive"
  BY LaunchEffect
<1>2. /\ \A q \in Programs : q # p => pc'[q] = pc[q]
      /\ IsBusy(p)' /\ ~IsBusy(p)
      /\ \A q \in Programs : q # p => (IsBusy(q)' <=> IsBusy(q))
  BY <1>1 DEF OnlyMoves, PrototypeTypeOK, IsBusy
<1>3. NextInPair(p)
  BY DEF Launch
<1>4. PICK c, s, C, S : /\ c = Cardinality(Started(Clients)) /\ s = Cardinality(Started(Servers))
                        /\ C = Cardinality(Started(Clients)') /\ S = Cardinality(Started(Servers)')
  OBVIOUS
<1>5. c \in Nat /\ s \in Nat /\ c <= s + 1 /\ s <= c + 1
  BY <1>4, FS_CardinalityType DEF InPairs
<1>6. Busy = {} => \A q \in Programs : ~IsBusy(q)
  BY DEF Busy, IsBusy
<1>7. CASE p \in Clients
  <2>0. p \notin Servers /\ Programs \ Clients = Servers
    BY <1>7, PrototypeAssumption DEF Programs
  <2>1. Started(Clients)' = Started(Clients) \cup {p} /\ p \notin Started(Clients)
        /\ Started(Servers)' = Started(Servers)
    BY <1>1, <1>2, <1>7, <2>0 DEF Started, Programs
  <2>2. C = c + 1 /\ S = s /\ IsFiniteSet(Started(Clients)') /\ IsFiniteSet(Started(Servers)')
    BY <1>4, <2>1, FS_AddElement DEF InPairs
  <2>3. c < s \/ (c = s /\ Busy = {})
    BY <1>3, <1>4, <1>7, <2>0 DEF NextInPair
  <2>4. \A q \in Clients : ~IsBusy(q)
    BY <1>4, <1>6, <2>3 DEF InPairs, Programs
  <2>5. S < C => \A q \in Servers : ~IsBusy(q)
    BY <1>5, <1>6, <2>2, <2>3 DEF Programs
  <2>6. \A q, r \in Clients : IsBusy(q)' /\ IsBusy(r)' => q = r
    BY <1>2, <2>4 DEF Programs
  <2>7. \A q \in Servers : IsBusy(q)' <=> IsBusy(q)
    BY <1>2, <2>0 DEF Programs
  <2>8. C <= S + 1 /\ S <= C + 1 /\ ~(C < S)
    BY <1>5, <2>2, <2>3
  <2>9. \A q, r \in Servers : IsBusy(q)' /\ IsBusy(r)' => q = r
    BY <2>7 DEF InPairs
  <2>. QED
    BY <1>4, <2>2, <2>5, <2>6, <2>7, <2>8, <2>9 DEF InPairs
<1>8. CASE p \in Servers
  <2>0. p \notin Clients /\ Programs \ Servers = Clients
    BY <1>8, PrototypeAssumption DEF Programs
  <2>1. Started(Servers)' = Started(Servers) \cup {p} /\ p \notin Started(Servers)
        /\ Started(Clients)' = Started(Clients)
    BY <1>1, <1>2, <1>8, <2>0 DEF Started, Programs
  <2>2. S = s + 1 /\ C = c /\ IsFiniteSet(Started(Clients)') /\ IsFiniteSet(Started(Servers)')
    BY <1>4, <2>1, FS_AddElement DEF InPairs
  <2>3. s < c \/ (s = c /\ Busy = {})
    BY <1>3, <1>4, <1>8, <2>0 DEF NextInPair
  <2>4. \A q \in Servers : ~IsBusy(q)
    BY <1>4, <1>6, <2>3 DEF InPairs, Programs
  <2>5. C < S => \A q \in Clients : ~IsBusy(q)
    BY <1>5, <1>6, <2>2, <2>3 DEF Programs
  <2>6. \A q, r \in Servers : IsBusy(q)' /\ IsBusy(r)' => q = r
    BY <1>2, <2>4 DEF Programs
  <2>7. \A q \in Clients : IsBusy(q)' <=> IsBusy(q)
    BY <1>2, <2>0 DEF Programs
  <2>8. C <= S + 1 /\ S <= C + 1 /\ ~(S < C)
    BY <1>5, <2>2, <2>3
  <2>9. \A q, r \in Clients : IsBusy(q)' /\ IsBusy(r)' => q = r
    BY <2>7 DEF InPairs
  <2>. QED
    BY <1>4, <2>2, <2>5, <2>6, <2>7, <2>8, <2>9 DEF InPairs
<1>. QED
  BY <1>7, <1>8 DEF Programs

(* What every step but a launch does to the programs.                       *)
LEMMA StepMovesOn ==
  ASSUME PrototypeTypeOK, NEW p \in Programs, Step(p), ~Launch(p)
  PROVE  OnlyMoves(p) /\ IsBusy(p) /\ pc'[p] # "off"
<1>1. CASE ClientSends(p)
  BY <1>1, ClientSendsEffect DEF IsBusy
<1>2. CASE ClientReceives(p)
  BY <1>2, ClientReceivesEffect DEF IsBusy
<1>3. CASE RemovesQueue(p)
  BY <1>3, RemovesQueueEffect DEF IsBusy
<1>4. CASE ServerReceives(p)
  BY <1>4, ServerReceivesEffect DEF IsBusy
<1>5. CASE ServerResponds(p)
  BY <1>5, ServerRespondsEffect DEF IsBusy
<1>. QED
  BY <1>1, <1>2, <1>3, <1>4, <1>5 DEF Step

(* There is never more than one client and one server at work.              *)
LEMMA PairsStep == PrototypeTypeOK /\ PairsInv /\ [Next]_vars => PairsInv'
<1>. SUFFICES ASSUME PrototypeTypeOK, PairsInv, [Next]_vars, inPairs' PROVE InPairs'
  BY DEF PairsInv
<1>1. inPairs /\ InPairs
  BY DEF PairsInv, Next, vars
<1>2. ASSUME NEW p \in Programs, Step(p) PROVE InPairs'
  <2>1. CASE Launch(p)
    BY <1>1, <2>1, LaunchInPairs
  <2>2. CASE ~Launch(p)
    <3>1. /\ Started(Clients)' = Started(Clients) /\ Started(Servers)' = Started(Servers)
          /\ \A q \in Programs : IsBusy(q)' => IsBusy(q)
      BY <1>2, <2>2, StepMovesOn, MovesOn
    <3>2. Clients \subseteq Programs /\ Servers \subseteq Programs
      BY DEF Programs
    <3>. HIDE DEF IsBusy, Started
    <3>. QED
      BY <1>1, <3>1, <3>2 DEF InPairs
  <2>. QED
    BY <2>1, <2>2
<1>3. CASE UNCHANGED vars
  BY <1>1, <1>3 DEF vars, InPairs, IsBusy, Started
<1>. QED
  BY <1>2, <1>3 DEF Next

(* A client waits for an answer on the queue that the key names.            *)
Awaiting(c) == c \in Clients /\ pc[c] = "receive" /\ Attached(mqid[c])

(* A server is about to respond on that queue.                              *)
Responding(s) == s \in Servers /\ pc[s] = "respond" /\ Attached(mqid[s])

(* No server is about to respond.  Apart from that the exchange of the pair *)
(* at work is a request, a server that responds to it, or the response.     *)
Quiet == \A s \in Servers : ~Responding(s)

(* The request of client c waits.                                           *)
Asked(c) == queue[RequestType] = <<c>> /\ queue[ResponseType] = << >> /\ Quiet

(* Server s has the request and is about to respond.                        *)
InWork(s) == queue[RequestType] = << >> /\ queue[ResponseType] = << >> /\ Responding(s)

(* The response of server s waits.                                          *)
Replied(s) ==
  queue[RequestType] = << >> /\ queue[ResponseType] = <<s>> /\ pc[s] = "exited" /\ Quiet

(* What is under way in the pair at work; the client that asked awaits it.  *)
UnderWay ==
  \/ queue[RequestType] = << >> /\ queue[ResponseType] = << >> /\ Quiet
  \/ \E c \in Clients : Awaiting(c) /\ Asked(c)
  \/ \E s \in Servers : Awaiting(got[s]) /\ (InWork(s) \/ Replied(s))

(* An answered client has the answer of the server that got its request.    *)
ExchangeInv ==
  inPairs =>
    /\ UnderWay
    /\ \A c \in Clients : Answered(c) =>
         /\ got[c] \in Servers
         /\ pc[got[c]] = "exited"
         /\ got[got[c]] = c

(* At the start nobody has asked.                                           *)
LEMMA ExchangeStart == Init => ExchangeInv
<1>. SUFFICES ASSUME Init PROVE ExchangeInv
  OBVIOUS
<1>1. queue[RequestType] = << >> /\ queue[ResponseType] = << >>
  BY PrototypeMessages DEF Init, QueueInit, EmptyQueue
<1>2. /\ \A p \in Programs : pc[p] = "off"
      /\ \A c \in Clients : ~Answered(c)
  BY DEF Init, Answered, Programs
<1>. QED
  BY <1>1, <1>2 DEF ExchangeInv, UnderWay, Quiet, Responding, Programs

(* What the others see of the step of p: nothing, unless p removes the      *)
(* queue or creates it.                                                     *)
LEMMA OthersStay ==
  ASSUME PrototypeTypeOK, NEW p \in Programs, OnlyMoves(p), qid' = qid
  PROVE  \A q \in Programs : q # p =>
           /\ pc'[q] = pc[q] /\ got'[q] = got[q]
           /\ Awaiting(q)' <=> Awaiting(q)
           /\ Responding(q)' <=> Responding(q)
<1>1. \A q \in Programs : q # p => pc'[q] = pc[q] /\ got'[q] = got[q] /\ mqid'[q] = mqid[q]
  BY DEF OnlyMoves, PrototypeTypeOK
<1>. QED
  BY <1>1 DEF Awaiting, Responding, Attached

(* A client that does not await an answer is the only one at work, and      *)
(* there is no exchange.                                                    *)
LEMMA NothingUnderWay ==
  ASSUME PrototypeTypeOK, inPairs, InPairs, ExchangeInv,
         NEW c \in Clients, IsBusy(c), ~Awaiting(c)
  PROVE  queue[RequestType] = << >> /\ queue[ResponseType] = << >> /\ Quiet
<1>1. \A d \in Clients : ~Awaiting(d)
  BY DEF InPairs, Awaiting, IsBusy
<1>2. \A s \in Servers : ~Awaiting(got[s])
  BY <1>1 DEF Awaiting
<1>. QED
  BY <1>1, <1>2 DEF ExchangeInv, UnderWay

(* The answers that clients have stay as they are, as the servers that gave *)
(* them do.                                                                 *)
LEMMA AnswersStay ==
  ASSUME PrototypeTypeOK, inPairs, ExchangeInv, NEW p \in Programs, OnlyMoves(p),
         pc[p] # "exited"
  PROVE  \A c \in Clients : Answered(c)' /\ got'[c] = got[c] =>
           got'[c] \in Servers /\ pc'[got'[c]] = "exited" /\ got'[got'[c]] = c
<1>1. \A q \in Programs : q # p => pc'[q] = pc[q] /\ got'[q] = got[q]
  BY DEF OnlyMoves, PrototypeTypeOK
<1>2. ASSUME NEW c \in Clients, Answered(c)', got'[c] = got[c]
      PROVE  got'[c] \in Servers /\ pc'[got'[c]] = "exited" /\ got'[got'[c]] = c
  <2>1. got[c] \in Servers /\ pc[got[c]] = "exited" /\ got[got[c]] = c
    BY <1>2 DEF Answered, ExchangeInv
  <2>2. got[c] # p /\ got[c] \in Programs
    BY <2>1 DEF Programs
  <2>. QED
    BY <1>1, <1>2, <2>1, <2>2
<1>. QED
  BY <1>2

(* A program that neither awaits nor gives an answer leaves the exchange    *)
(* alone.                                                                   *)
LEMMA ExchangeStays ==
  ASSUME PrototypeTypeOK, UnderWay, NEW p \in Programs, OnlyMoves(p),
         qid' = qid, queue' = queue, ~Awaiting(p), ~Responding(p), ~Responding(p)',
         pc[p] # "exited"
  PROVE  UnderWay'
<1>1. \A q \in Programs : q # p => /\ pc'[q] = pc[q] /\ got'[q] = got[q]
                                   /\ Awaiting(q)' <=> Awaiting(q)
                                   /\ Responding(q)' <=> Responding(q)
  BY OthersStay
<1>2. Quiet => Quiet'
  BY <1>1 DEF Quiet, Programs
<1>3. \A q : Awaiting(q) => q # p /\ q \in Programs
  BY DEF Awaiting, Programs
<1>4. CASE queue[RequestType] = << >> /\ queue[ResponseType] = << >> /\ Quiet
  BY <1>2, <1>4 DEF UnderWay
<1>5. CASE \E c \in Clients : Awaiting(c) /\ Asked(c)
  <2>1. PICK c \in Clients : Awaiting(c) /\ Asked(c)
    BY <1>5
  <2>2. Awaiting(c)' /\ Asked(c)'
    BY <1>1, <1>2, <1>3, <2>1 DEF Asked
  <2>. QED
    BY <2>2 DEF UnderWay
<1>6. CASE \E s \in Servers : Awaiting(got[s]) /\ (InWork(s) \/ Replied(s))
  <2>1. PICK s \in Servers : Awaiting(got[s]) /\ (InWork(s) \/ Replied(s))
    BY <1>6
  <2>2. s # p /\ s \in Programs
    BY <2>1 DEF InWork, Replied, Programs
  <2>3. got'[s] = got[s] /\ Awaiting(got[s])'
    BY <1>1, <1>3, <2>1, <2>2
  <2>4. InWork(s)' \/ Replied(s)'
    BY <1>1, <1>2, <2>1, <2>2 DEF InWork, Replied
  <2>. QED
    BY <2>3, <2>4 DEF UnderWay
<1>. QED
  BY <1>4, <1>5, <1>6 DEF UnderWay

(* No step of a program breaks into the exchange of a pair.                 *)
LEMMA ExchangeStep ==
  PrototypeTypeOK /\ PairsInv /\ ExchangeInv /\ [Next]_vars => ExchangeInv'
<1>. SUFFICES ASSUME PrototypeTypeOK, PairsInv, ExchangeInv, [Next]_vars, inPairs'
              PROVE  /\ UnderWay'
                     /\ \A c \in Clients : Answered(c)' =>
                          /\ got'[c] \in Servers
                          /\ pc'[got'[c]] = "exited"
                          /\ got'[got'[c]] = c
  BY DEF ExchangeInv
<1>0. /\ inPairs /\ InPairs /\ UnderWay
      /\ \A c \in Clients : Answered(c) =>
           got[c] \in Servers /\ pc[got[c]] = "exited" /\ got[got[c]] = c
  BY DEF PairsInv, ExchangeInv, Next, vars
<1>1. /\ lastId \in Nat /\ qid \in 0 .. lastId /\ queue \in [MessageType -> Seq(Programs)]
      /\ RequestType \in MessageType /\ ResponseType \in MessageType /\ RequestType # ResponseType
      /\ \A q \in Programs : mqid[q] \in 0 .. lastId
  BY PrototypeMessages DEF PrototypeTypeOK
<1>2. ASSUME NEW p \in Programs, Step(p)
      PROVE  /\ UnderWay'
             /\ \A c \in Clients : Answered(c)' =>
                  got'[c] \in Servers /\ pc'[got'[c]] = "exited" /\ got'[got'[c]] = c
  <2>0. ASSUME OnlyMoves(p), pc[p] # "exited", p \in Clients => got'[p] = got[p]
        PROVE  \A c \in Clients : Answered(c)' =>
                 got'[c] \in Servers /\ pc'[got'[c]] = "exited" /\ got'[got'[c]] = c
    <3>1. \A c \in Clients : got'[c] = got[c]
      BY <2>0 DEF OnlyMoves, PrototypeTypeOK, Programs
    <3>. QED
      BY <1>0, <2>0, <3>1, AnswersStay
  <2>1. CASE Launch(p)
    <3>1. /\ OnlyMoves(p) /\ pc[p] = "off" /\ got'[p] = got[p] /\ queue' = queue
          /\ qid' = qid \/ (qid = NoQueue /\ qid' > lastId)
          /\ pc'[p] # "respond"
      BY <1>0, <2>1, LaunchEffect
    <3>2. ~Awaiting(p) /\ ~Responding(p) /\ ~Responding(p)'
      BY <3>1 DEF Awaiting, Responding
    <3>3. CASE qid' = qid
      BY <1>0, <2>0, <3>1, <3>2, <3>3, ExchangeStays
    <3>4. CASE qid = NoQueue /\ qid' > lastId
      <4>1. queue[RequestType] = << >> /\ queue[ResponseType] = << >>
        BY <1>0, <3>4 DEF UnderWay, Awaiting, Attached
      <4>2. ASSUME NEW s \in Servers PROVE ~Responding(s)'
        <5>1. CASE s = p
          BY <3>2, <5>1
        <5>2. CASE s # p
          <6>1. mqid'[s] = mqid[s] /\ mqid[s] \in 0 .. lastId
            BY <1>1, <3>1, <5>2 DEF OnlyMoves, PrototypeTypeOK, Programs
          <6>2. mqid'[s] # qid'
            BY <1>1, <3>4, <6>1
          <6>. QED
            BY <6>2 DEF Responding, Attached
        <5>. QED
          BY <5>1, <5>2
      <4>3. UnderWay'
        BY <3>1, <4>1, <4>2 DEF UnderWay, Quiet
      <4>. QED
        BY <2>0, <3>1, <4>3
    <3>. QED
      BY <3>1, <3>3, <3>4
  <2>2. CASE ClientSends(p)
    <3>1. /\ OnlyMoves(p) /\ p \in Clients /\ pc[p] = "send" /\ mqid'[p] = mqid[p] /\ got'[p] = got[p]
          /\ qid' = qid /\ pc'[p] # "respond"
      BY <2>2, ClientSendsEffect
    <3>2. ~Awaiting(p) /\ IsBusy(p) /\ ~Responding(p) /\ ~Responding(p)'
      BY <3>1 DEF Awaiting, IsBusy, Responding
    <3>3. queue[RequestType] = << >> /\ queue[ResponseType] = << >> /\ Quiet
      BY <1>0, <3>1, <3>2, NothingUnderWay
    <3>4. CASE /\ Attached(mqid[p]) /\ pc'[p] = "receive"
               /\ queue' = [queue EXCEPT ![RequestType] = Append(@, p)]
      <4>1. queue'[RequestType] = <<p>> /\ queue'[ResponseType] = << >>
        BY <1>1, <3>3, <3>4
      <4>2. Quiet'
        BY <3>1, <3>2, <3>3, OthersStay DEF Quiet, Programs
      <4>3. Awaiting(p)'
        BY <3>1, <3>4 DEF Awaiting, Attached
      <4>4. UnderWay'
        BY <3>1, <4>1, <4>2, <4>3 DEF UnderWay, Asked
      <4>. QED
        BY <2>0, <3>1, <4>4
    <3>5. CASE queue' = queue
      <4>1. UnderWay'
        BY <1>0, <3>1, <3>2, <3>5, ExchangeStays
      <4>. QED
        BY <2>0, <3>1, <4>1
    <3>. QED
      BY <2>2, <3>4, <3>5, ClientSendsEffect
  <2>3. CASE ClientReceives(p)
    <3>1. /\ OnlyMoves(p) /\ p \in Clients /\ pc[p] = "receive" /\ pc'[p] = "destroy"
          /\ qid' = qid
      BY <2>3, ClientReceivesEffect
    <3>2. IsBusy(p) /\ ~Responding(p) /\ ~Responding(p)'
      BY <3>1 DEF IsBusy, Responding
    <3>3. CASE /\ Attached(mqid[p]) /\ queue[ResponseType] # << >>
               /\ queue' = [queue EXCEPT ![ResponseType] = Tail(@)]
               /\ got'[p] = Head(queue[ResponseType])
      <4>1. PICK s \in Servers : Awaiting(got[s]) /\ Replied(s)
        BY <1>0, <3>3 DEF UnderWay, Asked, InWork
      <4>2. got[s] = p
        BY <1>0, <3>1, <3>2, <4>1 DEF InPairs, Awaiting, IsBusy
      <4>3. /\ queue[RequestType] = << >> /\ queue[ResponseType] = <<s>> /\ Quiet
            /\ pc[s] = "exited"
        BY <4>1 DEF Replied
      <4>4. queue'[RequestType] = << >> /\ queue'[ResponseType] = << >> /\ got'[p] = s
        BY <1>1, <3>3, <4>3
      <4>5. Quiet'
        BY <3>1, <3>2, <4>3, OthersStay DEF Quiet, Programs
      <4>6. s # p /\ s \in Programs
        BY <3>1, <4>3 DEF Programs
      <4>7. pc'[s] = "exited" /\ got'[s] = p
        BY <3>1, <4>2, <4>3, <4>6, OthersStay
      <4>8. ASSUME NEW c \in Clients, Answered(c)'
            PROVE  got'[c] \in Servers /\ pc'[got'[c]] = "exited" /\ got'[got'[c]] = c
        <5>1. CASE c = p
          BY <4>4, <4>7, <5>1
        <5>2. CASE c # p
          <6>1. got'[c] = got[c]
            BY <3>1, <5>2, OthersStay DEF Programs
          <6>. QED
            BY <1>0, <3>1, <4>8, <6>1, AnswersStay
        <5>. QED
          BY <5>1, <5>2
      <4>. QED
        BY <4>4, <4>5, <4>8 DEF UnderWay
    <3>4. CASE ~Attached(mqid[p]) /\ queue' = queue /\ got'[p] = got[p]
      <4>1. ~Awaiting(p)
        BY <3>4 DEF Awaiting
      <4>2. UnderWay'
        BY <1>0, <3>1, <3>2, <3>4, <4>1, ExchangeStays
      <4>. QED
        BY <2>0, <3>1, <3>4, <4>2
    <3>. QED
      BY <2>3, <3>3, <3>4, ClientReceivesEffect
  <2>4. CASE RemovesQueue(p)
    <3>1. /\ OnlyMoves(p) /\ p \in Clients /\ pc[p] = "destroy" /\ got'[p] = got[p] /\ pc'[p] = "exited"
      BY <2>4, RemovesQueueEffect
    <3>2. ~Awaiting(p) /\ IsBusy(p) /\ ~Responding(p) /\ ~Responding(p)'
      BY <3>1 DEF Awaiting, IsBusy, Responding
    <3>3. CASE qid' = NoQueue /\ queue' = EmptyQueue
      <4>1. queue'[RequestType] = << >> /\ queue'[ResponseType] = << >>
        BY <1>1, <3>3 DEF EmptyQueue
      <4>2. Quiet'
        BY <3>3 DEF Quiet, Responding, Attached
      <4>. QED
        BY <2>0, <3>1, <4>1, <4>2 DEF UnderWay
    <3>4. CASE qid' = qid /\ queue' = queue
      <4>1. UnderWay'
        BY <1>0, <3>1, <3>2, <3>4, ExchangeStays
      <4>. QED
        BY <2>0, <3>1, <4>1
    <3>. QED
      BY <2>4, <3>3, <3>4, RemovesQueueEffect
  <2>5. CASE ServerReceives(p)
    <3>1. /\ OnlyMoves(p) /\ p \in Servers /\ pc[p] = "receive" /\ mqid'[p] = mqid[p] /\ qid' = qid
          /\ p \notin Clients
      BY <2>5, ServerReceivesEffect, Roles
    <3>2. ~Awaiting(p) /\ ~Responding(p)
      BY <3>1 DEF Awaiting, Responding
    <3>3. CASE /\ Attached(mqid[p]) /\ queue[RequestType] # << >>
               /\ queue' = [queue EXCEPT ![RequestType] = Tail(@)]
               /\ got'[p] = Head(queue[RequestType]) /\ pc'[p] = "respond"
      <4>1. PICK c \in Clients : Awaiting(c) /\ Asked(c)
        BY <1>0, <3>3 DEF UnderWay, InWork, Replied
      <4>2. queue[RequestType] = <<c>> /\ queue[ResponseType] = << >>
        BY <4>1 DEF Asked
      <4>3. queue'[RequestType] = << >> /\ queue'[ResponseType] = << >> /\ got'[p] = c
        BY <1>1, <3>3, <4>2
      <4>4. c # p /\ c \in Programs
        BY <3>1 DEF Programs
      <4>5. Awaiting(c)'
        BY <3>1, <4>1, <4>4, OthersStay
      <4>6. Responding(p)'
        BY <3>1, <3>3 DEF Responding, Attached
      <4>7. (Awaiting(got[p]))'
        BY <4>3, <4>5 DEF Awaiting
      <4>8. UnderWay'
        BY <3>1, <4>3, <4>6, <4>7 DEF UnderWay, InWork
      <4>. QED
        BY <2>0, <3>1, <4>8
    <3>4. CASE ~Attached(mqid[p]) /\ queue' = queue
      <4>1. ~Responding(p)'
        BY <3>1, <3>4 DEF Responding, Attached
      <4>2. UnderWay'
        BY <1>0, <3>1, <3>2, <3>4, <4>1, ExchangeStays
      <4>. QED
        BY <2>0, <3>1, <4>2
    <3>. QED
      BY <2>5, <3>3, <3>4, ServerReceivesEffect
  <2>6. CASE ServerResponds(p)
    <3>1. /\ OnlyMoves(p) /\ p \in Servers /\ pc[p] = "respond" /\ pc'[p] = "exited"
          /\ mqid'[p] = mqid[p] /\ got'[p] = got[p] /\ qid' = qid /\ p \notin Clients
      BY <2>6, ServerRespondsEffect, Roles
    <3>2. ~Awaiting(p) /\ ~Responding(p)' /\ IsBusy(p)
      BY <3>1 DEF Awaiting, Responding, IsBusy
    <3>3. CASE Attached(mqid[p])
      <4>1. Responding(p)
        BY <3>1, <3>3 DEF Responding
      <4>2. \A s \in Servers : Responding(s) => s = p
        BY <1>0, <3>1, <3>2 DEF InPairs, Responding, IsBusy
      <4>3. Awaiting(got[p]) /\ InWork(p)
        BY <1>0, <3>1, <4>1, <4>2 DEF UnderWay, Asked, Replied, Quiet, InWork
      <4>4. queue[RequestType] = << >> /\ queue[ResponseType] = << >>
        BY <4>3 DEF InWork
      <4>5. Quiet'
        BY <3>1, <3>2, <4>2, OthersStay DEF Quiet, Programs
      <4>6. CASE queue' = [queue EXCEPT ![ResponseType] = Append(@, p)]
        <5>1. queue'[RequestType] = << >> /\ queue'[ResponseType] = <<p>>
          BY <1>1, <4>4, <4>6
        <5>2. got[p] # p /\ got[p] \in Programs
          BY <3>2, <4>3 DEF Awaiting, Programs
        <5>3. (Awaiting(got[p]))'
          BY <3>1, <4>3, <5>2, OthersStay
        <5>4. UnderWay'
          BY <3>1, <4>5, <5>1, <5>3 DEF UnderWay, Replied
        <5>. QED
          BY <2>0, <3>1, <5>4
      <4>7. CASE queue' = queue
        <5>1. UnderWay'
          BY <4>4, <4>5, <4>7 DEF UnderWay
        <5>. QED
          BY <2>0, <3>1, <5>1
      <4>. QED
        BY <2>6, <4>6, <4>7, ServerRespondsEffect
    <3>4. CASE ~Attached(mqid[p])
      <4>1. queue' = queue
        BY <2>6, <3>4, ServerRespondsEffect
      <4>2. ~Responding(p)
        BY <3>4 DEF Responding
      <4>3. UnderWay'
        BY <1>0, <3>1, <3>2, <4>1, <4>2, ExchangeStays
      <4>. QED
        BY <2>0, <3>1, <4>3
    <3>. QED
      BY <3>3, <3>4
  <2>. QED
    BY <1>2, <2>1, <2>2, <2>3, <2>4, <2>5, <2>6 DEF Step
<1>3. CASE UNCHANGED vars
  <2>1. UnderWay'
    BY <1>0, <1>3 DEF vars, queueVars, UnderWay, Asked, InWork, Replied, Quiet, Awaiting,
       Responding, Attached
  <2>2. \A c \in Clients : Answered(c)' <=> Answered(c)
    BY <1>3 DEF vars, Answered
  <2>. QED
    BY <1>0, <1>3, <2>1, <2>2 DEF vars
<1>. QED
  BY <1>2, <1>3 DEF Next

(* One client and one server at a time are synchronized, whichever of the   *)
(* two is launched first and whatever fails: the answer a client gets is    *)
(* that of the server that got its request (ipcClient.cc:7-15).             *)
THEOREM SynchronizedHolds == Spec => []Synchronized
<1>1. ExchangeInv => Synchronized
  BY DEF ExchangeInv, Synchronized
<1>. QED
  BY <1>1, PrototypeTypeInvariant, PairsInit, PairsStep, ExchangeStart, ExchangeStep, PTL DEF Spec

=============================================================================
