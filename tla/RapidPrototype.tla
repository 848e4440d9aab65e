----------------------------- MODULE RapidPrototype -----------------------------
(***************************************************************************)
(* The experiments of rapidPrototype/: a client asks, a server answers,    *)
(* and the client removes the queue.  ipcClient.cc and ipcServer.cc use    *)
(* IpcMessageQueue; ipc/client.cc and ipc/server.cc, the programs of Raw,  *)
(* make the system calls themselves and look at none of their results      *)
(* after msgget().  All use project 1, a queue of their own.               *)
(*                                                                         *)
(* The text of a message is abstracted to who sent it.                     *)
(***************************************************************************)
EXTENDS IpcMessageQueue, FiniteSets

CONSTANTS
  Clients, Servers,   \* the programs that are launched, once each
  Raw                 \* those of them that come from ipc/

ASSUME PrototypeAssumption ==
  /\ Clients \cap Servers = {}
  /\ Raw \subseteq Clients \cup Servers

VARIABLES
  inPairs,   \* the user launches a client and a server at a time
  pc,     \* what a program does next
  mqid,   \* its queue identifier
  got     \* the message it received, NoMessage if none

vars == <<queueVars, inPairs, pc, mqid, got>>

Programs == Clients \cup Servers
RequestType == 1
ResponseType == 2
NoMessage == "none"

ASSUME NoMessageAssumption == NoMessage \notin Programs

Init ==
  /\ QueueInit
  /\ inPairs \in BOOLEAN
  /\ pc = [p \in Programs |-> "off"]
  /\ mqid = [p \in Programs |-> NoQueue]
  /\ got = [p \in Programs |-> NoMessage]

Goes(p, from, to) == pc[p] = from /\ pc' = [pc EXCEPT ![p] = to]

Started(programs) == {p \in programs : pc[p] # "off"}
Busy == {p \in Programs : pc[p] \notin {"off", "exited"}}

(* A user with one pair at a time: a new one when the last one has come to  *)
(* its end.                                                                 *)
NextInPair(p) ==
  LET role == IF p \in Clients THEN Clients ELSE Servers
      here == Cardinality(Started(role))
      there == Cardinality(Started(Programs \ role))
  IN  here < there \/ (here = there /\ Busy = {})

(* ipcClient.cc deletes its queue object also when the constructor has      *)
(* failed.  After a failed ftok() nothing has assigned queueIdentifier, and *)
(* IPC_RMID may hit this queue, or none (OpenFails).                        *)
OpenFailsAndRemoves == "openFails" \in Faults /\ qid # NoQueue /\ RemoveQueue

Launch(p) ==
  /\ inPairs => NextInPair(p)
  /\ \/ /\ OpenQueue
        /\ Goes(p, "off", IF p \in Clients THEN "send" ELSE "receive")
        /\ mqid' = [mqid EXCEPT ![p] = OpenedId]
     \/ /\ ~inPairs
        /\ OpenFails \/ (p \in Clients \ Raw /\ OpenFailsAndRemoves)
        /\ Goes(p, "off", "exited")
        /\ UNCHANGED mqid
  /\ UNCHANGED got

-----------------------------------------------------------------------------
(* ipcClient.cc, ipc/client.cc                                              *)

ClientSends(p) ==
  /\ \/ SendData(mqid[p], RequestType, p) /\ Goes(p, "send", "receive")
     \/ /\ SendDataFails(mqid[p])
        /\ Goes(p, "send", IF p \in Raw THEN "receive" ELSE "destroy")
  /\ UNCHANGED <<mqid, got>>

ClientReceives(p) ==
  /\ p \in Clients
  /\ Goes(p, "receive", "destroy")
  /\ \/ /\ ReceiveData(mqid[p], ResponseType)
        /\ got' = [got EXCEPT ![p] = Received(ResponseType)]
     \/ ReceiveDataFails(mqid[p]) /\ UNCHANGED got
  /\ UNCHANGED mqid

RemovesQueue(p) ==
  /\ Goes(p, "destroy", "exited")
  /\ Destroy(mqid[p], TRUE)
  /\ UNCHANGED <<mqid, got>>

-----------------------------------------------------------------------------
(* ipcServer.cc, ipc/server.cc                                              *)

(* Mutation: the server does not wait for the request.                      *)
ServerReceivesNoWait(p) ==
  /\ p \in Servers
  /\ Goes(p, "receive", "respond")
  /\ UNCHANGED <<mqid, got, queueVars>>

(* Mutation: the server goes on waiting when receiveData fails.             *)
ServerReceivesIgnoresErrors(p) ==
  /\ p \in Servers
  /\ ReceiveData(mqid[p], RequestType)
  /\ got' = [got EXCEPT ![p] = Received(RequestType)]
  /\ Goes(p, "receive", "respond")
  /\ UNCHANGED mqid

ServerReceives(p) ==
  /\ p \in Servers
  /\ \/ /\ ReceiveData(mqid[p], RequestType)
        /\ got' = [got EXCEPT ![p] = Received(RequestType)]
        /\ Goes(p, "receive", "respond")
     \/ /\ ReceiveDataFails(mqid[p])
        /\ Goes(p, "receive", IF p \in Raw THEN "respond" ELSE "exited")
        /\ UNCHANGED got
  /\ UNCHANGED mqid

(* Mutation: the response is sent with the type of a request.               *)
ServerRespondsWrongType(p) ==
  /\ Goes(p, "respond", "exited")
  /\ \/ SendData(mqid[p], RequestType, p)
     \/ SendDataFails(mqid[p])
  /\ UNCHANGED <<mqid, got>>

(* Mutation: the server responds once more.                                 *)
ServerRespondsAgain(p) ==
  /\ pc[p] = "respond"
  /\ \/ SendData(mqid[p], ResponseType, p) /\ UNCHANGED pc
     \/ SendDataFails(mqid[p]) /\ Goes(p, "respond", "exited")
  /\ UNCHANGED <<mqid, got>>

ServerResponds(p) ==
  /\ Goes(p, "respond", "exited")
  /\ \/ SendData(mqid[p], ResponseType, p)
     \/ SendDataFails(mqid[p])
  /\ UNCHANGED <<mqid, got>>

Step(p) ==
  \/ Launch(p)
  \/ ClientSends(p)
  \/ ClientReceives(p)
  \/ RemovesQueue(p)
  \/ ServerReceives(p)
  \/ ServerResponds(p)

Next == (\E p \in Programs : Step(p)) /\ UNCHANGED inPairs

Spec == Init /\ [][Next]_vars

(* Every program is launched in the end, and runs whenever it can.          *)
FairSpec == Spec /\ \A p \in Programs : WF_vars(Step(p) /\ UNCHANGED inPairs)

-----------------------------------------------------------------------------
Answered(client) == got[client] # NoMessage

(* ipcClient.cc:7-15: one client and one server at a time are synchronized: *)
(* the answer a client gets is that of the server that got its request.     *)
Synchronized ==
  \A client \in Clients : inPairs /\ Answered(client) => got[got[client]] = client

(* However many there are, and whatever fails, an answer follows a request: *)
(* there are never more answered clients and answers under way than servers *)
(* with a request.                                                          *)
AnswerFollowsRequest ==
  Cardinality({client \in Clients : Answered(client)}) + Len(queue[ResponseType])
    <= Cardinality({server \in Servers : got[server] # NoMessage})

(* A client that comes to its end takes everybody along who has opened the  *)
(* queue it removes, the next server too (ipcClient.cc:79).                 *)
RemovalReleasesAll ==
  \A client \in Clients, p \in Programs :
    pc[client] = "destroy" /\ mqid[p] = mqid[client] ~> pc[p] = "exited"

(* In pairs, launched in either order, every client is answered and every   *)
(* program returns; nothing that one pair leaves stops the next one.        *)
PairsComplete ==
  inPairs ~> /\ \A p \in Programs : pc[p] = "exited"
             /\ \A client \in Clients : Answered(client)

=============================================================================
