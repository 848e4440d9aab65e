------------------------------ MODULE TestClients ------------------------------
(***************************************************************************)
(* test/radioClient.cc and test/spectrumClient.cc at work with the two     *)
(* servers.  The two programs are one text but for the server they talk    *)
(* to, the number they count and the key that sends it.  Both open the     *)
(* queue with removeQueueInDestructor = true, so the first one that exits  *)
(* takes the queue from the other one.  Their counters stay below INT_MAX. *)
(***************************************************************************)
EXTENDS RadioServer, SpectrumServer

CONSTANTS
  StartValue, EndValue,   \* -S and -E of both clients
  MaxKeys                 \* how often a user presses 'r' or 'm'

ASSUME TestClientsAssumption == {StartValue, EndValue} \subseteq Int /\ MaxKeys \in Nat

VARIABLES
  clientPc,    \* what a client does next
  clientQid,   \* its queueIdentifier, NoQueue before the constructor
  value,       \* its ifGain or tag
  asked        \* the values its server was sent

clientVars == <<clientPc, clientQid, value, asked>>
vars == <<queueVars, linkVars, diagsVars, radioVars, spectrumVars, clientVars>>

Client == {"radioClient", "spectrumClient"}

TypeCmd(client) ==
  IF client = "radioClient" THEN RadioServerTypeCmd ELSE SpectrumServerTypeCmd
TypeAck(client) ==
  IF client = "radioClient" THEN RadioServerTypeAck ELSE SpectrumServerTypeAck
Opcode(client) ==
  IF client = "radioClient" THEN RadioServerCmdSetIfGain
                            ELSE SpectrumServerCmdComputePower

ClientInit ==
  /\ clientPc = [client \in Client |-> "off"]
  /\ clientQid = [client \in Client |-> NoQueue]
  /\ value = [client \in Client |-> StartValue]
  /\ asked = [client \in Client |-> << >>]

Init == QueueInit /\ LinkInit /\ RadioInit /\ SpectrumInit /\ ClientInit

-----------------------------------------------------------------------------

Goes(client, from, to) ==
  clientPc[client] = from /\ clientPc' = [clientPc EXCEPT ![client] = to]

LaunchClient(client) ==
  /\ \/ /\ OpenQueue
        /\ Goes(client, "off", "prompt")
        /\ clientQid' = [clientQid EXCEPT ![client] = OpenedId]
     \/ OpenFails /\ Goes(client, "off", "exited") /\ UNCHANGED clientQid
  /\ UNCHANGED <<value, asked>>

(* The user types 'r' or 'm', 'e', or the end of the input.  Any other line *)
(* changes nothing.                                                         *)
KeyMeasure(client) ==
  /\ Len(asked[client]) < MaxKeys
  /\ Goes(client, "prompt", "send")
  /\ UNCHANGED <<clientQid, value, asked, queueVars>>

KeyExit(client) ==
  /\ Goes(client, "prompt", "terminate")
  /\ UNCHANGED <<clientQid, value, asked, queueVars>>

EndOfInput(client) ==
  /\ Goes(client, "prompt", "destroy")
  /\ UNCHANGED <<clientQid, value, asked, queueVars>>

NextValue(n) == IF n + 1 > EndValue THEN StartValue ELSE n + 1

CountValue(client) == value' = [value EXCEPT ![client] = NextValue(@)]

(* Mutation: the client does not wait for the acknowledgement.              *)
SendCommandNoWait(client) ==
  /\ \/ /\ Goes(client, "send", "prompt")
        /\ SendData(clientQid[client], TypeCmd(client), <<Opcode(client), value[client]>>)
        /\ asked' = [asked EXCEPT ![client] = Append(@, value[client])]
     \/ /\ Goes(client, "send", "destroy")
        /\ SendDataFails(clientQid[client])
        /\ UNCHANGED asked
  /\ CountValue(client)
  /\ UNCHANGED clientQid

SendCommand(client) ==
  /\ \/ /\ Goes(client, "send", "wait")
        /\ SendData(clientQid[client], TypeCmd(client), <<Opcode(client), value[client]>>)
        /\ asked' = [asked EXCEPT ![client] = Append(@, value[client])]
        /\ UNCHANGED value
     \/ /\ Goes(client, "send", "destroy")
        /\ SendDataFails(clientQid[client])
        /\ CountValue(client)
        /\ UNCHANGED asked
  /\ UNCHANGED clientQid

(* Mutation: a failure is taken for an acknowledgement.                     *)
WaitForServerAckIgnoresErrors(client) ==
  /\ Goes(client, "wait", "prompt")
  /\ ReceiveData(clientQid[client], TypeAck(client))
  /\ CountValue(client)
  /\ UNCHANGED <<clientQid, asked>>

WaitForServerAck(client) ==
  /\ \/ ReceiveData(clientQid[client], TypeAck(client)) /\ Goes(client, "wait", "prompt")
     \/ ReceiveDataFails(clientQid[client]) /\ Goes(client, "wait", "destroy")
  /\ CountValue(client)
  /\ UNCHANGED <<clientQid, asked>>

SendTerminateCommand(client) ==
  /\ Goes(client, "terminate", "destroy")
  /\ \/ SendData(clientQid[client], TypeCmd(client), <<CmdTerminate>>)
     \/ SendDataFails(clientQid[client])
  /\ UNCHANGED <<clientQid, value, asked>>

DestroyQueue(client) ==
  /\ Goes(client, "destroy", "exited")
  /\ Destroy(clientQid[client], TRUE)
  /\ UNCHANGED <<clientQid, value, asked>>

ClientStep(client) ==
  \/ LaunchClient(client)
  \/ SendCommand(client)
  \/ WaitForServerAck(client)
  \/ SendTerminateCommand(client)
  \/ DestroyQueue(client)

UserStep(client) == KeyMeasure(client) \/ KeyExit(client) \/ EndOfInput(client)

ClientsServing ==
  /\ \E client \in Client : ClientStep(client)
  /\ UNCHANGED <<linkVars, diagsVars, radioVars, spectrumVars>>

UsersServing ==
  /\ \E client \in Client : UserStep(client)
  /\ UNCHANGED <<linkVars, diagsVars, radioVars, spectrumVars>>

RadioServing == RadioServerStep /\ UNCHANGED <<spectrumVars, clientVars>>

SpectrumServing ==
  SpectrumServerStep /\ UNCHANGED <<linkVars, diagsVars, radioVars, clientVars>>

DiagsServing ==
  DiagsExecute /\ UNCHANGED <<queueVars, radioVars, spectrumVars, clientVars>>

Next ==
  \/ ClientsServing
  \/ UsersServing
  \/ RadioServing
  \/ SpectrumServing
  \/ DiagsServing

Spec == Init /\ [][Next]_vars

(* Every program that can run does; the users need not press a key.         *)
FairSpec ==
  /\ Spec
  /\ \A client \in Client :
       WF_vars(ClientStep(client) /\ UNCHANGED <<linkVars, diagsVars, radioVars, spectrumVars>>)
  /\ WF_vars(RadioServing) /\ WF_vars(SpectrumServing) /\ WF_vars(DiagsServing)

-----------------------------------------------------------------------------
(* Every variable has its type.                                             *)
ClientsTypeOK ==
  /\ QueueTypeOK /\ LinkTypeOK /\ RadioTypeOK /\ SpectrumTypeOK
  /\ clientPc \in [Client -> {"off", "prompt", "send", "wait", "terminate",
                              "destroy", "exited"}]
  /\ clientQid \in [Client -> 0 .. lastId]
  /\ value \in [Client -> Int]
  /\ asked \in [Client -> Seq(Int)]

(* When the radio client is back at its input after 'r', the radio is at    *)
(* the gain it sent, whatever the other client does with the queue          *)
(* (radioClient.cc:385-409).                                                *)
PromptMeansGainSet ==
  clientPc["radioClient"] = "prompt" /\ asked["radioClient"] # << >> =>
    radioGain = asked["radioClient"][Len(asked["radioClient"])]

(* The output file holds the records of the tags that the spectrum client   *)
(* sent, once each and in order, and all of them when it is back at its     *)
(* input (spectrumClient.cc:385-409).                                       *)
RecordsAsAsked ==
  LET tags == asked["spectrumClient"] IN
    /\ Len(results) <= Len(tags)
    /\ \A i \in DOMAIN results : results[i].tag = tags[i]
    /\ clientPc["spectrumClient"] = "prompt" => Len(results) = Len(tags)

(* An acknowledgement that waits is the one a client is waiting for, on the *)
(* queue it is waiting on: none is left by a client that was in the way of  *)
(* the other one.                                                           *)
AckIsAwaited ==
  \A client \in Client : queue[TypeAck(client)] # << >> =>
    /\ clientPc[client] = "wait" /\ clientQid[client] = qid
    /\ Len(queue[TypeAck(client)]) = 1

(* A client that exits takes the queue from everyone who works on it: both  *)
(* servers end, and the other client does if it waits for an answer.        *)
HoldsDeadQueue(id) == id # NoQueue /\ id # qid

ExitReleasesTheOthers ==
  /\ HoldsDeadQueue(radioQid) ~> radioPc = "exited"
  /\ HoldsDeadQueue(specQid) ~> specPc = "exited"
  /\ \A client \in Client :
       clientPc[client] = "wait" /\ HoldsDeadQueue(clientQid[client])
         ~> clientPc[client] = "exited"

(* With one queue for both servers and nobody who leaves, every key is      *)
(* answered: the client comes back to its input, or ends because the other  *)
(* one has taken the queue.                                                 *)
EveryKeyAnswered ==
  \A client \in Client :
    clientPc[client] = "wait" /\ {radioQid, specQid} = {qid}
      ~> clientPc[client] \in {"prompt", "exited"}

=============================================================================
