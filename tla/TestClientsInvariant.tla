------------------------- MODULE TestClientsInvariant -------------------------
(***************************************************************************)
(* The inductive invariants behind the theorems about TestClients.  A      *)
(* client, its server and their two types of message make one leg; the two *)
(* legs share nothing but the identifier of the queue.                     *)
(***************************************************************************)
EXTENDS TestClients

(* The identifier the client's server holds.                                *)
ServerQid(client) == IF client = "radioClient" THEN radioQid ELSE specQid

(* The server is at work on a command it took from a queue.                 *)
Works(client) ==
  /\ ServerQid(client) # NoQueue
  /\ IF client = "radioClient" THEN radioPc \in {"send", "receive", "ack"}
                               ELSE specPc \in {"capture", "ack"}

(* No message of the leg waits.                                             *)
LegIdle(client) == queue[TypeCmd(client)] = << >> /\ queue[TypeAck(client)] = << >>

(* The value of the last command that the client sent.                      *)
LastAsked(client) == asked[client][Len(asked[client])]

(* Before its queue is there a client has sent nothing; with a queue it has *)
(* an identifier.                                                           *)
ClientPhase(client) ==
  /\ clientPc[client] = "off" => clientQid[client] = NoQueue /\ asked[client] = << >>
  /\ clientPc[client] \in {"prompt", "send", "wait", "terminate"}
       => clientQid[client] # NoQueue

(* The command, the work on it and the acknowledgement exist one at a time, *)
(* only while the client waits, and in its own queue.  A server may go on   *)
(* working for a client whose queue was taken from under both of them; a    *)
(* terminate command waits while its sender is about to leave.              *)
Leg(client) ==
  /\ Works(client) =>
       /\ ServerQid(client) = clientQid[client]
       /\ asked[client] # << >>
       /\ clientPc[client] \in {"wait", "destroy", "exited"}
       /\ Attached(clientQid[client]) => clientPc[client] = "wait"
       /\ LegIdle(client)
  /\ queue[TypeAck(client)] # << >> =>
       /\ Attached(clientQid[client]) /\ clientPc[client] = "wait"
       /\ asked[client] # << >>
       /\ queue[TypeCmd(client)] = << >> /\ queue[TypeAck(client)] = <<Ack>>
  /\ queue[TypeCmd(client)] # << >> =>
       /\ Attached(clientQid[client])
       /\ \/ /\ clientPc[client] = "wait" /\ asked[client] # << >>
             /\ queue[TypeCmd(client)] = <<<<Opcode(client), LastAsked(client)>>>>
          \/ /\ clientPc[client] = "destroy"
             /\ queue[TypeCmd(client)] = <<<<CmdTerminate>>>>

(* What both legs rest on, whatever fails.                                  *)
LegsInv ==
  /\ ClientsTypeOK /\ RadioPhase
  /\ specPc \in {"capture", "ack"} => specQid # NoQueue
  /\ \A client \in Client : ClientPhase(client) /\ Leg(client)

-----------------------------------------------------------------------------
(* The radio has executed the last gain its client sent, and is quiet.      *)
GainSet ==
  /\ radioQid # NoQueue
  /\ toRadio = << >>
  /\ radioGain = LastAsked("radioClient")

(* From the command that is handed on to the gain the radio is at.          *)
GainFollows ==
  /\ peerUp
  /\ toRadio # << >> => radioPc = "receive" /\ toRadio = <<radioCommand>>
  /\ Works("radioClient") =>
       /\ radioCommand = Command("rxifgain", LastAsked("radioClient"))
       /\ radioPc = "receive" /\ toRadio = << >> => GainSet
       /\ radioPc = "ack" => GainSet
  /\ /\ clientPc["radioClient"] = "prompt" \/ queue[RadioServerTypeAck] # << >>
     /\ asked["radioClient"] # << >>
     => GainSet

(* Radio diags answers while receiveData waits.                             *)
NoLateReply == "lateReply" \notin Faults

(* What PromptMeansGainSet rests on, when no answer of the radio is late.   *)
GainInv == LegsInv /\ GainFollows

-----------------------------------------------------------------------------
(* The file is one record short while the spectrum client's last command is *)
(* under way, and complete when nothing is.                                 *)
RecordMissing == Len(asked["spectrumClient"]) = Len(results) + 1
FileComplete == Len(asked["spectrumClient"]) = Len(results)

(* The tags in the file are those asked for, in order, and the file is one  *)
(* record short exactly while the last one is due.                          *)
RecordsFollow ==
  /\ Len(results) <= Len(asked["spectrumClient"])
  /\ \A i \in DOMAIN results : results[i].tag = asked["spectrumClient"][i]
  /\ specPc = "capture" => RecordMissing /\ spectrumTag = LastAsked("spectrumClient")
  /\ queue[SpectrumServerTypeCmd] # << >> /\ clientPc["spectrumClient"] = "wait"
       => RecordMissing
  /\ \/ clientPc["spectrumClient"] \in {"off", "prompt", "send", "terminate"}
     \/ queue[SpectrumServerTypeAck] # << >>
     \/ specPc = "ack"
     => FileComplete

(* Every pipeline that is started writes its record.                        *)
PipelinesWrite == "pipelineFails" \notin Faults

(* What RecordsAsAsked rests on, when every pipeline writes its record.     *)
RecordsInv == LegsInv /\ RecordsFollow

=============================================================================
