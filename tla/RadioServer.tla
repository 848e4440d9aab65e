----------------------------- MODULE RadioServer -----------------------------
(***************************************************************************)
(* src/radioServer.cc: configures the radio over TCP, then turns every IF  *)
(* gain command of the message queue into a radio command and acknowledges *)
(* it, until a terminate command or an error of the queue.                 *)
(*                                                                         *)
(* One action per system call, with the local computation that follows it. *)
(***************************************************************************)
EXTENDS IpcMessageQueue, TcpClient

VARIABLES
  radioPc,       \* what the server does next
  radioQid,      \* its queueIdentifier, NoQueue before the constructor
  setupStep,     \* how many commands of SetupScript were taken up
  radioCommand   \* the command handed to sendRadioCommand()

radioVars == <<radioPc, radioQid, setupStep, radioCommand>>

RadioPc == {"off",      \* not launched
            "receive",  \* in TcpClient::receiveData
            "send",     \* about to send radioCommand
            "open",     \* set up done, about to open the message queue
            "wait",     \* in IpcMessageQueue::receiveData
            "ack",      \* about to acknowledge
            "exited",   \* main returned
            "killed"}   \* by SIGPIPE

DefaultFrequency == 57600000

SetupScript == <<
  Command("demodmode", 0), Command("iqdump", 1), Command("agclevel", -8),
  Command("rxifgain", 0), Command("rxgain", 50), Command("receiver", 1),
  Command("ringoscillator", 8), Command("rxfrequency", DefaultFrequency) >>

SetupLength == 8

RadioTypeOK ==
  /\ radioPc \in RadioPc
  /\ radioQid \in 0 .. lastId
  /\ setupStep \in 0 .. SetupLength
  /\ radioCommand \in RadioCommands

RadioInit ==
  /\ radioPc = "off"
  /\ radioQid = NoQueue
  /\ setupStep = 0
  /\ radioCommand = Command("demodmode", 0)

-----------------------------------------------------------------------------

LaunchRadioServer ==
  /\ radioPc = "off"
  /\ \/ Connect /\ radioPc' = "receive"
     \/ ConnectFails /\ radioPc' = "exited"
  /\ UNCHANGED <<radioQid, setupStep, radioCommand, queueVars, diagsVars>>

(* sendRadioCommand: sendData, after which it goes on to receiveData.       *)
RadioSend ==
  /\ radioPc = "send"
  /\ \/ SendOctets(radioCommand) /\ radioPc' = "receive"
     \/ SendRaisesSigpipe /\ radioPc' = "killed"
  /\ UNCHANGED <<radioQid, setupStep, radioCommand, queueVars, diagsVars>>

RadioRead ==
  /\ radioPc = "receive"
  /\ ReadAvailable \/ ReadEndOfFile
  /\ UNCHANGED <<radioVars, queueVars, diagsVars>>

(* Mutation: the break after sendRadioCommand is missing (radioServer.cc    *)
(* :212), so a gain command falls through to the terminate case.            *)
AfterResponseFallsThrough ==
  IF setupStep < SetupLength THEN "send"
  ELSE IF radioQid = NoQueue THEN "open" ELSE "exited"

(* receiveData returns: on with the set up, or back to the caller that      *)
(* decoded a queue message.                                                 *)
AfterResponse ==
  IF setupStep < SetupLength THEN "send"
  ELSE IF radioQid = NoQueue THEN "open" ELSE "ack"

RadioQuiet ==
  /\ radioPc = "receive"
  /\ SelectTimesOut
  /\ radioPc' = AfterResponse
  /\ IF setupStep < SetupLength
     THEN /\ setupStep' = setupStep + 1
          /\ radioCommand' = SetupScript[setupStep + 1]
     ELSE UNCHANGED <<setupStep, radioCommand>>
  /\ UNCHANGED <<radioQid, queueVars, diagsVars>>

(* However main ends from here on, it deletes networkInterfacePtr first.    *)
ReleasesConnection ==
  IF radioPc' = "exited" THEN Disconnect ELSE UNCHANGED linkVars

RadioOpensQueue ==
  /\ radioPc = "open"
  /\ \/ OpenQueue /\ radioQid' = OpenedId /\ radioPc' = "wait"
     \/ OpenFails /\ radioPc' = "exited" /\ UNCHANGED radioQid
  /\ ReleasesConnection
  /\ UNCHANGED <<setupStep, radioCommand, diagsVars>>

(* Mutation: a terminate command is acknowledged like any other.            *)
RadioDecodeAcksTerminate(body) ==
  IF body[1] = RadioServerCmdSetIfGain /\ Len(body) = 2 THEN "send" ELSE "ack"

(* decodeMessageQueueCommand: where the body of a message leads.            *)
RadioDecode(body) ==
  CASE body[1] = RadioServerCmdSetIfGain /\ Len(body) = 2 -> "send"
    [] body[1] = CmdTerminate -> "exited"
    [] OTHER -> "ack"

(* Mutation: the loop goes on when receiveData fails.                       *)
RadioReceiveIgnoresErrors ==
  /\ radioPc = "wait"
  /\ ReceiveData(radioQid, RadioServerTypeCmd)
  /\ LET body == Received(RadioServerTypeCmd) IN
       /\ radioPc' = RadioDecode(body)
       /\ radioCommand' = IF RadioDecode(body) = "send"
                          THEN Command("rxifgain", body[2])
                          ELSE radioCommand
  /\ ReleasesConnection
  /\ UNCHANGED <<radioQid, setupStep, diagsVars>>

RadioReceive ==
  /\ radioPc = "wait"
  /\ \/ LET body == Received(RadioServerTypeCmd) IN
          /\ ReceiveData(radioQid, RadioServerTypeCmd)
          /\ radioPc' = RadioDecode(body)
          /\ radioCommand' = IF RadioDecode(body) = "send"
                             THEN Command("rxifgain", body[2])
                             ELSE radioCommand
     \/ /\ ReceiveDataFails(radioQid)
        /\ radioPc' = "exited"
        /\ UNCHANGED radioCommand
  /\ ReleasesConnection
  /\ UNCHANGED <<radioQid, setupStep, diagsVars>>

(* Mutation: the acknowledgement is sent with the spectrum server's type.   *)
RadioAckWrongType ==
  /\ radioPc = "ack"
  /\ \/ SendData(radioQid, SpectrumServerTypeAck, Ack) /\ radioPc' = "wait"
     \/ SendDataFails(radioQid) /\ radioPc' = "exited"
  /\ ReleasesConnection
  /\ UNCHANGED <<radioQid, setupStep, radioCommand, diagsVars>>

RadioAck ==
  /\ radioPc = "ack"
  /\ \/ SendData(radioQid, RadioServerTypeAck, Ack) /\ radioPc' = "wait"
     \/ SendDataFails(radioQid) /\ radioPc' = "exited"
  /\ ReleasesConnection
  /\ UNCHANGED <<radioQid, setupStep, radioCommand, diagsVars>>

RadioServerStep ==
  \/ LaunchRadioServer
  \/ RadioSend
  \/ RadioRead
  \/ RadioQuiet
  \/ RadioOpensQueue
  \/ RadioReceive
  \/ RadioAck

-----------------------------------------------------------------------------
(* Where the radio server is in its life: the queue is opened after set up. *)
RadioPhase ==
  /\ radioPc \in {"wait", "ack"} => radioQid # NoQueue
  /\ radioPc \in {"off", "open"} => radioQid = NoQueue
  /\ radioPc = "open" => setupStep = SetupLength
  /\ radioQid # NoQueue => setupStep = SetupLength

=============================================================================
