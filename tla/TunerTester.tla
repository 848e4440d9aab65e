----------------------------- MODULE TunerTester -----------------------------
(***************************************************************************)
(* The whole tester: the coordinator, the radio server and the spectrum    *)
(* server on one message queue, radio diags behind the radio server, and   *)
(* the user.  The programs start in any order and run interleaved.         *)
(***************************************************************************)
EXTENDS Coordinator, RadioServer, SpectrumServer

vars == <<queueVars, linkVars, diagsVars, radioVars, spectrumVars, coordVars>>

Init ==
  /\ QueueInit
  /\ LinkInit
  /\ CoordInit
  /\ RadioInit
  /\ SpectrumInit

Coordinating ==
  CoordinatorStep /\ UNCHANGED <<linkVars, diagsVars, radioVars, spectrumVars>>

UserActs ==
  UserStep /\ UNCHANGED <<linkVars, diagsVars, radioVars, spectrumVars>>

RadioServing == RadioServerStep /\ UNCHANGED <<spectrumVars, coordVars>>

SpectrumServing ==
  SpectrumServerStep /\ UNCHANGED <<linkVars, diagsVars, radioVars, coordVars>>

DiagsServing ==
  DiagsExecute /\ UNCHANGED <<queueVars, radioVars, spectrumVars, coordVars>>

LinkBreaks ==
  DiagsCloses /\ UNCHANGED <<queueVars, radioVars, spectrumVars, coordVars>>

QueueVanishes ==
  /\ QueueRemovedByOther
  /\ UNCHANGED <<linkVars, diagsVars, radioVars, spectrumVars, coordVars>>

(* All three programs have returned: the system may stop.                   *)
AllExited ==
  /\ coordPc = "exited"
  /\ radioPc = "exited"
  /\ specPc = "exited"
  /\ UNCHANGED vars

Next ==
  \/ Coordinating
  \/ UserActs
  \/ RadioServing
  \/ SpectrumServing
  \/ DiagsServing
  \/ LinkBreaks
  \/ QueueVanishes
  \/ AllExited

Spec == Init /\ [][Next]_vars

(* The operating system runs every process that can run, the three programs *)
(* are started eventually, and radio diags executes what it was sent.  The  *)
(* user need not ever press a key.                                          *)
Fairness ==
  /\ WF_vars(Coordinating)
  /\ WF_vars(RadioServing)
  /\ WF_vars(SpectrumServing)
  /\ WF_vars(DiagsServing)

FairSpec == Spec /\ Fairness

-----------------------------------------------------------------------------
(* Every variable has its type.                                             *)
TypeOK ==
  /\ QueueTypeOK
  /\ LinkTypeOK
  /\ CoordTypeOK
  /\ RadioTypeOK
  /\ SpectrumTypeOK

RadioAckWaits    == queue[RadioServerTypeAck] # << >>
SpectrumAckWaits == queue[SpectrumServerTypeAck] # << >>

(* A server is busy with a command of the queue that the key names now.     *)
RadioBusy    == Attached(radioQid) /\ radioPc \in {"send", "receive", "ack"}
(* The same of the spectrum server.                                         *)
SpectrumBusy == Attached(specQid) /\ specPc \in {"capture", "ack"}

(* 1 if the condition holds.                                                *)
One(condition) == IF condition THEN 1 ELSE 0

(* How much is under way between the coordinator and the radio server: the  *)
(* commands that wait, the one the server works on, the acknowledgements.   *)
RadioUnderWay ==
  Len(queue[RadioServerTypeCmd]) + One(RadioBusy) + Len(queue[RadioServerTypeAck])
(* The same of the spectrum server.                                         *)
SpectrumUnderWay ==
  Len(queue[SpectrumServerTypeCmd]) + One(SpectrumBusy) + Len(queue[SpectrumServerTypeAck])

(* Stop and wait: a command that waits, one that is worked on and an        *)
(* acknowledgement exclude each other, for either server, and an            *)
(* acknowledgement is only ever there while the coordinator waits for it.   *)
(* A stray one would be taken for the next command's and let a measurement  *)
(* begin too early (coordinator.cc:283 takes the first one of its type).    *)
StopAndWait ==
  /\ RadioUnderWay <= 1 /\ SpectrumUnderWay <= 1
  /\ RadioAckWaits => coordPc = "gainAck"
  /\ SpectrumAckWaits => coordPc = "powerAck"

(* The radio is set up and nothing that could retune it is under way        *)
(* between the radio server and radio diags.                                *)
RadioSettled ==
  /\ setupStep = SetupLength
  /\ toRadio = << >>
  /\ radioPc \in {"wait", "exited"}

(* While the pipeline captures, the radio is set up and stays at the gain   *)
(* announced for the round that is being measured: no gain command waits,   *)
(* is being served or is under way to radio diags, even if the queue has    *)
(* vanished and the coordinator has run on (the automatic loop,             *)
(* coordinator.cc:570-599, looks at no result).                             *)
NoRetuneDuringCapture ==
  specPc = "capture" =>
    /\ RadioSettled
    /\ queue[RadioServerTypeCmd] = << >>
    /\ \E j \in 1 .. Len(announced) :
         announced[j] = [tag |-> spectrumTag, gain |-> radioGain]

(* README.txt:51-52: in automatic mode the loop is executed the specified   *)
(* number of times.                                                         *)
LoopRunsAsSpecified ==
  args.automatic /\ args.startTag <= args.endTag
    => Len(announced) <= args.endTag - args.startTag + 1

(* Every record of the output file was measured throughout at the gain that *)
(* the coordinator announced for a round with that record's tag.            *)
RecordsGenuine ==
  \A i \in 1 .. Len(results) : \E j \in 1 .. Len(announced) :
    /\ results[i].tag = announced[j].tag
    /\ results[i].gains = {announced[j].gain}

(* No record is written twice, and the records of an automatic campaign are *)
(* in the order of their tags, whatever goes wrong.                         *)
RecordsInOrder ==
  /\ Len(results) <= Len(announced)
  /\ args.automatic =>
       \A i, j \in 1 .. Len(results) : i < j => results[i].tag < results[j].tag

(* With no faults the output file and the console keep in step: between two *)
(* rounds every round that was announced has its record.                    *)
LockStep ==
  /\ Len(announced) - Len(results) \in {0, 1}
  /\ coordPc \notin {"gainAck", "sendPower", "powerAck"}
       => Len(announced) = Len(results)

(* With no faults a server that has begun to serve ends only after the      *)
(* coordinator has begun to end the campaign.                               *)
CampaignEnding == coordPc \in {"sendTermSpec", "destroy", "exited"}

ServersStayUntilTold ==
  [][ /\ (radioPc # "exited" /\ radioPc' = "exited" => CampaignEnding)
      /\ (specPc # "exited" /\ specPc' = "exited" => CampaignEnding) ]_vars

-----------------------------------------------------------------------------
(* An automatic campaign ends: every tag is measured and all three programs *)
(* return (README.txt:50-54).                                               *)
CampaignCompletes ==
  args.automatic ~>
    /\ Len(results) = args.endTag - args.startTag + 1
    /\ coordPc = "exited" /\ radioPc = "exited" /\ specPc = "exited"

(* Once a measurement was made, the coordinator takes both servers with it, *)
(* although it removes the queue without waiting until they have read the   *)
(* terminate commands.                                                      *)
ServersFollowCoordinator ==
  coordPc \in {"sendTermRadio", "destroy"} /\ announced # << >>
    ~> radioPc = "exited" /\ specPc = "exited"

(* README.txt:44-47: 'e' results in both servers terminating, at whatever   *)
(* time it is typed.                                                        *)
ExitKeyTerminatesServers ==
  coordPc = "sendTermRadio" ~> radioPc = "exited" /\ specPc = "exited"

(* TcpClient.cc:222 and :280: receiveData returns the number of octets it   *)
(* received, and bails out when all data has been received.                 *)
ReceiveDataReturns == radioPc = "receive" ~> radioPc # "receive"

(* The output file is that of the abstract campaign.                        *)
Campaign == INSTANCE TestCampaign WITH records <- results

ImplementsCampaign == Campaign!FairSpec

=============================================================================
