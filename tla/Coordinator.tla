----------------------------- MODULE Coordinator -----------------------------
(***************************************************************************)
(* src/coordinator.cc: for every measurement of a campaign, commands an IF *)
(* gain, waits for the radio server's acknowledgement, commands a power    *)
(* measurement and waits for the spectrum server's; then terminates both   *)
(* servers and removes the queue.                                          *)
(*                                                                         *)
(* One action per system call, with the local computation that follows it. *)
(* The counters ifGain and tag are C integers, the largest being IntMax.    *)
(***************************************************************************)
EXTENDS IpcMessageQueue

CONSTANTS
  ArgSet,      \* the command lines to consider
  MaxRounds,   \* how often the user asks for a measurement in manual mode
  IntMax       \* INT_MAX

Arguments == [startIfGain : Int, endIfGain : Int, startTag : Int, endTag : Int,
              automatic : BOOLEAN]

ASSUME ArgSetAssumption == ArgSet \subseteq Arguments
ASSUME MaxRoundsAssumption == MaxRounds \in Nat
ASSUME IntMaxAssumption == IntMax \in Nat

VARIABLES
  coordPc,    \* what the coordinator does next
  coordQid,   \* its queueIdentifier, NoQueue before the constructor
  args,       \* its command line
  ifGain, tag, success,
  announced   \* the console lines "tag: %d ifGain: %d" that were acted on

coordVars == <<coordPc, coordQid, args, ifGain, tag, success, announced>>

CoordPc == {"off",            \* not launched
            "prompt",         \* in fgets (manual mode)
            "sendGain",       \* about to send the gain command
            "gainAck",        \* in waitForServerAck(RadioServerTypeAck)
            "sendPower",      \* about to send the power command
            "powerAck",       \* in waitForServerAck(SpectrumServerTypeAck)
            "sendTermRadio",  \* about to tell the radio server to terminate
            "sendTermSpec",   \* about to tell the spectrum server
            "destroy",        \* about to delete queuePtr
            "exited"}         \* main returned

CoordTypeOK ==
  /\ coordPc \in CoordPc
  /\ coordQid \in 0 .. lastId
  /\ args \in ArgSet
  /\ ifGain \in Int
  /\ tag \in Int
  /\ success \in BOOLEAN
  /\ announced \in Seq([tag : Int, gain : Int])

CoordInit ==
  /\ coordPc = "off"
  /\ coordQid = NoQueue
  /\ args \in ArgSet
  /\ ifGain = args.startIfGain
  /\ tag = args.startTag
  /\ success = TRUE
  /\ announced = << >>

-----------------------------------------------------------------------------
(* The bodies that sendIfGainCommand, sendPowerCommand and                  *)
(* sendTerminateCommand send.                                               *)

IfGainCommand(gain) == <<RadioServerCmdSetIfGain, gain>>
(* Mutation: the tag is incremented before the command is built.            *)
PowerCommandNextTag(tagNumber) == <<SpectrumServerCmdComputePower, tagNumber + 1>>

(* Mutation: the command carries the bandwidth too, as the format of        *)
(* spectrumServer.cc:136 suggests.                                          *)
PowerCommandWithBandwidth(tagNumber) ==
  <<SpectrumServerCmdComputePower, tagNumber, 2048000>>

PowerCommand(tagNumber) == <<SpectrumServerCmdComputePower, tagNumber>>
TerminateCommand == <<CmdTerminate>>

(* Mutation: the loop runs once more.                                       *)
LoopEntryOnceMore(tagNumber) ==
  IF tagNumber <= args.endTag + 1 THEN "sendGain" ELSE "sendTermRadio"

(* What the automatic loop does when it comes to its condition.             *)
LoopEntry(tagNumber) ==
  IF tagNumber <= args.endTag THEN "sendGain" ELSE "sendTermRadio"

LaunchCoordinator ==
  /\ coordPc = "off"
  /\ \/ /\ OpenQueue
        /\ coordQid' = OpenedId
        /\ coordPc' = IF args.automatic THEN LoopEntry(tag) ELSE "prompt"
        /\ success' = TRUE
     \/ /\ OpenFails
        /\ coordPc' = "exited"
        /\ success' = FALSE
        /\ UNCHANGED coordQid
  /\ UNCHANGED <<args, ifGain, tag, announced>>

-----------------------------------------------------------------------------
(* The user at the prompt of the manual mode.  Any other key prints the     *)
(* prompt again and changes nothing.                                        *)

UserMeasure ==
  /\ coordPc = "prompt"
  /\ Len(announced) < MaxRounds
  /\ coordPc' = "sendGain"
  /\ UNCHANGED <<coordQid, args, ifGain, tag, success, announced, queueVars>>

UserExit ==
  /\ coordPc = "prompt"
  /\ coordPc' = "sendTermRadio"
  /\ UNCHANGED <<coordQid, args, ifGain, tag, success, announced, queueVars>>

UserEndOfInput ==
  /\ coordPc = "prompt"
  /\ coordPc' = "destroy"
  /\ UNCHANGED <<coordQid, args, ifGain, tag, success, announced, queueVars>>

UserStep == UserMeasure \/ UserExit \/ UserEndOfInput

-----------------------------------------------------------------------------
(* One round.  The automatic mode wraps ifGain only after the power leg,    *)
(* the manual mode at once.                                                 *)

(* The values n++ may have.  Past IntMax it is undefined: a build may wrap  *)
(* it, or treat it in the comparison that follows as if it had not wrapped. *)
Incremented(n) == IF n < IntMax THEN {n + 1} ELSE {n + 1, -IntMax - 1}

(* Mutation: the wrap comes one too early.                                  *)
WrapIfGainEarly(gain) == IF gain >= args.endIfGain THEN args.startIfGain ELSE gain

WrapIfGain(gain) == IF gain > args.endIfGain THEN args.startIfGain ELSE gain
WrapTag(tagNumber) == IF tagNumber > args.endTag THEN args.startTag ELSE tagNumber

(* The gain leg is over: the power leg follows whatever success says.       *)
GainLegDone(ok) ==
  /\ success' = ok
  /\ \E next \in Incremented(ifGain) :
       ifGain' = IF args.automatic THEN next ELSE WrapIfGain(next)
  /\ coordPc' = "sendPower"
  /\ UNCHANGED <<coordQid, args, tag>>

(* Mutation: the automatic mode wraps the tag as the manual mode does, and  *)
(* goes round again.                                                        *)
PowerLegDoneWraps(ok) ==
  /\ success' = ok
  /\ \E next \in Incremented(tag) :
     IF args.automatic
     THEN /\ ifGain' = WrapIfGain(ifGain)
          /\ tag' = WrapTag(next)
          /\ coordPc' = "sendGain"
     ELSE /\ tag' = WrapTag(next)
          /\ coordPc' = IF ok THEN "prompt" ELSE "destroy"
          /\ UNCHANGED ifGain
  /\ UNCHANGED <<coordQid, args, announced>>

(* The power leg is over.  Only the manual mode looks at success.           *)
PowerLegDone(ok) ==
  /\ success' = ok
  /\ \E next \in Incremented(tag) :
     IF args.automatic
     THEN /\ ifGain' = WrapIfGain(ifGain)
          /\ tag' = next
          /\ coordPc' = LoopEntry(next)
     ELSE /\ tag' = WrapTag(next)
          /\ coordPc' = IF ok THEN "prompt" ELSE "destroy"
          /\ UNCHANGED ifGain
  /\ UNCHANGED <<coordQid, args, announced>>

(* Mutation: the acknowledgement of the radio server is not awaited.        *)
SendIfGainNoWait ==
  /\ coordPc = "sendGain"
  /\ announced' = Append(announced, [tag |-> tag, gain |-> ifGain])
  /\ \/ SendData(coordQid, RadioServerTypeCmd, IfGainCommand(ifGain)) /\ GainLegDone(TRUE)
     \/ SendDataFails(coordQid) /\ GainLegDone(FALSE)

SendIfGain ==
  /\ coordPc = "sendGain"
  /\ announced' = Append(announced, [tag |-> tag, gain |-> ifGain])
  /\ \/ /\ SendData(coordQid, RadioServerTypeCmd, IfGainCommand(ifGain))
        /\ success' = TRUE
        /\ coordPc' = "gainAck"
        /\ UNCHANGED <<coordQid, args, ifGain, tag>>
     \/ SendDataFails(coordQid) /\ GainLegDone(FALSE)

RadioAckArrives ==
  /\ coordPc = "gainAck"
  /\ \/ ReceiveData(coordQid, RadioServerTypeAck) /\ GainLegDone(TRUE)
     \/ ReceiveDataFails(coordQid) /\ GainLegDone(FALSE)
  /\ UNCHANGED announced

SendPower ==
  /\ coordPc = "sendPower"
  /\ \/ /\ SendData(coordQid, SpectrumServerTypeCmd, PowerCommand(tag))
        /\ success' = TRUE
        /\ coordPc' = "powerAck"
        /\ UNCHANGED <<coordQid, args, ifGain, tag, announced>>
     \/ SendDataFails(coordQid) /\ PowerLegDone(FALSE)

SpectrumAckArrives ==
  /\ coordPc = "powerAck"
  /\ \/ ReceiveData(coordQid, SpectrumServerTypeAck) /\ PowerLegDone(TRUE)
     \/ ReceiveDataFails(coordQid) /\ PowerLegDone(FALSE)

-----------------------------------------------------------------------------
(* The end of a campaign: no acknowledgement is awaited, and the queue is   *)
(* removed at once, with any terminate command a server has not yet read.   *)

SendTerminate(type) ==
  \/ SendData(coordQid, type, TerminateCommand) /\ success' = TRUE
  \/ SendDataFails(coordQid) /\ success' = FALSE

TerminateRadioServer ==
  /\ coordPc = "sendTermRadio"
  /\ SendTerminate(RadioServerTypeCmd)
  /\ coordPc' = "sendTermSpec"
  /\ UNCHANGED <<coordQid, args, ifGain, tag, announced>>

(* In manual mode the loop ends here whatever success says: done is set.    *)
TerminateSpectrumServer ==
  /\ coordPc = "sendTermSpec"
  /\ SendTerminate(SpectrumServerTypeCmd)
  /\ coordPc' = "destroy"
  /\ UNCHANGED <<coordQid, args, ifGain, tag, announced>>

DestroyQueue ==
  /\ coordPc = "destroy"
  /\ Destroy(coordQid, TRUE)
  /\ coordPc' = "exited"
  /\ UNCHANGED <<coordQid, args, ifGain, tag, success, announced>>

CoordinatorStep ==
  \/ LaunchCoordinator
  \/ SendIfGain
  \/ RadioAckArrives
  \/ SendPower
  \/ SpectrumAckArrives
  \/ TerminateRadioServer
  \/ TerminateSpectrumServer
  \/ DestroyQueue

=============================================================================
