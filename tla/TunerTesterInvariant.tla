------------------------- MODULE TunerTesterInvariant -------------------------
(***************************************************************************)
(* The inductive invariants behind the theorems about TunerTester.         *)
(***************************************************************************)
EXTENDS TunerTester

(* One leg of a round.  The command, the server that works on it and the    *)
(* acknowledgement exist one at a time, only while the coordinator waits    *)
(* (or, for a terminate command, after it has stopped waiting for good),    *)
(* and only in the coordinator's own queue.                                 *)
RadioLeg ==
  /\ RadioBusy =>
       /\ Attached(coordQid) /\ coordPc = "gainAck"
       /\ queue[RadioServerTypeCmd] = << >>
       /\ queue[RadioServerTypeAck] = << >>
  /\ RadioAckWaits =>
       /\ Attached(coordQid) /\ coordPc = "gainAck"
       /\ queue[RadioServerTypeCmd] = << >>
       /\ queue[RadioServerTypeAck] = <<Ack>>
  /\ queue[RadioServerTypeCmd] # << >> =>
       /\ Attached(coordQid)
       /\ \/ /\ coordPc = "gainAck"
             /\ announced # << >>
             /\ queue[RadioServerTypeCmd]
                  = <<IfGainCommand(announced[Len(announced)].gain)>>
          \/ /\ coordPc \in {"sendTermSpec", "destroy"}
             /\ queue[RadioServerTypeCmd] = <<TerminateCommand>>

(* The same of the second leg.                                              *)
SpectrumLeg ==
  /\ SpectrumBusy =>
       /\ Attached(coordQid) /\ coordPc = "powerAck"
       /\ queue[SpectrumServerTypeCmd] = << >>
       /\ queue[SpectrumServerTypeAck] = << >>
  /\ SpectrumAckWaits =>
       /\ Attached(coordQid) /\ coordPc = "powerAck"
       /\ queue[SpectrumServerTypeCmd] = << >>
       /\ queue[SpectrumServerTypeAck] = <<Ack>>
  /\ queue[SpectrumServerTypeCmd] # << >> =>
       /\ Attached(coordQid)
       /\ \/ /\ coordPc = "powerAck"
             /\ queue[SpectrumServerTypeCmd] = <<PowerCommand(tag)>>
          \/ /\ coordPc = "destroy"
             /\ queue[SpectrumServerTypeCmd] = <<TerminateCommand>>

(* What stop and wait rests on, whatever fails.                             *)
ProtocolInv == TypeOK /\ RadioPhase /\ RadioLeg /\ SpectrumLeg

-----------------------------------------------------------------------------
(* No message is lost by a send that fails, and no answer of radio diags    *)
(* comes after receiveData has stopped waiting.                             *)
NoLostSendNoLateReply == Faults \cap {"sendFails", "lateReply"} = {}

(* The round that is being measured was announced with the gain the radio   *)
(* is at.                                                                   *)
AtGainOfLastRound ==
  /\ RadioSettled
  /\ announced # << >>
  /\ announced[Len(announced)] = [tag |-> tag, gain |-> radioGain]

(* A radio command is under way only while the radio server reads the       *)
(* answer to it, or after it was killed.                                    *)
LinkInv ==
  toRadio # << >> => \/ /\ radioPc = "receive"
                        /\ peerUp
                        /\ toRadio = <<radioCommand>>
                     \/ radioPc = "killed"

(* The radio server applies the gain of the command it serves before it     *)
(* acknowledges it.                                                         *)
GainApplied == radioGain = radioCommand.value /\ toRadio = << >>

(* The gain command the radio server serves is that of the round.           *)
ServedGainInv ==
  radioQid # NoQueue /\ radioPc \in {"send", "receive", "ack"} =>
    /\ radioCommand.verb = "rxifgain"
    /\ RadioBusy => /\ announced # << >>
                    /\ radioCommand.value = announced[Len(announced)].gain
    /\ radioPc = "receive" /\ peerUp /\ toRadio = << >> => GainApplied
    /\ radioPc = "ack" => GainApplied

(* From the radio server's acknowledgement to the spectrum server's, the    *)
(* radio stays where the round put it.                                      *)
RoundInv ==
  /\ coordPc \in {"gainAck", "sendPower"} =>
       announced # << >> /\ announced[Len(announced)].tag = tag
  /\ RadioAckWaits => RadioSettled /\ announced[Len(announced)].gain = radioGain
  /\ coordPc = "sendPower" /\ Attached(coordQid) => AtGainOfLastRound
  /\ coordPc = "powerAck" /\ queue[SpectrumServerTypeCmd] # << >>
       => AtGainOfLastRound

(* A capture sees one gain, and its server is on the coordinator's queue.   *)
CaptureInv ==
  /\ specPc \in {"capture", "ack"} => coordPc # "off" /\ specQid = coordQid
  /\ specPc = "capture" => samples \subseteq {radioGain}
  /\ NoRetuneDuringCapture

(* The radio is where the round put it.                                     *)
GainInv == LinkInv /\ ServedGainInv /\ RoundInv /\ CaptureInv

(* What the measurements rest on, without lost sends and late replies.      *)
MeasurementInv == ProtocolInv /\ GainInv /\ RecordsGenuine

-----------------------------------------------------------------------------
(* The tags do not reach INT_MAX.                                           *)
NoTagOverflow == \A line \in ArgSet : line.endTag < IntMax

(* A power command is being prepared, or waits for the spectrum server.     *)
Commanded ==
  \/ coordPc \in {"gainAck", "sendPower"}
  \/ coordPc = "powerAck" /\ queue[SpectrumServerTypeCmd] # << >>

(* A pipeline runs for this coordinator only, and before it is launched     *)
(* nothing has happened.                                                    *)
CaptureIsOurs ==
  /\ specPc \in {"capture", "ack"} => specQid = coordQid
  /\ coordPc = "off" => /\ specPc \notin {"capture", "ack"}
                        /\ results = << >>
                        /\ announced = << >>
                        /\ tag = args.startTag

(* Every record, every capture and every power command has its announcement.*)
CountInv ==
  Len(results) + One(specPc = "capture") + One(Commanded) <= Len(announced)

(* Within the loop, and between a round's announcement and its end.         *)
InRound == coordPc \in {"sendGain", "gainAck", "sendPower", "powerAck"}
(* The round was announced and is not over.                                 *)
Announcing == coordPc \in {"gainAck", "sendPower", "powerAck"}

(* In an automatic campaign the loop announces one tag after the other.     *)
LoopInv ==
  args.automatic =>
    /\ coordPc # "prompt"
    /\ InRound => tag <= args.endTag
    /\ tag \in args.startTag .. args.endTag + 1 \/ tag = args.startTag
    /\ Len(announced) = tag - args.startTag + One(Announcing)

(* What has been measured lies below the tag of the round, or at it once    *)
(* the round's power command was read.                                      *)
MeasuredUpTo(limit) ==
  /\ \A i \in 1 .. Len(results) : results[i].tag <= limit
  /\ specPc = "capture" => spectrumTag <= limit

(* Tags in the file ascend, and a capture's tag is above them all.          *)
OrderInv ==
  args.automatic =>
    /\ MeasuredUpTo(tag)
    /\ coordPc = "sendGain" \/ Commanded => MeasuredUpTo(tag - 1)
    /\ \A i, j \in 1 .. Len(results) : i < j => results[i].tag < results[j].tag
    /\ specPc = "capture" => \A i \in 1 .. Len(results) : results[i].tag < spectrumTag

(* What the order of the records rests on, whatever fails.                  *)
FileInv == ProtocolInv /\ CaptureIsOurs /\ CountInv /\ LoopInv /\ OrderInv

-----------------------------------------------------------------------------
(* No counter reaches INT_MAX.                                              *)
NoOverflow ==
  \A line \in ArgSet : /\ line.startIfGain < IntMax /\ line.endIfGain < IntMax
                       /\ line.startTag < IntMax /\ line.endTag < IntMax

(* Without faults the connection stays, the queue lives as long as the      *)
(* coordinator, and the servers stay on it.                                 *)
AllOnQueue ==
  /\ peerUp
  /\ specPc \in {"wait", "capture", "ack"} => specQid # NoQueue
  /\ coordPc \notin {"off", "exited"} => Attached(coordQid)
  /\ coordPc # "exited" => /\ radioQid # NoQueue => Attached(radioQid)
                           /\ specQid # NoQueue => Attached(specQid)
  /\ radioPc = "exited" \/ specPc = "exited" => CampaignEnding

(* Every announcement has its record, or the round is still under way.      *)
FileInStep ==
  /\ Len(results) + One(specPc = "capture") + One(Commanded) = Len(announced)
  /\ specPc = "capture" => coordPc = "powerAck" /\ spectrumTag = tag /\ AtGainOfLastRound

(* The gain after k rounds.                                                 *)
GainAt(k) == Campaign!Cycle(args.startIfGain, args.endIfGain, k)
(* The tag after k rounds.                                                  *)
TagAt(k)  == Campaign!Cycle(args.startTag, args.endTag, k)

(* The counters with n rounds announced: the tag moves on at the end of the *)
(* power leg, the gain at the end of the gain leg, but in automatic mode it *)
(* is wrapped only at the end of the power leg.                             *)
CounterInv ==
  LET n == Len(announced) IN
    /\ Announcing => n > 0 /\ tag = TagAt(n - 1)
    /\ coordPc = "sendGain" \/ (~Announcing /\ ~args.automatic) => tag = TagAt(n)
    /\ coordPc = "gainAck" => ifGain = GainAt(n - 1)
    /\ coordPc \in {"sendPower", "powerAck"} =>
         /\ WrapIfGain(ifGain) = GainAt(n)
         /\ ~args.automatic => ifGain = GainAt(n)
    /\ ~Announcing => ifGain = GainAt(n)

(* The console, and with it the file, are those of the abstract campaign.   *)
ConsoleInv ==
  \A k \in 1 .. Len(announced) :
    announced[k] = [tag |-> TagAt(k - 1), gain |-> GainAt(k - 1)]

(* What the campaign rests on without faults.                               *)
CampaignInv ==
  MeasurementInv /\ FileInv /\ AllOnQueue /\ FileInStep /\ CounterInv /\ ConsoleInv

=============================================================================
