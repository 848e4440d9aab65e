-------------------------- MODULE RestartsInvariant --------------------------
(***************************************************************************)
(* The inductive invariants behind the theorems about Restarts.            *)
(***************************************************************************)
EXTENDS Restarts, TunerTesterInvariant

(* Without a queue nothing waits.                                           *)
NoQueueNoMessages == qid = NoQueue => \A type \in MessageType : queue[type] = << >>

(* 1 if the coordinator of this launch has used up its share of a leg: it   *)
(* waits on its queue in one of the places.                                 *)
ShareUsed(places) == One(Attached(coordQid) /\ coordPc \in places)

RadioShare    == ShareUsed({"gainAck", "sendTermSpec", "destroy"})
SpectrumShare == ShareUsed({"powerAck", "destroy"})

(* The messages of a leg that wait.                                         *)
RadioWaiting ==
  Len(queue[RadioServerTypeCmd]) + Len(queue[RadioServerTypeAck])
SpectrumWaiting ==
  Len(queue[SpectrumServerTypeCmd]) + Len(queue[SpectrumServerTypeAck])

(* 1 if the server works on a command.                                      *)
RadioAtWork    == One(RadioBusy)
SpectrumAtWork == One(SpectrumBusy)

(* A leg carries what the coordinator's share allows, and one thing more    *)
(* for each program that was killed: the command, the server that works on  *)
(* it, and the acknowledgement.                                             *)
Fits(waiting, atWork, killed, share) == waiting + atWork <= killed + share

RadioShares    == Fits(RadioWaiting, RadioAtWork, kills, RadioShare)
SpectrumShares == Fits(SpectrumWaiting, SpectrumAtWork, kills, SpectrumShare)

(* What the bound on what is under way rests on, whatever fails.            *)
SharesInv ==
  RestartTypeOK /\ RadioPhase /\ NoQueueNoMessages /\ RadioShares /\ SpectrumShares

-----------------------------------------------------------------------------
(* Where the elements of a sequence are in a set, and how many are.         *)
Places(s, S)      == {k \in DOMAIN s : s[k] \in S}
Occurrences(s, S) == Cardinality(Places(s, S))

(* r is s without its i-th element.                                         *)
TakenOut(s, i, r) ==
  /\ Len(r) = Len(s) - 1
  /\ \A k \in 1 .. Len(r) : r[k] = s[IF k < i THEN k ELSE k + 1]

(* Lines of the console, and records, that have tag t.                      *)
LinesWith(t)   == {line \in [tag : Int, gain : Int] : line.tag = t}
RecordsWith(t) == {record \in OutputRecord : record.tag = t}

(* How often tag t was announced.                                           *)
Announcements(t) == Occurrences(console, LinesWith(t))

(* What has become a record with tag t, or can still become one: what is in *)
(* the file, what an orphan or the spectrum server measures, the command    *)
(* that waits, and the one the coordinator is about to send.                *)
Written(t)     == Occurrences(results, RecordsWith(t))
LeftRunning(t) == Occurrences(orphans, RecordsWith(t))
Capturing(t)   == One(specPc = "capture" /\ spectrumTag = t)
InQueue(t)     == Occurrences(queue[SpectrumServerTypeCmd], {PowerCommand(t)})
Prepared(t)    == One(coordPc \in {"gainAck", "sendPower"} /\ tag = t)

(* There is a line for each of them.                                        *)
Covers(lines, written, left, capturing, waiting, prepared) ==
  written + left + capturing + waiting + prepared <= lines

CalledFor(t) ==
  Covers(Announcements(t),
         Written(t), LeftRunning(t), Capturing(t), InQueue(t), Prepared(t))

(* No tag is measured more often than it was announced, now or later.       *)
CalledForInv == \A t \in Int : CalledFor(t)

-----------------------------------------------------------------------------
(* The coordinator is killed only while it waits for its user, the radio    *)
(* server only while it is not idle on the queue.                           *)
GentleKills ==
  \A point \in KillPoints :
    /\ point[1] = "coordinator" => point[2] = "prompt"
    /\ point[1] = "radioServer" => point[2] # "wait"

(* Every program that serves is on the one queue there is, and that queue   *)
(* lives as long as the coordinator.                                        *)
OnOurQueue ==
  /\ peerUp
  /\ coordPc \notin {"off", "exited"} => Attached(coordQid)
  /\ specPc \in {"capture", "ack"} => Attached(specQid)
  /\ radioQid # NoQueue /\ radioPc \in {"send", "receive", "ack"} => Attached(radioQid)

(* The power command is about to be sent, or waits.                         *)
PowerLegAhead ==
  \/ coordPc = "sendPower"
  \/ coordPc = "powerAck" /\ queue[SpectrumServerTypeCmd] # << >>

(* The gain was acknowledged, and its measurement is not over.              *)
MeasurementAhead ==
  RadioAckWaits \/ PowerLegAhead \/ specPc = "capture" \/ orphans # << >>

(* The radio server that acknowledged the gain is there for the power leg.  *)
RadioStays == MeasurementAhead => radioPc = "wait" /\ Attached(radioQid)

(* An orphan measures the round the coordinator waits for.                  *)
OrphanInv ==
  orphans # << >> =>
    /\ Len(orphans) = 1
    /\ coordPc = "powerAck"
    /\ specPc \notin {"capture", "ack"}
    /\ queue[SpectrumServerTypeCmd] = << >>
    /\ queue[SpectrumServerTypeAck] = << >>
    /\ AtGainOfLastRound
    /\ orphans[1].tag = tag
    /\ orphans[1].gains \subseteq {radioGain}

(* Every line of the console has its record, or its measurement is ahead.   *)
LinesInStep ==
  Len(results) + One(specPc = "capture") + Len(orphans) + One(Commanded)
    = Len(console)

(* What the spectrum server captures is the gain and tag of the round.      *)
CaptureOfRound == specPc = "capture" => spectrumTag = tag /\ AtGainOfLastRound

(* What the file's agreement with the console rests on.                     *)
FollowInv ==
  /\ RestartTypeOK /\ ProtocolInv /\ GainInv
  /\ OnOurQueue /\ RadioStays /\ OrphanInv /\ CaptureOfRound /\ LinesInStep
  /\ FileFollowsConsole

=============================================================================
