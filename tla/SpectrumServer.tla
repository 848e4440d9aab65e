---------------------------- MODULE SpectrumServer ----------------------------
(***************************************************************************)
(* src/spectrumServer.cc: runs netcat | spectrumProcessor for every power  *)
(* command of the message queue and acknowledges it, until a terminate     *)
(* command or an error of the queue.                                       *)
(*                                                                         *)
(* The pipeline captures IQ samples while it runs and appends one record   *)
(* to the output file.  A sample is abstracted to the one thing the test   *)
(* is about: the IF gain of the radio when the sample was taken.           *)
(***************************************************************************)
EXTENDS IpcMessageQueue, TcpClient

VARIABLES
  specPc,        \* what the server does next
  specQid,       \* its queueIdentifier, NoQueue before the constructor
  spectrumTag,   \* the tag handed to spectrumProcessor
  samples,       \* the gains seen in the samples captured so far
  results        \* the output file

spectrumVars == <<specPc, specQid, spectrumTag, samples, results>>

SpecPc == {"off",      \* not launched
           "wait",     \* in IpcMessageQueue::receiveData
           "capture",  \* in system(): the pipeline runs
           "ack",      \* about to acknowledge
           "exited"}   \* main returned

OutputRecord == [tag : Int, gains : SUBSET Int]

SpectrumTypeOK ==
  /\ specPc \in SpecPc
  /\ specQid \in 0 .. lastId
  /\ spectrumTag \in Int
  /\ samples \subseteq Int
  /\ results \in Seq(OutputRecord)

SpectrumInit ==
  /\ specPc = "off"
  /\ specQid = NoQueue
  /\ spectrumTag = 0
  /\ samples = {}
  /\ results = << >>

-----------------------------------------------------------------------------

LaunchSpectrumServer ==
  /\ specPc = "off"
  /\ \/ OpenQueue /\ specQid' = OpenedId /\ specPc' = "wait"
     \/ OpenFails /\ specPc' = "exited" /\ UNCHANGED specQid
  /\ UNCHANGED <<spectrumTag, samples, results>>

(* Mutation: a terminate command is acknowledged like any other.            *)
SpectrumDecodeAcksTerminate(body) ==
  IF body[1] = SpectrumServerCmdComputePower /\ Len(body) = 2 THEN "capture" ELSE "ack"

(* Mutation: the count of parameters is compared with the wrong number.     *)
SpectrumDecodeMiscounts(body) ==
  CASE body[1] = SpectrumServerCmdComputePower /\ Len(body) = 3 -> "capture"
    [] body[1] = CmdTerminate -> "exited"
    [] OTHER -> "ack"

(* decodeMessageQueueCommand.  A third number in the body is taken for a    *)
(* bandwidth: sscanf returns 3, nothing is measured, the ack is sent.       *)
SpectrumDecode(body) ==
  CASE body[1] = SpectrumServerCmdComputePower /\ Len(body) = 2 -> "capture"
    [] body[1] = CmdTerminate -> "exited"
    [] OTHER -> "ack"

(* Mutation: the loop goes on when receiveData fails.                       *)
SpectrumReceiveIgnoresErrors ==
  /\ specPc = "wait"
  /\ ReceiveData(specQid, SpectrumServerTypeCmd)
  /\ LET body == Received(SpectrumServerTypeCmd) IN
       /\ specPc' = SpectrumDecode(body)
       /\ spectrumTag' = IF SpectrumDecode(body) = "capture" THEN body[2] ELSE spectrumTag
       /\ samples' = {}
  /\ UNCHANGED <<specQid, results>>

SpectrumReceive ==
  /\ specPc = "wait"
  /\ \/ LET body == Received(SpectrumServerTypeCmd) IN
          /\ ReceiveData(specQid, SpectrumServerTypeCmd)
          /\ specPc' = SpectrumDecode(body)
          /\ spectrumTag' = IF SpectrumDecode(body) = "capture"
                            THEN body[2] ELSE spectrumTag
          /\ samples' = {}
     \/ /\ ReceiveDataFails(specQid)
        /\ specPc' = "exited"
        /\ UNCHANGED <<spectrumTag, samples>>
  /\ UNCHANGED <<specQid, results>>

(* netcat hands on the samples that the radio sends now.                    *)
StreamSamples ==
  /\ specPc = "capture"
  /\ Streaming
  /\ samples' = samples \cup {radioGain}
  /\ UNCHANGED <<specPc, specQid, spectrumTag, results, queueVars>>

(* spectrumProcessor has enough samples, writes its record and ends.        *)
Measure ==
  /\ specPc = "capture"
  /\ samples # {}
  /\ results' = Append(results, [tag |-> spectrumTag, gains |-> samples])
  /\ specPc' = "ack"
  /\ UNCHANGED <<specQid, spectrumTag, samples, queueVars>>

(* The pipeline ends early (port 8001 is taken, or Ctrl-C, which system()   *)
(* keeps from the server itself).  The result of system() is not looked at. *)
PipelineFails ==
  /\ "pipelineFails" \in Faults
  /\ specPc = "capture"
  /\ specPc' = "ack"
  /\ UNCHANGED <<specQid, spectrumTag, samples, results, queueVars>>

SpectrumAck ==
  /\ specPc = "ack"
  /\ \/ SendData(specQid, SpectrumServerTypeAck, Ack) /\ specPc' = "wait"
     \/ SendDataFails(specQid) /\ specPc' = "exited"
  /\ UNCHANGED <<specQid, spectrumTag, samples, results>>

SpectrumServerStep ==
  \/ LaunchSpectrumServer
  \/ SpectrumReceive
  \/ StreamSamples
  \/ Measure
  \/ PipelineFails
  \/ SpectrumAck

=============================================================================
