-------------------------- MODULE R82xxTunerTester --------------------------
(***************************************************************************)
(* The definitions every process of the tuner tester shares: the message   *)
(* types and opcodes of include/R82xxTunerTester.h.                        *)
(*                                                                         *)
(* A message is text in the code ("%d %d\n"); every reader takes it apart  *)
(* with sscanf("%d %d ..."), so a message body is modelled as the sequence *)
(* of numbers sscanf finds in it.  An acknowledgement has no payload: it   *)
(* is the empty sequence.                                                  *)
(*                                                                         *)
(* Faults names what the environment may do in a run beyond the normal     *)
(* case; an action that models a fault is guarded by its name.             *)
(***************************************************************************)
EXTENDS Integers, Sequences

CONSTANT Faults

FaultKinds ==
  {"openFails",     \* ftok() or msgget() fails in a constructor
   "sendFails",     \* msgsnd() fails although the queue exists (ENOMEM)
   "queueRemoved",  \* another program removes the queue (a test client does)
   "linkClosed",    \* radio diags closes the TCP connection, or is not there
   "lateReply",     \* radio diags answers later than receiveData waits
   "pipelineFails"} \* netcat | spectrumProcessor ends without a record

ASSUME FaultsAssumption == Faults \subseteq FaultKinds

-----------------------------------------------------------------------------

RadioServerTypeCmd    == 1
RadioServerTypeAck    == 2
SpectrumServerTypeCmd == 3
SpectrumServerTypeAck == 4

MessageType == RadioServerTypeCmd .. SpectrumServerTypeAck

CmdTerminate                  == 0
RadioServerCmdSetIfGain       == 1
SpectrumServerCmdComputePower == 2

Body == Seq(Int)

Ack == << >>

=============================================================================
