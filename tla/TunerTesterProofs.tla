-------------------------- MODULE TunerTesterProofs --------------------------
(***************************************************************************)
(* Theorems about TunerTester, for every set of command lines, number of   *)
(* rounds, queue capacity and choice of faults their statements admit.     *)
(***************************************************************************)
EXTENDS TunerTesterInvariant, ServerProofs

-----------------------------------------------------------------------------
(* Type correctness.                                                        *)

(* Every program starts with well typed variables.                          *)
LEMMA TypeInit == Init => TypeOK
<1>. SUFFICES ASSUME Init PROVE TypeOK
  OBVIOUS
<1>1. QueueTypeOK /\ LinkTypeOK /\ RadioTypeOK /\ SpectrumTypeOK
  BY TypesAtStart DEF Init
<1>2. CoordTypeOK
  BY ArgSetAssumption DEF Init, CoordInit, QueueInit, CoordTypeOK, CoordPc, NoQueue, Arguments
<1>. QED
  BY <1>1, <1>2 DEF TypeOK

(* The message types are message types and the bodies are sequences of numbers. *)
LEMMA CommandsAreTyped ==
  /\ MessageType = {RadioServerTypeCmd, RadioServerTypeAck,
                    SpectrumServerTypeCmd, SpectrumServerTypeAck}
  /\ \A n \in Int : IfGainCommand(n) \in Body /\ PowerCommand(n) \in Body
  /\ TerminateCommand \in Body
  /\ Ack \in Body
BY DEF MessageType, RadioServerTypeCmd, RadioServerTypeAck,
       SpectrumServerTypeCmd, SpectrumServerTypeAck, IfGainCommand,
       PowerCommand, TerminateCommand, Ack, Body, RadioServerCmdSetIfGain,
       SpectrumServerCmdComputePower, CmdTerminate

(* A command line consists of numbers and a mode.                           *)
LEMMA ArgumentsAreTyped ==
  ASSUME CoordTypeOK
  PROVE  /\ args.startIfGain \in Int /\ args.endIfGain \in Int
         /\ args.startTag \in Int /\ args.endTag \in Int
         /\ args.automatic \in BOOLEAN
BY ArgSetAssumption DEF CoordTypeOK, Arguments

(* Incrementing a C integer leaves an integer, wrapped or not               *)
(* (coordinator.cc:503-583).                                                *)
LEMMA IncrementedIsInt ==
  ASSUME NEW n \in Int
  PROVE  Incremented(n) \subseteq Int
BY IntMaxAssumption DEF Incremented

(* What the coordinator and its user do keeps the coordinator and the queue *)
(* well typed.                                                              *)
LEMMA CoordinatorType ==
  ASSUME QueueTypeOK, CoordTypeOK, CoordinatorStep \/ UserStep
  PROVE  QueueTypeOK' /\ lastId' >= lastId /\ CoordTypeOK'
<1>. USE CommandsAreTyped
<1>0. QueueTypeOK /\ CoordTypeOK /\ ifGain \in Int /\ tag \in Int
  BY DEF CoordTypeOK
<1>1. CASE LaunchCoordinator
  <2>1. CASE OpenQueue /\ coordQid' = OpenedId
    <3>1. QueueTypeOK' /\ lastId' >= lastId /\ coordQid' \in 0 .. lastId'
      BY <1>0, <2>1, OpenQueueEffect DEF QueueTypeOK
    <3>. QED
      BY <1>0, <1>1, <3>1 DEF LaunchCoordinator, CoordTypeOK, CoordPc, LoopEntry
  <2>2. CASE OpenFails /\ UNCHANGED coordQid
    <3>1. QueueTypeOK' /\ lastId' >= lastId
      BY <1>0, <2>2 DEF OpenFails, queueVars, QueueTypeOK
    <3>2. coordQid' \in 0 .. lastId'
      BY <1>0, <2>2 DEF OpenFails, queueVars, CoordTypeOK
    <3>. QED
      BY <1>0, <1>1, <3>1, <3>2 DEF LaunchCoordinator, CoordTypeOK, CoordPc, LoopEntry
  <2>. QED
    BY <1>1, <2>1, <2>2 DEF LaunchCoordinator
<1>2. CASE UserStep
  <2>1. QueueTypeOK' /\ lastId' >= lastId
    BY <1>0, <1>2 DEF UserStep, UserMeasure, UserExit, UserEndOfInput, queueVars, QueueTypeOK
  <2>2. CoordTypeOK'
    BY <1>0, <1>2 DEF UserStep, UserMeasure, UserExit, UserEndOfInput, queueVars,
       CoordTypeOK, CoordPc
  <2>. QED
    BY <2>1, <2>2
<1>3. CASE SendIfGain
  <2>1. QueueTypeOK' /\ lastId' >= lastId
    <3>1. CASE SendData(coordQid, RadioServerTypeCmd, IfGainCommand(ifGain))
      BY <1>0, <3>1, SendDataEffect
    <3>2. CASE SendDataFails(coordQid)
      BY <1>0, <3>2 DEF SendDataFails, queueVars, QueueTypeOK
    <3>. QED
      BY <3>1, <3>2, <1>3 DEF SendIfGain
  <2>2. announced' \in Seq([tag : Int, gain : Int])
    BY <1>0, <1>3 DEF SendIfGain, GainLegDone, WrapIfGain, CoordTypeOK
  <2>3. ifGain' \in Int /\ tag' \in Int
    BY <1>0, <1>3, ArgumentsAreTyped, IncrementedIsInt DEF SendIfGain, GainLegDone, WrapIfGain
  <2>4. /\ coordPc' \in CoordPc /\ args' \in ArgSet
        /\ success' \in BOOLEAN /\ coordQid' = coordQid
    BY <1>0, <1>3 DEF SendIfGain, GainLegDone, WrapIfGain, CoordTypeOK, CoordPc
  <2>5. coordQid' \in 0 .. lastId'
    BY <1>0, <2>1, <2>4 DEF CoordTypeOK, QueueTypeOK
  <2>. QED
    BY <2>1, <2>2, <2>3, <2>4, <2>5 DEF CoordTypeOK
<1>4. CASE RadioAckArrives
  <2>1. QueueTypeOK' /\ lastId' >= lastId
    <3>1. CASE ReceiveData(coordQid, RadioServerTypeAck)
      BY <1>0, <3>1, ReceiveDataEffect
    <3>2. CASE ReceiveDataFails(coordQid)
      BY <1>0, <3>2 DEF ReceiveDataFails, queueVars, QueueTypeOK
    <3>. QED
      BY <3>1, <3>2, <1>4 DEF RadioAckArrives
  <2>2. announced' \in Seq([tag : Int, gain : Int])
    BY <1>0, <1>4 DEF RadioAckArrives, GainLegDone, WrapIfGain, CoordTypeOK
  <2>3. ifGain' \in Int /\ tag' \in Int
    BY <1>0, <1>4, ArgumentsAreTyped, IncrementedIsInt DEF RadioAckArrives, GainLegDone, WrapIfGain
  <2>4. /\ coordPc' \in CoordPc /\ args' \in ArgSet
        /\ success' \in BOOLEAN /\ coordQid' = coordQid
    BY <1>0, <1>4 DEF RadioAckArrives, GainLegDone, WrapIfGain, CoordTypeOK, CoordPc
  <2>5. coordQid' \in 0 .. lastId'
    BY <1>0, <2>1, <2>4 DEF CoordTypeOK, QueueTypeOK
  <2>. QED
    BY <2>1, <2>2, <2>3, <2>4, <2>5 DEF CoordTypeOK
<1>5. CASE SendPower
  <2>1. QueueTypeOK' /\ lastId' >= lastId
    <3>1. CASE SendData(coordQid, SpectrumServerTypeCmd, PowerCommand(tag))
      BY <1>0, <3>1, SendDataEffect
    <3>2. CASE SendDataFails(coordQid)
      BY <1>0, <3>2 DEF SendDataFails, queueVars, QueueTypeOK
    <3>. QED
      BY <3>1, <3>2, <1>5 DEF SendPower
  <2>2. announced' \in Seq([tag : Int, gain : Int])
    BY <1>0, <1>5 DEF SendPower, PowerLegDone, WrapIfGain, WrapTag, LoopEntry, CoordTypeOK
  <2>3. ifGain' \in Int /\ tag' \in Int
    BY <1>0, <1>5, ArgumentsAreTyped, IncrementedIsInt DEF SendPower, PowerLegDone,
       WrapIfGain, WrapTag, LoopEntry
  <2>4. /\ coordPc' \in CoordPc /\ args' \in ArgSet
        /\ success' \in BOOLEAN /\ coordQid' = coordQid
    BY <1>0, <1>5 DEF SendPower, PowerLegDone, WrapIfGain, WrapTag, LoopEntry, CoordTypeOK, CoordPc
  <2>5. coordQid' \in 0 .. lastId'
    BY <1>0, <2>1, <2>4 DEF CoordTypeOK, QueueTypeOK
  <2>. QED
    BY <2>1, <2>2, <2>3, <2>4, <2>5 DEF CoordTypeOK
<1>6. CASE SpectrumAckArrives
  <2>1. QueueTypeOK' /\ lastId' >= lastId
    <3>1. CASE ReceiveData(coordQid, SpectrumServerTypeAck)
      BY <1>0, <3>1, ReceiveDataEffect
    <3>2. CASE ReceiveDataFails(coordQid)
      BY <1>0, <3>2 DEF ReceiveDataFails, queueVars, QueueTypeOK
    <3>. QED
      BY <3>1, <3>2, <1>6 DEF SpectrumAckArrives
  <2>2. announced' \in Seq([tag : Int, gain : Int])
    BY <1>0, <1>6 DEF SpectrumAckArrives, PowerLegDone, WrapIfGain, WrapTag, LoopEntry, CoordTypeOK
  <2>3. ifGain' \in Int /\ tag' \in Int
    BY <1>0, <1>6, ArgumentsAreTyped, IncrementedIsInt DEF SpectrumAckArrives, PowerLegDone,
       WrapIfGain, WrapTag, LoopEntry
  <2>4. /\ coordPc' \in CoordPc /\ args' \in ArgSet
        /\ success' \in BOOLEAN /\ coordQid' = coordQid
    BY <1>0, <1>6 DEF SpectrumAckArrives, PowerLegDone, WrapIfGain, WrapTag, LoopEntry,
       CoordTypeOK, CoordPc
  <2>5. coordQid' \in 0 .. lastId'
    BY <1>0, <2>1, <2>4 DEF CoordTypeOK, QueueTypeOK
  <2>. QED
    BY <2>1, <2>2, <2>3, <2>4, <2>5 DEF CoordTypeOK
<1>7. CASE TerminateRadioServer
  <2>1. QueueTypeOK' /\ lastId' >= lastId
    <3>1. CASE SendData(coordQid, RadioServerTypeCmd, TerminateCommand)
      BY <1>0, <3>1, SendDataEffect
    <3>2. CASE SendDataFails(coordQid)
      BY <1>0, <3>2 DEF SendDataFails, queueVars, QueueTypeOK
    <3>. QED
      BY <3>1, <3>2, <1>7 DEF TerminateRadioServer, SendTerminate
  <2>2. announced' \in Seq([tag : Int, gain : Int])
    BY <1>0, <1>7 DEF TerminateRadioServer, SendTerminate, CoordTypeOK
  <2>3. ifGain' \in Int /\ tag' \in Int
    BY <1>0, <1>7, ArgumentsAreTyped DEF TerminateRadioServer, SendTerminate
  <2>4. /\ coordPc' \in CoordPc /\ args' \in ArgSet
        /\ success' \in BOOLEAN /\ coordQid' = coordQid
    BY <1>0, <1>7 DEF TerminateRadioServer, SendTerminate, CoordTypeOK, CoordPc
  <2>5. coordQid' \in 0 .. lastId'
    BY <1>0, <2>1, <2>4 DEF CoordTypeOK, QueueTypeOK
  <2>. QED
    BY <2>1, <2>2, <2>3, <2>4, <2>5 DEF CoordTypeOK
<1>8. CASE TerminateSpectrumServer
  <2>1. QueueTypeOK' /\ lastId' >= lastId
    <3>1. CASE SendData(coordQid, SpectrumServerTypeCmd, TerminateCommand)
      BY <1>0, <3>1, SendDataEffect
    <3>2. CASE SendDataFails(coordQid)
      BY <1>0, <3>2 DEF SendDataFails, queueVars, QueueTypeOK
    <3>. QED
      BY <3>1, <3>2, <1>8 DEF TerminateSpectrumServer, SendTerminate
  <2>2. announced' \in Seq([tag : Int, gain : Int])
    BY <1>0, <1>8 DEF TerminateSpectrumServer, SendTerminate, CoordTypeOK
  <2>3. ifGain' \in Int /\ tag' \in Int
    BY <1>0, <1>8, ArgumentsAreTyped DEF TerminateSpectrumServer, SendTerminate
  <2>4. /\ coordPc' \in CoordPc /\ args' \in ArgSet
        /\ success' \in BOOLEAN /\ coordQid' = coordQid
    BY <1>0, <1>8 DEF TerminateSpectrumServer, SendTerminate, CoordTypeOK, CoordPc
  <2>5. coordQid' \in 0 .. lastId'
    BY <1>0, <2>1, <2>4 DEF CoordTypeOK, QueueTypeOK
  <2>. QED
    BY <2>1, <2>2, <2>3, <2>4, <2>5 DEF CoordTypeOK
<1>9. CASE DestroyQueue
  <2>1. QueueTypeOK' /\ lastId' >= lastId
    <3>1. CASE RemoveQueue
      BY <1>0, <3>1, RemoveQueueEffect
    <3>2. CASE UNCHANGED queueVars
      BY <1>0, <3>2 DEF queueVars, QueueTypeOK
    <3>. QED
      BY <3>1, <3>2, <1>9 DEF DestroyQueue, Destroy
  <2>2. CoordTypeOK'
    BY <1>0, <1>9, <2>1 DEF DestroyQueue, CoordTypeOK, CoordPc, QueueTypeOK
  <2>. QED
    BY <2>1, <2>2
<1>. QED
  BY <1>1, <1>2, <1>3, <1>4, <1>5, <1>6, <1>7, <1>8, <1>9 DEF CoordinatorStep

(* No step of any process takes a variable out of its type.                 *)
LEMMA TypeStep == TypeOK /\ [Next]_vars => TypeOK'
<1>. SUFFICES ASSUME TypeOK, [Next]_vars PROVE TypeOK'
  OBVIOUS
<1>0. QueueTypeOK /\ LinkTypeOK /\ CoordTypeOK /\ RadioTypeOK /\ SpectrumTypeOK /\ lastId \in Nat
  BY DEF TypeOK, QueueTypeOK
<1>1. CASE Coordinating \/ UserActs
  <2>1. QueueTypeOK' /\ lastId' >= lastId /\ CoordTypeOK'
    BY <1>0, <1>1, CoordinatorType DEF Coordinating, UserActs
  <2>2. UNCHANGED <<linkVars, diagsVars, radioVars, spectrumVars>>
    BY <1>1 DEF Coordinating, UserActs
  <2>3. LinkTypeOK'
    BY <1>0, <2>2 DEF linkVars, diagsVars, LinkTypeOK
  <2>4. RadioTypeOK' /\ SpectrumTypeOK'
    BY <1>0, <2>1, <2>2 DEF radioVars, spectrumVars, QueueTypeOK, RadioTypeOK, SpectrumTypeOK
  <2>. QED
    BY <2>1, <2>3, <2>4 DEF TypeOK
<1>2. CASE RadioServing
  <2>1. QueueTypeOK' /\ lastId' >= lastId /\ LinkTypeOK' /\ RadioTypeOK'
    BY <1>0, <1>2, RadioServerType DEF RadioServing
  <2>2. CoordTypeOK' /\ SpectrumTypeOK'
    BY <1>0, <1>2, <2>1 DEF RadioServing, coordVars, spectrumVars, QueueTypeOK, CoordTypeOK,
       SpectrumTypeOK
  <2>. QED
    BY <2>1, <2>2 DEF TypeOK
<1>3. CASE SpectrumServing
  <2>1. QueueTypeOK' /\ lastId' >= lastId /\ SpectrumTypeOK'
    BY <1>0, <1>3, SpectrumServerType DEF SpectrumServing
  <2>2. CoordTypeOK' /\ LinkTypeOK' /\ RadioTypeOK'
    BY <1>0, <1>3, <2>1 DEF SpectrumServing, coordVars, linkVars, diagsVars, radioVars,
       QueueTypeOK, CoordTypeOK, LinkTypeOK, RadioTypeOK
  <2>. QED
    BY <2>1, <2>2 DEF TypeOK
<1>4. CASE DiagsServing \/ LinkBreaks
  <2>1. LinkTypeOK'
    BY <1>0, <1>4, DiagsType DEF DiagsServing, LinkBreaks
  <2>2. QueueTypeOK' /\ CoordTypeOK' /\ RadioTypeOK' /\ SpectrumTypeOK'
    BY <1>0, <1>4 DEF DiagsServing, LinkBreaks, queueVars, coordVars, radioVars, spectrumVars,
       QueueTypeOK, CoordTypeOK, RadioTypeOK, SpectrumTypeOK
  <2>. QED
    BY <2>1, <2>2 DEF TypeOK
<1>5. CASE QueueVanishes
  <2>1. QueueTypeOK' /\ lastId' = lastId
    BY <1>0, <1>5, RemoveQueueEffect DEF QueueVanishes, QueueRemovedByOther
  <2>2. LinkTypeOK' /\ CoordTypeOK' /\ RadioTypeOK' /\ SpectrumTypeOK'
    BY <1>0, <1>5, <2>1 DEF QueueVanishes, linkVars, diagsVars, coordVars, radioVars, spectrumVars,
       LinkTypeOK, CoordTypeOK, RadioTypeOK, SpectrumTypeOK
  <2>. QED
    BY <2>1, <2>2 DEF TypeOK
<1>6. CASE UNCHANGED vars
  BY <1>0, <1>6 DEF vars, queueVars, linkVars, diagsVars, radioVars, spectrumVars, coordVars,
     TypeOK, QueueTypeOK, LinkTypeOK, CoordTypeOK, RadioTypeOK, SpectrumTypeOK
<1>. QED
  BY <1>1, <1>2, <1>3, <1>4, <1>5, <1>6 DEF Next, AllExited

(* In every run, with whatever command lines and faults, every variable     *)
(* keeps its type: messages stay sequences of numbers, program counters     *)
(* stay within the code of their process, identifiers come from the kernel. *)
THEOREM TypeCorrectness == Spec => []TypeOK
<1>. QED
  BY TypeInit, TypeStep, PTL DEF Spec

-----------------------------------------------------------------------------
(* Stop and wait.                                                           *)

(* Nothing is under way before the programs are launched.                   *)
LEMMA ProtocolInit == Init => ProtocolInv
<1>. SUFFICES ASSUME Init PROVE ProtocolInv
  OBVIOUS
<1>1. TypeOK
  BY TypeInit
<1>2. /\ radioPc = "off" /\ radioQid = NoQueue /\ specPc = "off"
      /\ \A type \in MessageType : queue[type] = << >>
  BY DEF Init, RadioInit, SpectrumInit, QueueInit, EmptyQueue
<1>3. RadioPhase
  BY <1>2 DEF RadioPhase
<1>4. RadioLeg /\ SpectrumLeg
  BY <1>2, CommandsAreTyped DEF RadioLeg, SpectrumLeg, RadioBusy, SpectrumBusy,
     RadioAckWaits, SpectrumAckWaits
<1>. QED
  BY <1>1, <1>3, <1>4 DEF ProtocolInv

(* Nothing is under way on the radio server's leg.                          *)
RadioLegIdle ==
  ~RadioBusy /\ queue[RadioServerTypeCmd] = << >> /\ queue[RadioServerTypeAck] = << >>

(* Nothing is under way on the spectrum server's leg.                       *)
SpectrumLegIdle ==
  ~SpectrumBusy /\ queue[SpectrumServerTypeCmd] = << >> /\ queue[SpectrumServerTypeAck] = << >>

(* A leg is idle unless the coordinator, in its own queue, waits for this   *)
(* server or has told it to terminate; and an idle leg is in order.         *)
LEMMA IdleLegs ==
  /\ RadioLeg /\ (~Attached(coordQid) \/ coordPc \notin {"gainAck", "sendTermSpec", "destroy"})
       => RadioLegIdle
  /\ SpectrumLeg /\ (~Attached(coordQid) \/ coordPc \notin {"powerAck", "destroy"})
       => SpectrumLegIdle
  /\ RadioLegIdle => RadioLeg
  /\ SpectrumLegIdle => SpectrumLeg
BY DEF RadioLeg, SpectrumLeg, RadioLegIdle, SpectrumLegIdle, RadioAckWaits, SpectrumAckWaits

(* The queue is opened by somebody: both legs stay as they are, except that *)
(* a queue that is new has nothing in it and nobody is busy on it.          *)
LEMMA LegsWhenOpened ==
  ASSUME ProtocolInv, OpenQueue,
         radioQid' = radioQid \/ radioPc' \notin {"send", "receive", "ack"},
         specQid' = specQid \/ specPc' \notin {"capture", "ack"},
         radioPc' = radioPc \/ radioPc' \notin {"send", "receive", "ack"},
         specPc' = specPc \/ specPc' \notin {"capture", "ack"},
         \/ coordQid' = coordQid /\ coordPc' = coordPc /\ announced' = announced /\ tag' = tag
         \/ coordPc = "off"
  PROVE  RadioLeg' /\ SpectrumLeg'
<1>. USE CommandsAreTyped
<1>0. /\ QueueTypeOK /\ lastId \in Nat
      /\ radioQid \in 0 .. lastId /\ specQid \in 0 .. lastId /\ coordQid \in 0 .. lastId
      /\ RadioLeg /\ SpectrumLeg
  BY DEF ProtocolInv, TypeOK, QueueTypeOK, RadioTypeOK, SpectrumTypeOK, CoordTypeOK
<1>1. queue' = queue /\ lastId' \in Nat /\ lastId' >= lastId /\ IF qid = NoQueue THEN qid' > lastId ELSE qid' = qid
  BY <1>0, OpenQueueEffect DEF QueueTypeOK
<1>2. CASE qid = NoQueue
  <2>1. RadioLegIdle /\ SpectrumLegIdle
    BY <1>0, <1>2, IdleLegs DEF Attached
  <2>2. ~RadioBusy' /\ ~SpectrumBusy'
    BY <1>0, <1>1, <1>2 DEF RadioBusy, SpectrumBusy, Attached
  <2>3. RadioLegIdle' /\ SpectrumLegIdle'
    BY <1>1, <2>1, <2>2 DEF RadioLegIdle, SpectrumLegIdle
  <2>. QED
    BY <2>3, IdleLegs DEF RadioLeg, SpectrumLeg, RadioLegIdle, SpectrumLegIdle,
       RadioAckWaits, SpectrumAckWaits
<1>3. CASE qid # NoQueue /\ coordPc = "off"
  <2>1. RadioLegIdle /\ SpectrumLegIdle
    BY <1>0, <1>3, IdleLegs
  <2>2. ~RadioBusy' /\ ~SpectrumBusy'
    BY <1>1, <1>3, <2>1 DEF RadioLegIdle, SpectrumLegIdle, RadioBusy, SpectrumBusy, Attached
  <2>. QED
    BY <1>1, <2>1, <2>2 DEF RadioLeg, SpectrumLeg, RadioLegIdle, SpectrumLegIdle,
       RadioAckWaits, SpectrumAckWaits
<1>4. CASE qid # NoQueue /\ coordPc # "off"
  BY <1>0, <1>1, <1>4 DEF RadioLeg, SpectrumLeg, RadioBusy, SpectrumBusy, Attached,
     RadioAckWaits, SpectrumAckWaits
<1>. QED
  BY <1>2, <1>3, <1>4

(* The queue is removed by somebody: both legs are idle for good.           *)
LEMMA LegsWhenRemoved ==
  ASSUME QueueTypeOK, RemoveQueue
  PROVE  RadioLeg' /\ SpectrumLeg'
<1>1. qid' = NoQueue /\ \A type \in MessageType : queue'[type] = << >>
  BY RemoveQueueEffect
<1>. QED
  BY <1>1, CommandsAreTyped DEF RadioLeg, SpectrumLeg, RadioBusy, SpectrumBusy, Attached,
     RadioAckWaits, SpectrumAckWaits

(* The coordinator and its user keep both legs in order.                    *)
LEMMA LegsCoordinator ==
  ASSUME ProtocolInv, Coordinating \/ UserActs
  PROVE  RadioLeg' /\ SpectrumLeg'
<1>. USE CommandsAreTyped, DistinctTypes
<1>0. /\ QueueTypeOK /\ CoordTypeOK /\ ifGain \in Int /\ tag \in Int
      /\ queue[RadioServerTypeCmd] \in Seq(Body) /\ queue[RadioServerTypeAck] \in Seq(Body)
      /\ queue[SpectrumServerTypeCmd] \in Seq(Body) /\ queue[SpectrumServerTypeAck] \in Seq(Body)
      /\ RadioLeg /\ SpectrumLeg
      /\ UNCHANGED <<radioQid, radioPc, specQid, specPc>>
  BY DEF ProtocolInv, TypeOK, CoordTypeOK, QueueTypeOK, Coordinating, UserActs, radioVars,
     spectrumVars
<1>1. CASE LaunchCoordinator
  <2>1. CASE OpenQueue
    BY <1>0, <1>1, <2>1, LegsWhenOpened DEF LaunchCoordinator
  <2>2. CASE OpenFails
    <3>1. RadioLegIdle /\ SpectrumLegIdle
      BY <1>0, <1>1, IdleLegs DEF LaunchCoordinator
    <3>2. UNCHANGED <<queue, qid>>
      BY <2>2 DEF OpenFails, queueVars
    <3>. QED
      BY <1>0, <3>1, <3>2 DEF RadioLeg, SpectrumLeg, RadioBusy, SpectrumBusy, Attached,
         RadioAckWaits, SpectrumAckWaits, RadioLegIdle, SpectrumLegIdle
  <2>. QED
    BY <1>1, <2>1, <2>2 DEF LaunchCoordinator
<1>2. CASE UserStep
  <2>1. RadioLegIdle /\ SpectrumLegIdle
    BY <1>0, <1>2, IdleLegs DEF UserStep, UserMeasure, UserExit, UserEndOfInput
  <2>2. UNCHANGED <<queue, qid>>
    BY <1>2 DEF UserStep, UserMeasure, UserExit, UserEndOfInput, queueVars
  <2>. QED
    BY <1>0, <2>1, <2>2 DEF RadioLeg, SpectrumLeg, RadioBusy, SpectrumBusy, Attached,
       RadioAckWaits, SpectrumAckWaits, RadioLegIdle, SpectrumLegIdle
<1>3. CASE SendIfGain
  <2>1. RadioLegIdle /\ SpectrumLegIdle
    BY <1>0, <1>3, IdleLegs DEF SendIfGain
  <2>2. CASE SendData(coordQid, RadioServerTypeCmd, IfGainCommand(ifGain)) /\ coordPc' = "gainAck" /\ UNCHANGED coordQid
    <3>1. /\ Attached(coordQid) /\ qid' = qid
          /\ queue'[RadioServerTypeCmd] = <<IfGainCommand(ifGain)>>
          /\ queue'[RadioServerTypeAck] = << >>
          /\ queue'[SpectrumServerTypeCmd] = << >>
          /\ queue'[SpectrumServerTypeAck] = << >>
      BY <1>0, <2>1, <2>2, SendDataEffect DEF RadioLegIdle, SpectrumLegIdle
    <3>2. ~RadioBusy' /\ ~SpectrumBusy'
      BY <1>0, <2>1, <3>1 DEF RadioLegIdle, SpectrumLegIdle, RadioBusy, SpectrumBusy, Attached
    <3>3. announced' # << >> /\ announced'[Len(announced')].gain = ifGain
      <4>1. announced' = Append(announced, [tag |-> tag, gain |-> ifGain])
        BY <1>3 DEF SendIfGain
      <4>2. announced \in Seq([tag : Int, gain : Int]) /\ tag \in Int /\ ifGain \in Int
        BY <1>0 DEF CoordTypeOK
      <4>3. Len(announced') = Len(announced) + 1 /\ announced'[Len(announced) + 1].gain = ifGain
        BY <4>1, <4>2
      <4>. QED
        BY <4>1, <4>2, <4>3
    <3>4. Attached(coordQid)'
      BY <2>2, <3>1 DEF Attached
    <3>. QED
      BY <2>2, <3>1, <3>2, <3>3, <3>4 DEF RadioLeg, SpectrumLeg, RadioAckWaits, SpectrumAckWaits
  <2>3. CASE SendDataFails(coordQid)
    BY <1>0, <2>1, <2>3 DEF SendDataFails, queueVars, RadioLeg, SpectrumLeg, RadioBusy,
       SpectrumBusy, Attached, RadioAckWaits, SpectrumAckWaits, RadioLegIdle,
       SpectrumLegIdle
  <2>. QED
    BY <1>3, <2>2, <2>3 DEF SendIfGain
<1>4. CASE RadioAckArrives
  <2>0. /\ coordPc = "gainAck" /\ coordPc' = "sendPower" /\ UNCHANGED coordQid
        /\ SpectrumLegIdle
    BY <1>0, <1>4, IdleLegs DEF RadioAckArrives, GainLegDone
  <2>1. CASE ReceiveData(coordQid, RadioServerTypeAck)
    <3>1. /\ Attached(coordQid) /\ qid' = qid
          /\ queue[RadioServerTypeAck] # << >>
          /\ queue'[RadioServerTypeAck] = Tail(queue[RadioServerTypeAck])
          /\ queue'[RadioServerTypeCmd] = queue[RadioServerTypeCmd]
          /\ queue'[SpectrumServerTypeCmd] = << >>
          /\ queue'[SpectrumServerTypeAck] = << >>
      BY <1>0, <2>0, <2>1, ReceiveDataEffect DEF SpectrumLegIdle
    <3>2. ~RadioBusy /\ queue'[RadioServerTypeCmd] = << >> /\ queue'[RadioServerTypeAck] = << >>
      BY <1>0, <3>1, TailOfOne DEF RadioLeg, RadioAckWaits
    <3>. QED
      BY <1>0, <2>0, <3>1, <3>2 DEF RadioLeg, SpectrumLeg, RadioBusy, SpectrumBusy,
         Attached, RadioAckWaits, SpectrumAckWaits, SpectrumLegIdle
  <2>2. CASE ReceiveDataFails(coordQid)
    <3>1. UNCHANGED <<queue, qid>> /\ RadioLegIdle
      BY <1>0, <2>2, IdleLegs DEF ReceiveDataFails, queueVars
    <3>. QED
      BY <1>0, <2>0, <3>1 DEF RadioLeg, SpectrumLeg, RadioBusy, SpectrumBusy, Attached,
         RadioAckWaits, SpectrumAckWaits, RadioLegIdle, SpectrumLegIdle
  <2>. QED
    BY <1>4, <2>1, <2>2 DEF RadioAckArrives
<1>5. CASE SendPower
  <2>1. RadioLegIdle /\ SpectrumLegIdle
    BY <1>0, <1>5, IdleLegs DEF SendPower
  <2>2. CASE SendData(coordQid, SpectrumServerTypeCmd, PowerCommand(tag)) /\ coordPc' = "powerAck" /\ UNCHANGED <<coordQid, tag>>
    <3>1. /\ Attached(coordQid) /\ qid' = qid
          /\ queue'[SpectrumServerTypeCmd] = <<PowerCommand(tag)>>
          /\ queue'[SpectrumServerTypeAck] = << >>
          /\ queue'[RadioServerTypeCmd] = << >>
          /\ queue'[RadioServerTypeAck] = << >>
      BY <1>0, <2>1, <2>2, SendDataEffect DEF RadioLegIdle, SpectrumLegIdle
    <3>2. ~RadioBusy' /\ ~SpectrumBusy'
      BY <1>0, <2>1, <3>1 DEF RadioLegIdle, SpectrumLegIdle, RadioBusy, SpectrumBusy, Attached
    <3>3. Attached(coordQid)' /\ PowerCommand(tag)' = PowerCommand(tag)
      BY <2>2, <3>1 DEF Attached, PowerCommand
    <3>. QED
      BY <2>2, <3>1, <3>2, <3>3 DEF RadioLeg, SpectrumLeg, RadioAckWaits, SpectrumAckWaits
  <2>3. CASE SendDataFails(coordQid)
    BY <1>0, <2>1, <2>3 DEF SendDataFails, queueVars, RadioLeg, SpectrumLeg, RadioBusy,
       SpectrumBusy, Attached, RadioAckWaits, SpectrumAckWaits, RadioLegIdle,
       SpectrumLegIdle
  <2>. QED
    BY <1>5, <2>2, <2>3 DEF SendPower
<1>6. CASE SpectrumAckArrives
  <2>0. coordPc = "powerAck" /\ UNCHANGED coordQid /\ RadioLegIdle
    BY <1>0, <1>6, IdleLegs DEF SpectrumAckArrives, PowerLegDone
  <2>1. CASE ReceiveData(coordQid, SpectrumServerTypeAck)
    <3>1. /\ Attached(coordQid) /\ qid' = qid
          /\ queue[SpectrumServerTypeAck] # << >>
          /\ queue'[SpectrumServerTypeAck] = Tail(queue[SpectrumServerTypeAck])
          /\ queue'[SpectrumServerTypeCmd] = queue[SpectrumServerTypeCmd]
          /\ queue'[RadioServerTypeCmd] = << >>
          /\ queue'[RadioServerTypeAck] = << >>
      BY <1>0, <2>0, <2>1, ReceiveDataEffect DEF RadioLegIdle
    <3>2. ~SpectrumBusy /\ queue'[SpectrumServerTypeCmd] = << >> /\ queue'[SpectrumServerTypeAck] = << >>
      BY <1>0, <3>1, TailOfOne DEF SpectrumLeg, SpectrumAckWaits
    <3>. QED
      BY <1>0, <2>0, <3>1, <3>2 DEF RadioLeg, SpectrumLeg, RadioBusy, SpectrumBusy,
         Attached, RadioAckWaits, SpectrumAckWaits, RadioLegIdle
  <2>2. CASE ReceiveDataFails(coordQid)
    <3>1. UNCHANGED <<queue, qid>> /\ SpectrumLegIdle
      BY <1>0, <2>2, IdleLegs DEF ReceiveDataFails, queueVars
    <3>. QED
      BY <1>0, <2>0, <3>1 DEF RadioLeg, SpectrumLeg, RadioBusy, SpectrumBusy, Attached,
         RadioAckWaits, SpectrumAckWaits, RadioLegIdle, SpectrumLegIdle
  <2>. QED
    BY <1>6, <2>1, <2>2 DEF SpectrumAckArrives
<1>7. CASE TerminateRadioServer
  <2>0. /\ coordPc = "sendTermRadio" /\ coordPc' = "sendTermSpec" /\ UNCHANGED coordQid
        /\ RadioLegIdle /\ SpectrumLegIdle
    BY <1>0, <1>7, IdleLegs DEF TerminateRadioServer
  <2>1. CASE SendData(coordQid, RadioServerTypeCmd, TerminateCommand)
    <3>1. /\ Attached(coordQid) /\ qid' = qid
          /\ queue'[RadioServerTypeCmd] = <<TerminateCommand>>
          /\ queue'[RadioServerTypeAck] = << >>
          /\ queue'[SpectrumServerTypeCmd] = << >>
          /\ queue'[SpectrumServerTypeAck] = << >>
      BY <1>0, <2>0, <2>1, SendDataEffect DEF RadioLegIdle, SpectrumLegIdle
    <3>. QED
      BY <1>0, <2>0, <3>1 DEF RadioLeg, SpectrumLeg, RadioBusy, SpectrumBusy, Attached,
         RadioAckWaits, SpectrumAckWaits, RadioLegIdle, SpectrumLegIdle
  <2>2. CASE SendDataFails(coordQid)
    BY <1>0, <2>0, <2>2 DEF SendDataFails, queueVars, RadioLeg, SpectrumLeg, RadioBusy,
       SpectrumBusy, Attached, RadioAckWaits, SpectrumAckWaits, RadioLegIdle,
       SpectrumLegIdle
  <2>. QED
    BY <1>7, <2>1, <2>2 DEF TerminateRadioServer, SendTerminate
<1>8. CASE TerminateSpectrumServer
  <2>0. /\ coordPc = "sendTermSpec" /\ coordPc' = "destroy" /\ UNCHANGED coordQid
        /\ SpectrumLegIdle
    BY <1>0, <1>8, IdleLegs DEF TerminateSpectrumServer
  <2>1. CASE SendData(coordQid, SpectrumServerTypeCmd, TerminateCommand)
    <3>1. /\ Attached(coordQid) /\ qid' = qid
          /\ queue'[SpectrumServerTypeCmd] = <<TerminateCommand>>
          /\ queue'[SpectrumServerTypeAck] = << >>
          /\ queue'[RadioServerTypeCmd] = queue[RadioServerTypeCmd]
          /\ queue'[RadioServerTypeAck] = queue[RadioServerTypeAck]
      <4>1. QueueTypeOK /\ TerminateCommand \in Body /\ SpectrumServerTypeCmd \in MessageType
        BY <1>0
      <4>. QED
        BY <2>0, <2>1, <4>1, SendDataEffect DEF SpectrumLegIdle
    <3>2. SpectrumLeg'
      BY <1>0, <2>0, <3>1 DEF SpectrumLeg, SpectrumBusy, Attached, SpectrumAckWaits, SpectrumLegIdle
    <3>3. RadioLeg'
      BY <1>0, <2>0, <3>1 DEF RadioLeg, RadioBusy, Attached, RadioAckWaits
    <3>. QED
      BY <3>2, <3>3
  <2>2. CASE SendDataFails(coordQid)
    BY <1>0, <2>0, <2>2 DEF SendDataFails, queueVars, RadioLeg, SpectrumLeg, RadioBusy,
       SpectrumBusy, Attached, RadioAckWaits, SpectrumAckWaits, SpectrumLegIdle
  <2>. QED
    BY <1>8, <2>1, <2>2 DEF TerminateSpectrumServer, SendTerminate
<1>9. CASE DestroyQueue
  <2>1. CASE RemoveQueue
    BY <1>0, <2>1, LegsWhenRemoved
  <2>2. CASE ~Attached(coordQid) /\ UNCHANGED queueVars
    <3>1. RadioLegIdle /\ SpectrumLegIdle /\ UNCHANGED <<queue, qid>>
      BY <1>0, <2>2, IdleLegs DEF queueVars
    <3>. QED
      BY <1>0, <3>1 DEF RadioLeg, SpectrumLeg, RadioBusy, SpectrumBusy, Attached,
         RadioAckWaits, SpectrumAckWaits, RadioLegIdle, SpectrumLegIdle
  <2>. QED
    BY <1>9, <2>1, <2>2 DEF DestroyQueue, Destroy
<1>. QED
  BY <1>1, <1>2, <1>3, <1>4, <1>5, <1>6, <1>7, <1>8, <1>9 DEF Coordinating, UserActs,
     CoordinatorStep

(* The radio server goes through its life in order.                         *)
LEMMA RadioPhaseStep ==
  ASSUME TypeOK, RadioPhase, [Next]_vars
  PROVE  RadioPhase'
<1>1. CASE UNCHANGED radioVars
  BY <1>1 DEF radioVars, RadioPhase
<1>2. CASE RadioServing
  BY <1>2, RadioPhaseKept DEF TypeOK, RadioServing
<1>. QED
  BY <1>1, <1>2 DEF Next, Coordinating, UserActs, SpectrumServing, DiagsServing, LinkBreaks,
     QueueVanishes,
     AllExited, vars

(* The radio server keeps both legs in order.                               *)
LEMMA LegsRadioServer ==
  ASSUME ProtocolInv, RadioServing
  PROVE  RadioLeg' /\ SpectrumLeg'
<1>. USE CommandsAreTyped, DistinctTypes
<1>0. /\ QueueTypeOK /\ RadioLeg /\ SpectrumLeg /\ RadioPhase
      /\ UNCHANGED <<coordQid, coordPc, announced, tag, specQid, specPc>>
  BY DEF ProtocolInv, TypeOK, RadioServing, spectrumVars, coordVars
<1>1. CASE LaunchRadioServer \/ RadioSend \/ RadioRead \/ RadioQuiet
  <2>1. UNCHANGED <<queue, qid, radioQid>>
    BY <1>1 DEF LaunchRadioServer, RadioSend, RadioRead, RadioQuiet, queueVars, radioVars
  <2>2. RadioBusy' => RadioBusy
    BY <1>0, <1>1, <2>1 DEF LaunchRadioServer, RadioSend, RadioRead, RadioQuiet, radioVars,
       RadioBusy, RadioPhase, Attached
  <2>. QED
    BY <1>0, <2>1, <2>2 DEF RadioLeg, SpectrumLeg, SpectrumBusy, Attached, RadioAckWaits,
       SpectrumAckWaits
<1>2. CASE RadioOpensQueue
  <2>1. CASE OpenQueue /\ radioPc' = "wait"
    BY <1>0, <2>1, LegsWhenOpened
  <2>2. CASE OpenFails /\ radioPc' = "exited" /\ UNCHANGED radioQid
    BY <1>0, <2>2 DEF OpenFails, queueVars, RadioLeg, SpectrumLeg, RadioBusy, SpectrumBusy,
       Attached, RadioAckWaits, SpectrumAckWaits
  <2>. QED
    BY <1>2, <2>1, <2>2 DEF RadioOpensQueue
<1>3. CASE RadioReceive
  <2>0. radioPc = "wait" /\ UNCHANGED radioQid
    BY <1>3 DEF RadioReceive
  <2>1. CASE ReceiveData(radioQid, RadioServerTypeCmd)
    <3>1. /\ Attached(radioQid) /\ qid' = qid
          /\ queue[RadioServerTypeCmd] # << >>
          /\ queue'[RadioServerTypeCmd] = Tail(queue[RadioServerTypeCmd])
          /\ queue'[RadioServerTypeAck] = queue[RadioServerTypeAck]
          /\ queue'[SpectrumServerTypeCmd] = queue[SpectrumServerTypeCmd]
          /\ queue'[SpectrumServerTypeAck] = queue[SpectrumServerTypeAck]
      BY <1>0, <2>1, ReceiveDataEffect
    <3>2. /\ Attached(coordQid)
          /\ queue'[RadioServerTypeCmd] = << >> /\ queue[RadioServerTypeAck] = << >>
      BY <1>0, <3>1, TailOfOne DEF RadioLeg, RadioAckWaits
    <3>3. CASE coordPc = "gainAck"
      BY <1>0, <2>0, <3>1, <3>2, <3>3 DEF RadioLeg, SpectrumLeg, RadioBusy, SpectrumBusy,
         Attached, RadioAckWaits, SpectrumAckWaits
    <3>4. CASE coordPc # "gainAck"
      <4>1. queue[RadioServerTypeCmd] = <<TerminateCommand>>
        BY <1>0, <3>1, <3>4 DEF RadioLeg
      <4>2. RadioDecode(Received(RadioServerTypeCmd)) = "exited"
        BY <4>1 DEF Received, RadioDecode, TerminateCommand, CmdTerminate, RadioServerCmdSetIfGain
      <4>3. radioPc' = "exited"
        BY <1>3, <4>2 DEF RadioReceive
      <4>. QED
        BY <1>0, <2>0, <3>1, <3>2, <4>3 DEF RadioLeg, SpectrumLeg, RadioBusy, SpectrumBusy,
           Attached, RadioAckWaits, SpectrumAckWaits
    <3>. QED
      BY <3>3, <3>4
  <2>2. CASE ReceiveDataFails(radioQid) /\ radioPc' = "exited"
    BY <1>0, <2>0, <2>2 DEF ReceiveDataFails, queueVars, RadioLeg, SpectrumLeg, RadioBusy,
       SpectrumBusy, Attached, RadioAckWaits, SpectrumAckWaits
  <2>. QED
    BY <1>3, <2>1, <2>2 DEF RadioReceive
<1>4. CASE RadioAck
  <2>0. radioPc = "ack" /\ UNCHANGED radioQid
    BY <1>4 DEF RadioAck
  <2>1. CASE SendData(radioQid, RadioServerTypeAck, Ack) /\ radioPc' = "wait"
    <3>1. /\ Attached(radioQid) /\ qid' = qid
          /\ queue'[RadioServerTypeAck] = Append(queue[RadioServerTypeAck], Ack)
          /\ queue'[RadioServerTypeCmd] = queue[RadioServerTypeCmd]
          /\ queue'[SpectrumServerTypeCmd] = queue[SpectrumServerTypeCmd]
          /\ queue'[SpectrumServerTypeAck] = queue[SpectrumServerTypeAck]
      BY <1>0, <2>1, SendDataEffect
    <3>2. /\ Attached(coordQid) /\ coordPc = "gainAck"
          /\ queue[RadioServerTypeCmd] = << >> /\ queue[RadioServerTypeAck] = << >>
      BY <1>0, <2>0, <3>1 DEF RadioLeg, RadioBusy
    <3>3. queue'[RadioServerTypeAck] = <<Ack>>
      BY <3>1, <3>2
    <3>. QED
      BY <1>0, <2>0, <2>1, <3>1, <3>2, <3>3 DEF RadioLeg, SpectrumLeg, RadioBusy,
         SpectrumBusy, Attached, RadioAckWaits, SpectrumAckWaits
  <2>2. CASE SendDataFails(radioQid) /\ radioPc' = "exited"
    BY <1>0, <2>0, <2>2 DEF SendDataFails, queueVars, RadioLeg, SpectrumLeg, RadioBusy,
       SpectrumBusy, Attached, RadioAckWaits, SpectrumAckWaits
  <2>. QED
    BY <1>4, <2>1, <2>2 DEF RadioAck
<1>. QED
  BY <1>1, <1>2, <1>3, <1>4 DEF RadioServing, RadioServerStep

(* The spectrum server keeps both legs in order.                            *)
LEMMA LegsSpectrumServer ==
  ASSUME ProtocolInv, SpectrumServing
  PROVE  RadioLeg' /\ SpectrumLeg'
<1>. USE CommandsAreTyped, DistinctTypes
<1>0. /\ QueueTypeOK /\ RadioLeg /\ SpectrumLeg
      /\ UNCHANGED <<coordQid, coordPc, announced, tag, radioQid, radioPc>>
  BY DEF ProtocolInv, TypeOK, SpectrumServing, radioVars, coordVars
<1>1. CASE StreamSamples \/ Measure \/ PipelineFails
  <2>1. UNCHANGED <<queue, qid, specQid>>
    BY <1>1 DEF StreamSamples, Measure, PipelineFails, queueVars
  <2>2. SpectrumBusy' => SpectrumBusy
    BY <1>1, <2>1 DEF StreamSamples, Measure, PipelineFails, SpectrumBusy, Attached
  <2>. QED
    BY <1>0, <2>1, <2>2 DEF RadioLeg, SpectrumLeg, RadioBusy, Attached, RadioAckWaits,
       SpectrumAckWaits
<1>2. CASE LaunchSpectrumServer
  <2>1. CASE OpenQueue /\ specPc' = "wait"
    BY <1>0, <2>1, LegsWhenOpened
  <2>2. CASE OpenFails /\ specPc' = "exited" /\ UNCHANGED specQid
    BY <1>0, <2>2 DEF OpenFails, queueVars, RadioLeg, SpectrumLeg, RadioBusy, SpectrumBusy,
       Attached, RadioAckWaits, SpectrumAckWaits
  <2>. QED
    BY <1>2, <2>1, <2>2 DEF LaunchSpectrumServer
<1>3. CASE SpectrumReceive
  <2>0. specPc = "wait" /\ UNCHANGED specQid
    BY <1>3 DEF SpectrumReceive
  <2>1. CASE ReceiveData(specQid, SpectrumServerTypeCmd)
    <3>1. /\ Attached(specQid) /\ qid' = qid
          /\ queue[SpectrumServerTypeCmd] # << >>
          /\ queue'[SpectrumServerTypeCmd] = Tail(queue[SpectrumServerTypeCmd])
          /\ queue'[SpectrumServerTypeAck] = queue[SpectrumServerTypeAck]
          /\ queue'[RadioServerTypeCmd] = queue[RadioServerTypeCmd]
          /\ queue'[RadioServerTypeAck] = queue[RadioServerTypeAck]
      BY <1>0, <2>1, ReceiveDataEffect
    <3>2. /\ Attached(coordQid)
          /\ queue'[SpectrumServerTypeCmd] = << >> /\ queue[SpectrumServerTypeAck] = << >>
      BY <1>0, <3>1, TailOfOne DEF SpectrumLeg, SpectrumAckWaits
    <3>3. CASE coordPc = "powerAck"
      BY <1>0, <2>0, <3>1, <3>2, <3>3 DEF RadioLeg, SpectrumLeg, RadioBusy, SpectrumBusy,
         Attached, RadioAckWaits, SpectrumAckWaits
    <3>4. CASE coordPc # "powerAck"
      <4>1. queue[SpectrumServerTypeCmd] = <<TerminateCommand>>
        BY <1>0, <3>1, <3>4 DEF SpectrumLeg
      <4>2. SpectrumDecode(Received(SpectrumServerTypeCmd)) = "exited"
        BY <4>1 DEF Received, SpectrumDecode, TerminateCommand, CmdTerminate,
           SpectrumServerCmdComputePower
      <4>3. specPc' = "exited"
        BY <1>3, <4>2 DEF SpectrumReceive
      <4>. QED
        BY <1>0, <2>0, <3>1, <3>2, <4>3 DEF RadioLeg, SpectrumLeg, RadioBusy, SpectrumBusy,
           Attached, RadioAckWaits, SpectrumAckWaits
    <3>. QED
      BY <3>3, <3>4
  <2>2. CASE ReceiveDataFails(specQid) /\ specPc' = "exited"
    BY <1>0, <2>0, <2>2 DEF ReceiveDataFails, queueVars, RadioLeg, SpectrumLeg, RadioBusy,
       SpectrumBusy, Attached, RadioAckWaits, SpectrumAckWaits
  <2>. QED
    BY <1>3, <2>1, <2>2 DEF SpectrumReceive
<1>4. CASE SpectrumAck
  <2>0. specPc = "ack" /\ UNCHANGED specQid
    BY <1>4 DEF SpectrumAck
  <2>1. CASE SendData(specQid, SpectrumServerTypeAck, Ack) /\ specPc' = "wait"
    <3>1. /\ Attached(specQid) /\ qid' = qid
          /\ queue'[SpectrumServerTypeAck] = Append(queue[SpectrumServerTypeAck], Ack)
          /\ queue'[SpectrumServerTypeCmd] = queue[SpectrumServerTypeCmd]
          /\ queue'[RadioServerTypeCmd] = queue[RadioServerTypeCmd]
          /\ queue'[RadioServerTypeAck] = queue[RadioServerTypeAck]
      BY <1>0, <2>1, SendDataEffect
    <3>2. /\ Attached(coordQid) /\ coordPc = "powerAck"
          /\ queue[SpectrumServerTypeCmd] = << >> /\ queue[SpectrumServerTypeAck] = << >>
      BY <1>0, <2>0, <3>1 DEF SpectrumLeg, SpectrumBusy
    <3>3. queue'[SpectrumServerTypeAck] = <<Ack>>
      BY <3>1, <3>2
    <3>. QED
      BY <1>0, <2>0, <2>1, <3>1, <3>2, <3>3 DEF RadioLeg, SpectrumLeg, RadioBusy,
         SpectrumBusy, Attached, RadioAckWaits, SpectrumAckWaits
  <2>2. CASE SendDataFails(specQid) /\ specPc' = "exited"
    BY <1>0, <2>0, <2>2 DEF SendDataFails, queueVars, RadioLeg, SpectrumLeg, RadioBusy,
       SpectrumBusy, Attached, RadioAckWaits, SpectrumAckWaits
  <2>. QED
    BY <1>4, <2>1, <2>2 DEF SpectrumAck
<1>. QED
  BY <1>1, <1>2, <1>3, <1>4 DEF SpectrumServing, SpectrumServerStep

(* No step of any process disturbs the legs.                                *)
LEMMA ProtocolStep == ProtocolInv /\ [Next]_vars => ProtocolInv'
<1>. SUFFICES ASSUME ProtocolInv, [Next]_vars PROVE ProtocolInv'
  OBVIOUS
<1>0. TypeOK' /\ RadioPhase' /\ QueueTypeOK
  BY TypeStep, RadioPhaseStep DEF ProtocolInv, TypeOK
<1>1. CASE Coordinating \/ UserActs
  BY <1>0, <1>1, LegsCoordinator DEF ProtocolInv
<1>2. CASE RadioServing
  BY <1>0, <1>2, LegsRadioServer DEF ProtocolInv
<1>3. CASE SpectrumServing
  BY <1>0, <1>3, LegsSpectrumServer DEF ProtocolInv
<1>4. CASE QueueVanishes
  BY <1>0, <1>4, LegsWhenRemoved DEF QueueVanishes, QueueRemovedByOther, ProtocolInv
<1>5. CASE UNCHANGED <<queueVars, radioVars, spectrumVars, coordVars>>
  <2>1. RadioLeg /\ SpectrumLeg
    BY DEF ProtocolInv
  <2>2. RadioLeg' /\ SpectrumLeg'
    BY <1>5, <2>1 DEF queueVars, radioVars, spectrumVars, coordVars, RadioLeg, SpectrumLeg,
       RadioBusy, SpectrumBusy, Attached, RadioAckWaits, SpectrumAckWaits
  <2>. QED
    BY <1>0, <2>2 DEF ProtocolInv
<1>. QED
  BY <1>1, <1>2, <1>3, <1>4, <1>5 DEF Next, DiagsServing, LinkBreaks, AllExited, vars

(* Where the legs are in order, each holds one thing at most.               *)
LEMMA LegsHoldOne ==
  ASSUME ProtocolInv
  PROVE  RadioUnderWay <= 1 /\ SpectrumUnderWay <= 1
<1>. DEFINE n(type) == Len(queue[type])
<1>1. RadioLeg /\ SpectrumLeg
  BY DEF ProtocolInv
<1>2. ASSUME NEW type \in MessageType
      PROVE  /\ n(type) \in Nat
             /\ queue[type] = << >> => n(type) = 0
             /\ \A message : queue[type] = <<message>> => n(type) = 1
  <2>1. n(type) \in Nat /\ (queue[type] = << >> => n(type) = 0)
    BY <1>2 DEF ProtocolInv, TypeOK, QueueTypeOK
  <2>2. ASSUME NEW message, queue[type] = <<message>> PROVE n(type) = 1
    BY <2>2
  <2>. QED
    BY <2>1, <2>2
<1>3. /\ n(RadioServerTypeCmd) \in 0 .. 1 /\ n(RadioServerTypeAck) \in 0 .. 1
      /\ RadioBusy => n(RadioServerTypeCmd) = 0 /\ n(RadioServerTypeAck) = 0
      /\ n(RadioServerTypeAck) # 0 => n(RadioServerTypeCmd) = 0
  BY <1>1, <1>2, CommandsAreTyped DEF RadioLeg, RadioAckWaits
<1>4. /\ n(SpectrumServerTypeCmd) \in 0 .. 1 /\ n(SpectrumServerTypeAck) \in 0 .. 1
      /\ SpectrumBusy => n(SpectrumServerTypeCmd) = 0 /\ n(SpectrumServerTypeAck) = 0
      /\ n(SpectrumServerTypeAck) # 0 => n(SpectrumServerTypeCmd) = 0
  BY <1>1, <1>2, CommandsAreTyped DEF SpectrumLeg, SpectrumAckWaits
<1>5. /\ RadioUnderWay = n(RadioServerTypeCmd) + One(RadioBusy) + n(RadioServerTypeAck)
      /\ SpectrumUnderWay = n(SpectrumServerTypeCmd) + One(SpectrumBusy) + n(SpectrumServerTypeAck)
  BY DEF RadioUnderWay, SpectrumUnderWay
<1>. HIDE DEF n
<1>. QED
  BY <1>3, <1>4, <1>5 DEF One

(* Whatever fails, of one server there is never more under way than one     *)
(* command that waits, or one it works on, or one acknowledgement, and no   *)
(* acknowledgement outlives the wait of the coordinator it is meant for.    *)
THEOREM StopAndWaitHolds == Spec => []StopAndWait
<1>1. ProtocolInv => StopAndWait
  <2>. SUFFICES ASSUME ProtocolInv PROVE StopAndWait
    OBVIOUS
  <2>1. RadioUnderWay <= 1 /\ SpectrumUnderWay <= 1
    BY LegsHoldOne
  <2>. QED
    BY <2>1 DEF ProtocolInv, RadioLeg, SpectrumLeg, StopAndWait
<1>. QED
  BY <1>1, ProtocolInit, ProtocolStep, PTL DEF Spec

-----------------------------------------------------------------------------
(***************************************************************************)
(* Theorems about what is measured: the radio is never retuned during a    *)
(* capture, and every record of the output file tells the truth.           *)
(*                                                                         *)
(* They hold while no send is lost and no answer of radio diags is late,   *)
(* whatever else fails.  Neither condition can be dropped: a lost gain     *)
(* command or a late answer leaves the radio at the gain of another round. *)
(***************************************************************************)

(* Nothing is measured before the programs are launched.                    *)
LEMMA MeasurementInit == Init => MeasurementInv
<1>. SUFFICES ASSUME Init PROVE MeasurementInv
  OBVIOUS
<1>1. ProtocolInv
  BY ProtocolInit
<1>2. /\ toRadio = << >> /\ radioPc = "off" /\ radioQid = NoQueue
      /\ specPc = "off" /\ coordPc = "off" /\ results = << >>
      /\ queue[RadioServerTypeAck] = << >>
  BY CommandsAreTyped DEF Init, LinkInit, RadioInit, SpectrumInit, CoordInit, QueueInit, EmptyQueue
<1>. QED
  BY <1>1, <1>2 DEF MeasurementInv, GainInv, LinkInv, ServedGainInv, RoundInv, CaptureInv,
     NoRetuneDuringCapture, RecordsGenuine, RadioAckWaits

-----------------------------------------------------------------------------
(* Facts that several steps use.                                            *)

(* A gain command with one parameter is sent on to the radio.               *)
LEMMA DecodeOfGainCommand ==
  ASSUME NEW body, body[1] = RadioServerCmdSetIfGain, Len(body) = 2
  PROVE  RadioDecode(body) = "send"
BY DEF RadioDecode, CmdTerminate, RadioServerCmdSetIfGain

(* A power command with one parameter starts the pipeline.                  *)
LEMMA DecodeOfPowerCommand ==
  ASSUME NEW body, body[1] = SpectrumServerCmdComputePower, Len(body) = 2
  PROVE  SpectrumDecode(body) = "capture"
BY DEF SpectrumDecode, CmdTerminate, SpectrumServerCmdComputePower

(* What the coordinator adds to the console takes nothing away from it.     *)
LEMMA ConsoleGrows ==
  ASSUME CoordTypeOK, Coordinating \/ UserActs
  PROVE  /\ announced' = announced \/ announced' = Append(announced, [tag |-> tag, gain |-> ifGain])
         /\ \A j \in 1 .. Len(announced) :
              j \in 1 .. Len(announced') /\ announced'[j] = announced[j]
<1>1. announced' = announced \/ announced' = Append(announced, [tag |-> tag, gain |-> ifGain])
  BY DEF Coordinating, UserActs, CoordinatorStep, UserStep, UserMeasure, UserExit, UserEndOfInput,
     LaunchCoordinator, SendIfGain, RadioAckArrives, SendPower, PowerLegDone,
     SpectrumAckArrives, TerminateRadioServer, TerminateSpectrumServer, DestroyQueue
<1>2. announced \in Seq([tag : Int, gain : Int]) /\ [tag |-> tag, gain |-> ifGain] \in [tag : Int, gain : Int]
  BY DEF CoordTypeOK
<1>3. CASE announced' = announced
  BY <1>3
<1>4. CASE announced' = Append(announced, [tag |-> tag, gain |-> ifGain])
  BY <1>2, <1>4
<1>. QED
  BY <1>1, <1>3, <1>4

(* A settled radio stays settled until a gain command waits.                *)
LEMMA SettledStays ==
  ASSUME LinkTypeOK, RadioSettled, queue[RadioServerTypeCmd] = << >>, RadioServing
  PROVE  RadioSettled' /\ radioGain' = radioGain
<1>1. radioPc \in {"wait", "exited"}
  BY DEF RadioSettled
<1>2. RadioReceive /\ ReceiveDataFails(radioQid)
  BY <1>1 DEF RadioServing, RadioServerStep, LaunchRadioServer, RadioSend, RadioRead, RadioQuiet,
     RadioOpensQueue, RadioReceive, RadioAck, ReceiveData
<1>3. toRadio = << >> => toRadio' = << >>
  BY <1>2, ConnectionReleased DEF RadioReceive
<1>. QED
  BY <1>1, <1>2, <1>3 DEF RadioReceive, ReceiveDataFails, ReceiveData, diagsVars, RadioSettled

(* Nobody but its constructor attaches an object to a queue: an identifier  *)
(* that is dead stays dead.                                                 *)
LEMMA DeadStaysDead ==
  ASSUME QueueTypeOK, NEW id \in 0 .. lastId, RadioServing \/ SpectrumServing, id = qid', id # NoQueue
  PROVE  Attached(id)
<1>1. CASE qid' = qid
  BY <1>1 DEF Attached
<1>2. CASE OpenQueue
  BY <1>2, OpenQueueEffect DEF Attached, QueueTypeOK
<1>3. qid' = qid \/ OpenQueue
  BY DEF RadioServing, SpectrumServing, RadioServerStep, LaunchRadioServer, RadioSend,
     RadioRead, RadioQuiet,
     RadioOpensQueue, RadioReceive, RadioAck, SpectrumServerStep, LaunchSpectrumServer,
     SpectrumReceive,
     StreamSamples, Measure, PipelineFails, SpectrumAck, OpenFails, SendData, SendDataFails,
     ReceiveData, ReceiveDataFails, queueVars, radioVars
<1>. QED
  BY <1>1, <1>2, <1>3

-----------------------------------------------------------------------------
(* The coordinator and its user.                                            *)

(* The coordinator and its user preserve the measurement invariant.         *)
LEMMA MeasurementCoordinator ==
  ASSUME NoLostSendNoLateReply, ProtocolInv, GainInv, ProtocolInv', Coordinating \/ UserActs
  PROVE  GainInv'
<1>. USE CommandsAreTyped, DistinctTypes
<1>0. /\ QueueTypeOK /\ CoordTypeOK /\ ifGain \in Int /\ tag \in Int /\ radioGain \in Int
      /\ RadioLeg /\ SpectrumLeg /\ RadioLeg' /\ SpectrumLeg'
      /\ LinkInv /\ ServedGainInv /\ RoundInv /\ CaptureInv
      /\ announced \in Seq([tag : Int, gain : Int])
      /\ coordQid' = coordQid \/ coordPc = "off"
  BY DEF GainInv, ProtocolInv, TypeOK, CoordTypeOK, LinkTypeOK, Coordinating, UserActs,
     CoordinatorStep, UserStep, UserMeasure, UserExit, UserEndOfInput, LaunchCoordinator,
     SendIfGain, RadioAckArrives, SendPower, GainLegDone, PowerLegDone, SpectrumAckArrives,
     TerminateRadioServer, TerminateSpectrumServer, DestroyQueue
<1>1. UNCHANGED <<toRadio, peerUp, radioGain, radioPc, radioQid, setupStep, radioCommand,
                  specPc, specQid, spectrumTag, samples, results>>
  BY DEF Coordinating, UserActs, linkVars, diagsVars, radioVars, spectrumVars
<1>2. UNCHANGED <<RadioSettled, GainApplied>>
  BY <1>1 DEF RadioSettled, GainApplied
<1>3. LinkInv'
  BY <1>0, <1>1 DEF LinkInv
<1>4. coordPc' = "gainAck" => queue'[RadioServerTypeCmd] # << >>
  <2>1. CASE SendData(coordQid, RadioServerTypeCmd, IfGainCommand(ifGain))
    <3>1. queue'[RadioServerTypeCmd] = Append(queue[RadioServerTypeCmd], IfGainCommand(ifGain))
      BY <1>0, <2>1, SendDataEffect
    <3>. QED
      BY <1>0, <3>1, LastOfSequence DEF QueueTypeOK
  <2>2. coordPc' = "gainAck" => SendData(coordQid, RadioServerTypeCmd, IfGainCommand(ifGain))
    BY DEF Coordinating, UserActs, CoordinatorStep, UserStep, UserMeasure, UserExit, UserEndOfInput,
       LaunchCoordinator, SendIfGain, RadioAckArrives, SendPower, GainLegDone, PowerLegDone,
       SpectrumAckArrives, TerminateRadioServer, TerminateSpectrumServer, DestroyQueue, LoopEntry
  <2>. QED
    BY <2>1, <2>2
<1>5. ~RadioBusy' /\ ~RadioAckWaits'
  BY <1>0, <1>4 DEF RadioLeg
<1>6. ServedGainInv'
  BY <1>0, <1>1, <1>2, <1>5 DEF ServedGainInv
<1>7. RoundInv'
  <2>1. CASE SendIfGain
    <3>0. /\ coordPc' \in {"gainAck", "sendPower"} /\ tag' = tag
          /\ announced' = Append(announced, [tag |-> tag, gain |-> ifGain])
      BY <2>1 DEF SendIfGain, GainLegDone
    <3>1. announced' # << >> /\ announced'[Len(announced')].tag = tag'
      BY <1>0, <3>0
    <3>2. coordPc' = "sendPower" => ~Attached(coordQid)'
      BY <2>1 DEF SendIfGain, SendDataFails, GainLegDone, NoLostSendNoLateReply, queueVars, Attached
    <3>. QED
      BY <1>5, <3>0, <3>1, <3>2 DEF RoundInv
  <2>2. CASE RadioAckArrives
    <3>0. coordPc = "gainAck" /\ coordPc' = "sendPower" /\ UNCHANGED <<announced, tag, coordQid>>
      BY <2>2 DEF RadioAckArrives, GainLegDone
    <3>1. announced # << >> /\ announced[Len(announced)].tag = tag
      BY <1>0, <3>0 DEF RoundInv
    <3>2. CASE ReceiveData(coordQid, RadioServerTypeAck)
      <4>1. RadioAckWaits
        BY <1>0, <3>2, ReceiveDataEffect DEF RadioAckWaits
      <4>2. RadioSettled /\ announced[Len(announced)].gain = radioGain
        BY <1>0, <4>1 DEF RoundInv
      <4>3. announced[Len(announced)] \in [tag : Int, gain : Int]
        BY <1>0, <3>1, LastOfSequence
      <4>4. announced[Len(announced)] = [tag |-> tag, gain |-> radioGain]
        BY <3>1, <4>2, <4>3
      <4>5. AtGainOfLastRound'
        BY <1>1, <1>2, <3>0, <3>1, <4>2, <4>4 DEF AtGainOfLastRound
      <4>. QED
        BY <1>5, <3>0, <3>1, <4>5 DEF RoundInv
    <3>3. CASE ReceiveDataFails(coordQid)
      <4>1. ~Attached(coordQid)'
        BY <3>0, <3>3 DEF ReceiveDataFails, queueVars, Attached
      <4>. QED
        BY <1>5, <3>0, <3>1, <4>1 DEF RoundInv
    <3>. QED
      BY <2>2, <3>2, <3>3 DEF RadioAckArrives
  <2>3. CASE SendPower
    <3>0. coordPc = "sendPower" /\ UNCHANGED <<announced, coordQid>>
      BY <2>3 DEF SendPower, PowerLegDone
    <3>1. CASE SendData(coordQid, SpectrumServerTypeCmd, PowerCommand(tag)) /\ coordPc' = "powerAck" /\ UNCHANGED tag
      <4>1. Attached(coordQid)
        BY <3>1 DEF SendData
      <4>2. AtGainOfLastRound
        BY <1>0, <3>0, <4>1 DEF RoundInv
      <4>3. AtGainOfLastRound'
        BY <1>1, <1>2, <3>0, <3>1, <4>2 DEF AtGainOfLastRound
      <4>. QED
        BY <1>5, <3>1, <4>3 DEF RoundInv
    <3>2. CASE coordPc' \notin {"gainAck", "sendPower", "powerAck"}
      BY <1>5, <3>2 DEF RoundInv
    <3>. QED
      BY <2>3, <3>1, <3>2 DEF SendPower, PowerLegDone, LoopEntry
  <2>4. CASE coordPc' \notin {"gainAck", "sendPower", "powerAck"}
    BY <1>5, <2>4 DEF RoundInv
  <2>. QED
    BY <2>1, <2>2, <2>3, <2>4 DEF Coordinating, UserActs, CoordinatorStep, UserStep,
       UserMeasure, UserExit,
       UserEndOfInput, LaunchCoordinator, PowerLegDone, SpectrumAckArrives,
       TerminateRadioServer, TerminateSpectrumServer, DestroyQueue, LoopEntry
<1>8. CaptureInv'
  <2>1. specPc \in {"capture", "ack"} => coordPc # "off" /\ specQid = coordQid
    BY <1>0 DEF CaptureInv
  <2>2. coordPc # "off" => coordPc' # "off"
    BY DEF Coordinating, UserActs, CoordinatorStep, UserStep, UserMeasure, UserExit, UserEndOfInput,
       LaunchCoordinator, SendIfGain, RadioAckArrives, SendPower, GainLegDone, PowerLegDone,
       SpectrumAckArrives, TerminateRadioServer, TerminateSpectrumServer, DestroyQueue, LoopEntry
  <2>3. (specPc \in {"capture", "ack"} => coordPc # "off" /\ specQid = coordQid)'
    BY <1>0, <1>1, <2>1, <2>2
  <2>4. (specPc = "capture" => queue[RadioServerTypeCmd] = << >>)'
    BY <1>0, <2>3 DEF RadioLeg, SpectrumLeg, SpectrumBusy, Attached
  <2>5. specPc = "capture" =>
          \E j \in 1 .. Len(announced') : announced'[j] = [tag |-> spectrumTag, gain |-> radioGain]
    BY <1>0, ConsoleGrows DEF CaptureInv, NoRetuneDuringCapture
  <2>. QED
    BY <1>0, <1>1, <1>2, <2>3, <2>4, <2>5 DEF CaptureInv, NoRetuneDuringCapture
<1>. QED
  BY <1>3, <1>6, <1>7, <1>8 DEF GainInv

-----------------------------------------------------------------------------
(* The radio server.                                                        *)

(* The radio server preserves the measurement invariant.                    *)
LEMMA MeasurementRadioServer ==
  ASSUME NoLostSendNoLateReply, ProtocolInv, GainInv, ProtocolInv', RadioServing
  PROVE  GainInv'
<1>. USE CommandsAreTyped, DistinctTypes
<1>0. /\ QueueTypeOK /\ RadioLeg /\ SpectrumLeg /\ RadioLeg' /\ SpectrumLeg'
      /\ RadioPhase /\ RadioPhase'
      /\ LinkInv /\ ServedGainInv /\ RoundInv /\ CaptureInv /\ LinkTypeOK
      /\ coordQid \in 0 .. lastId /\ radioQid \in 0 .. lastId
  BY DEF GainInv, ProtocolInv, TypeOK, CoordTypeOK, RadioTypeOK
<1>1. UNCHANGED <<coordPc, coordQid, announced, tag, specPc, specQid, spectrumTag, samples, results>>
  BY DEF RadioServing, spectrumVars, coordVars
<1>2. LinkInv'
  <2>1. CASE RadioSend
    <3>1. toRadio = << >> /\ radioPc' \in {"receive", "killed"} /\ UNCHANGED <<peerUp, radioCommand>>
      BY <1>0, <2>1 DEF RadioSend, SendOctets, SendRaisesSigpipe, Disconnect, LinkInv
    <3>2. CASE SendOctets(radioCommand) /\ radioPc' = "receive"
      <4>1. toRadio' = IF peerUp THEN <<radioCommand>> ELSE << >>
        BY <3>1, <3>2 DEF SendOctets
      <4>. QED
        BY <3>1, <3>2, <4>1 DEF LinkInv
    <3>3. CASE SendRaisesSigpipe
      BY <1>0, <3>1, <3>3, DisconnectEffect DEF SendRaisesSigpipe, LinkInv
    <3>. QED
      BY <2>1, <3>2, <3>3 DEF RadioSend
  <2>2. CASE RadioQuiet
    BY <2>2 DEF RadioQuiet, SelectTimesOut, linkVars, NoLostSendNoLateReply, LinkInv
  <2>3. CASE LaunchRadioServer
    BY <1>0, <2>3 DEF LaunchRadioServer, Connect, ConnectFails, linkVars, LinkInv
  <2>4. CASE RadioRead
    BY <1>0, <2>4 DEF RadioRead, ReadAvailable, ReadEndOfFile, linkVars, radioVars, LinkInv
  <2>5. CASE RadioOpensQueue \/ RadioReceive \/ RadioAck
    <3>1. radioPc \in {"open", "wait", "ack"} /\ ReleasesConnection /\ UNCHANGED diagsVars
      BY <2>5 DEF RadioOpensQueue, RadioReceive, RadioAck
    <3>2. toRadio = << >>
      BY <1>0, <3>1 DEF LinkInv
    <3>3. toRadio' = << >>
      BY <1>0, <3>1, <3>2, ConnectionReleased
    <3>. QED
      BY <3>3 DEF LinkInv
  <2>. QED
    BY <2>1, <2>2, <2>3, <2>4, <2>5 DEF RadioServing, RadioServerStep
<1>3. ServedGainInv'
  <2>1. CASE RadioSend
    <3>1. UNCHANGED <<radioQid, radioCommand, qid, radioGain>> /\ radioPc = "send" /\ radioPc' \in {"receive", "killed"}
      BY <2>1 DEF RadioSend, queueVars, diagsVars
    <3>2. radioPc' = "receive" /\ peerUp' => toRadio' # << >>
      <4>1. toRadio \in Seq(RadioCommands) /\ radioCommand \in RadioCommands
        BY DEF GainInv, ProtocolInv, TypeOK, LinkTypeOK, RadioTypeOK
      <4>. QED
        BY <2>1, <4>1, LastOfSequence DEF RadioSend, SendOctets
    <3>. QED
      BY <1>0, <1>1, <3>1, <3>2 DEF ServedGainInv, RadioBusy, Attached
  <2>2. CASE RadioQuiet
    <3>1. UNCHANGED <<radioQid, qid, radioGain, toRadio>> /\ radioPc = "receive" /\ peerUp /\ toRadio = << >>
      BY <2>2 DEF RadioQuiet, SelectTimesOut, linkVars, queueVars, diagsVars, NoLostSendNoLateReply
    <3>2. radioQid # NoQueue => radioCommand' = radioCommand
      BY <1>0, <2>2 DEF RadioQuiet, RadioPhase, SetupLength
    <3>3. RadioBusy' => RadioBusy
      BY <3>1 DEF RadioBusy, Attached
    <3>. QED
      BY <1>0, <1>1, <3>1, <3>2, <3>3 DEF ServedGainInv, GainApplied
  <2>3. CASE RadioRead
    <3>1. UNCHANGED <<radioQid, radioPc, radioCommand, qid, radioGain, peerUp, toRadio>>
      BY <2>3 DEF RadioRead, ReadAvailable, ReadEndOfFile, linkVars, radioVars, queueVars, diagsVars
    <3>. QED
      BY <1>0, <1>1, <3>1 DEF ServedGainInv, GainApplied, RadioBusy, Attached
  <2>4. CASE RadioReceive
    <3>1. CASE ReceiveData(radioQid, RadioServerTypeCmd)
      <4>1. queue[RadioServerTypeCmd] # << >>
        BY <3>1 DEF ReceiveData
      <4>2. CASE queue[RadioServerTypeCmd] = <<IfGainCommand(announced[Len(announced)].gain)>> /\ announced # << >>
        <5>1. Received(RadioServerTypeCmd) = <<1, announced[Len(announced)].gain>>
          BY <4>2 DEF Received, IfGainCommand, RadioServerCmdSetIfGain
        <5>2. RadioDecode(Received(RadioServerTypeCmd)) = "send"
          <6>1. Received(RadioServerTypeCmd)[1] = 1 /\ Len(Received(RadioServerTypeCmd)) = 2
            BY <5>1
          <6>. QED
            BY <6>1, DecodeOfGainCommand DEF RadioServerCmdSetIfGain
        <5>3. ~ReceiveDataFails(radioQid)
          BY <3>1 DEF ReceiveData, ReceiveDataFails
        <5>4. radioPc' = "send" /\ radioCommand' = Command("rxifgain", announced[Len(announced)].gain)
          BY <2>4, <5>1, <5>2, <5>3 DEF RadioReceive
        <5>. QED
          BY <1>1, <4>2, <5>4 DEF ServedGainInv, Command
      <4>3. CASE queue[RadioServerTypeCmd] = <<TerminateCommand>>
        <5>1. Received(RadioServerTypeCmd) = <<0>>
          BY <4>3 DEF Received, TerminateCommand, CmdTerminate
        <5>2. RadioDecode(Received(RadioServerTypeCmd)) = "exited"
          BY <5>1 DEF RadioDecode, CmdTerminate, RadioServerCmdSetIfGain
        <5>3. radioPc' = "exited"
          BY <2>4, <5>2 DEF RadioReceive
        <5>. QED
          BY <5>3 DEF ServedGainInv
      <4>. QED
        BY <1>0, <4>1, <4>2, <4>3 DEF RadioLeg
    <3>2. CASE radioPc' = "exited"
      BY <3>2 DEF ServedGainInv
    <3>. QED
      BY <2>4, <3>1, <3>2 DEF RadioReceive
  <2>5. CASE LaunchRadioServer
    <3>1. radioQid' = NoQueue
      BY <1>0, <2>5 DEF LaunchRadioServer, RadioPhase
    <3>. QED
      BY <3>1 DEF ServedGainInv
  <2>6. CASE RadioOpensQueue \/ RadioAck
    <3>1. radioPc' \in {"wait", "exited"}
      BY <2>6 DEF RadioOpensQueue, RadioAck
    <3>. QED
      BY <3>1 DEF ServedGainInv
  <2>. QED
    BY <2>1, <2>2, <2>3, <2>4, <2>5, <2>6 DEF RadioServing, RadioServerStep
<1>4. Attached(coordQid)' => Attached(coordQid)
  BY <1>0, <1>1, DeadStaysDead DEF Attached
<1>5. AtGainOfLastRound /\ queue[RadioServerTypeCmd] = << >> => AtGainOfLastRound'
  BY <1>0, <1>1, SettledStays DEF AtGainOfLastRound
<1>6. RoundInv'
  <2>1. (coordPc \in {"gainAck", "sendPower"} => announced # << >> /\ announced[Len(announced)].tag = tag)'
    BY <1>0, <1>1 DEF RoundInv
  <2>2. (RadioAckWaits => RadioSettled /\ announced[Len(announced)].gain = radioGain)'
    <3>1. CASE RadioAckWaits
      <4>1. RadioSettled /\ queue[RadioServerTypeCmd] = << >>
        BY <1>0, <3>1 DEF RoundInv, RadioLeg
      <4>. QED
        BY <1>0, <1>1, <3>1, <4>1, SettledStays DEF RoundInv
    <3>2. CASE ~RadioAckWaits /\ RadioAck /\ SendData(radioQid, RadioServerTypeAck, Ack)
      <4>1. RadioBusy /\ radioPc = "ack" /\ radioQid # NoQueue
        BY <3>2 DEF RadioAck, SendData, RadioBusy, Attached
      <4>2. GainApplied /\ radioCommand.value = announced[Len(announced)].gain /\ setupStep = SetupLength
        BY <1>0, <4>1 DEF ServedGainInv, RadioPhase
      <4>3. radioPc' \in {"wait", "exited"} /\ UNCHANGED <<setupStep, radioGain>>
        BY <3>2 DEF RadioAck, diagsVars
      <4>4. toRadio = << >> => toRadio' = << >>
        BY <1>0, <3>2, ConnectionReleased DEF RadioAck
      <4>. QED
        BY <1>1, <4>2, <4>3, <4>4 DEF RadioSettled, GainApplied
    <3>3. CASE ~RadioAckWaits /\ ~(RadioAck /\ SendData(radioQid, RadioServerTypeAck, Ack))
      <4>1. queue'[RadioServerTypeAck] = queue[RadioServerTypeAck]
        <5>1. CASE ReceiveData(radioQid, RadioServerTypeCmd)
          BY <1>0, <5>1, ReceiveDataEffect
        <5>2. CASE queue' = queue
          BY <5>2
        <5>. QED
          BY <3>3, <5>1, <5>2 DEF RadioServing, RadioServerStep, LaunchRadioServer,
             RadioSend, RadioRead,
             RadioQuiet, RadioOpensQueue, RadioReceive, RadioAck, OpenQueue, OpenFails,
             SendDataFails,
             ReceiveDataFails, queueVars
      <4>. QED
        BY <3>3, <4>1 DEF RadioAckWaits
    <3>. QED
      BY <3>1, <3>2, <3>3
  <2>3. (coordPc = "sendPower" /\ Attached(coordQid) => AtGainOfLastRound)'
    <3>1. SUFFICES ASSUME coordPc = "sendPower", Attached(coordQid) PROVE AtGainOfLastRound'
      BY <1>1, <1>4
    <3>2. queue[RadioServerTypeCmd] = << >>
      BY <1>0, <3>1 DEF RadioLeg
    <3>. QED
      BY <1>0, <1>5, <3>1, <3>2 DEF RoundInv
  <2>4. (coordPc = "powerAck" /\ queue[SpectrumServerTypeCmd] # << >> => AtGainOfLastRound)'
    <3>1. SUFFICES ASSUME coordPc = "powerAck", queue'[SpectrumServerTypeCmd] # << >> PROVE AtGainOfLastRound'
      BY <1>1
    <3>2. queue'[SpectrumServerTypeCmd] = queue[SpectrumServerTypeCmd]
      <4>1. CASE ReceiveData(radioQid, RadioServerTypeCmd)
        BY <1>0, <4>1, ReceiveDataEffect
      <4>2. CASE SendData(radioQid, RadioServerTypeAck, Ack)
        BY <1>0, <4>2, SendDataEffect
      <4>3. CASE queue' = queue
        BY <4>3
      <4>. QED
        BY <4>1, <4>2, <4>3 DEF RadioServing, RadioServerStep, LaunchRadioServer, RadioSend,
           RadioRead,
           RadioQuiet, RadioOpensQueue, RadioReceive, RadioAck, OpenQueue, OpenFails, SendDataFails,
           ReceiveDataFails, queueVars
    <3>3. queue[RadioServerTypeCmd] = << >>
      BY <1>0, <3>1 DEF RadioLeg
    <3>. QED
      BY <1>0, <1>5, <3>1, <3>2, <3>3 DEF RoundInv
  <2>. QED
    BY <2>1, <2>2, <2>3, <2>4 DEF RoundInv
<1>7. CaptureInv'
  <2>1. (specPc \in {"capture", "ack"} => coordPc # "off" /\ specQid = coordQid)'
    BY <1>0, <1>1 DEF CaptureInv
  <2>2. (specPc = "capture" => queue[RadioServerTypeCmd] = << >>)'
    BY <1>0, <2>1 DEF RadioLeg, SpectrumLeg, SpectrumBusy, Attached
  <2>3. specPc = "capture" => RadioSettled' /\ radioGain' = radioGain
    BY <1>0, SettledStays DEF CaptureInv, NoRetuneDuringCapture
  <2>. QED
    BY <1>0, <1>1, <2>1, <2>2, <2>3 DEF CaptureInv, NoRetuneDuringCapture
<1>. QED
  BY <1>2, <1>3, <1>6, <1>7 DEF GainInv

-----------------------------------------------------------------------------
(* The spectrum server.                                                     *)

(* The spectrum server preserves the measurement invariant.                 *)
LEMMA MeasurementSpectrumServer ==
  ASSUME ProtocolInv, GainInv, ProtocolInv', SpectrumServing
  PROVE  GainInv'
<1>. USE CommandsAreTyped, DistinctTypes
<1>0. /\ QueueTypeOK /\ RadioLeg /\ SpectrumLeg /\ RadioLeg' /\ SpectrumLeg' /\ tag \in Int
      /\ LinkInv /\ ServedGainInv /\ RoundInv /\ CaptureInv
      /\ coordQid \in 0 .. lastId /\ radioQid \in 0 .. lastId
      /\ samples \subseteq Int /\ results \in Seq(OutputRecord)
  BY DEF GainInv, ProtocolInv, TypeOK, CoordTypeOK, RadioTypeOK, SpectrumTypeOK
<1>1. UNCHANGED <<coordPc, coordQid, announced, tag, toRadio, peerUp, radioGain,
                  radioPc, radioQid, setupStep, radioCommand>>
  BY DEF SpectrumServing, linkVars, diagsVars, radioVars, coordVars
<1>2. UNCHANGED <<RadioSettled, GainApplied, AtGainOfLastRound>>
  BY <1>1 DEF RadioSettled, GainApplied, AtGainOfLastRound
<1>3. (Attached(coordQid)' => Attached(coordQid)) /\ (Attached(radioQid)' => Attached(radioQid))
  BY <1>0, <1>1, DeadStaysDead DEF Attached
<1>4. /\ queue'[RadioServerTypeAck] = queue[RadioServerTypeAck]
      /\ queue'[SpectrumServerTypeCmd] # << >> => queue[SpectrumServerTypeCmd] # << >>
  <2>1. CASE ReceiveData(specQid, SpectrumServerTypeCmd)
    BY <1>0, <2>1, ReceiveDataEffect
  <2>2. CASE SendData(specQid, SpectrumServerTypeAck, Ack)
    BY <1>0, <2>2, SendDataEffect
  <2>3. CASE queue' = queue
    BY <2>3
  <2>. QED
    BY <2>1, <2>2, <2>3 DEF SpectrumServing, SpectrumServerStep, LaunchSpectrumServer,
       SpectrumReceive,
       StreamSamples, Measure, PipelineFails, SpectrumAck, OpenQueue, OpenFails, SendDataFails,
       ReceiveDataFails, queueVars
<1>5. LinkInv' /\ ServedGainInv'
  BY <1>0, <1>1, <1>2, <1>3 DEF LinkInv, ServedGainInv, RadioBusy
<1>6. RoundInv'
  BY <1>0, <1>1, <1>2, <1>3, <1>4 DEF RoundInv, RadioAckWaits
<1>7. CaptureInv'
  <2>1. CASE SpectrumReceive /\ ReceiveData(specQid, SpectrumServerTypeCmd)
    <3>0. UNCHANGED <<specQid, results>>
      BY <2>1 DEF SpectrumReceive
    <3>1. Attached(specQid) /\ queue[SpectrumServerTypeCmd] # << >> /\ ~ReceiveDataFails(specQid)
      BY <2>1 DEF ReceiveData, ReceiveDataFails
    <3>2. Attached(coordQid) /\ specQid = coordQid
      BY <1>0, <3>1 DEF SpectrumLeg, Attached
    <3>3. CASE coordPc = "powerAck"
      <4>1. AtGainOfLastRound
        BY <1>0, <3>1, <3>3 DEF RoundInv
      <4>2. Received(SpectrumServerTypeCmd) = <<2, tag>>
        BY <1>0, <3>1, <3>3 DEF SpectrumLeg, Received, PowerCommand, SpectrumServerCmdComputePower
      <4>3. SpectrumDecode(Received(SpectrumServerTypeCmd)) = "capture"
        <5>1. Received(SpectrumServerTypeCmd)[1] = 2 /\ Len(Received(SpectrumServerTypeCmd)) = 2
          BY <4>2
        <5>. QED
          BY <5>1, DecodeOfPowerCommand DEF SpectrumServerCmdComputePower
      <4>4. specPc' = "capture" /\ spectrumTag' = tag /\ samples' = {}
        BY <2>1, <3>1, <4>2, <4>3 DEF SpectrumReceive
      <4>5. queue'[RadioServerTypeCmd] = << >>
        <5>1. queue'[RadioServerTypeCmd] = queue[RadioServerTypeCmd]
          BY <1>0, <2>1, ReceiveDataEffect
        <5>. QED
          BY <1>0, <3>3, <5>1 DEF RadioLeg
      <4>6. Len(announced) \in 1 .. Len(announced)
        BY <4>1 DEF AtGainOfLastRound, ProtocolInv, TypeOK, CoordTypeOK
      <4>. QED
        BY <1>1, <1>2, <3>0, <3>2, <3>3, <4>1, <4>4, <4>5, <4>6
           DEF CaptureInv, NoRetuneDuringCapture, AtGainOfLastRound
    <3>4. CASE coordPc # "powerAck"
      <4>1. Received(SpectrumServerTypeCmd) = <<0>>
        BY <1>0, <3>1, <3>4 DEF SpectrumLeg, Received, TerminateCommand, CmdTerminate
      <4>2. SpectrumDecode(Received(SpectrumServerTypeCmd)) = "exited"
        BY <4>1 DEF SpectrumDecode, CmdTerminate, SpectrumServerCmdComputePower
      <4>3. specPc' = "exited"
        BY <2>1, <3>1, <4>2 DEF SpectrumReceive
      <4>. QED
        BY <1>0, <1>1, <3>0, <4>3 DEF CaptureInv, NoRetuneDuringCapture
    <3>. QED
      BY <3>3, <3>4
  <2>2. CASE StreamSamples
    <3>1. UNCHANGED <<specPc, specQid, spectrumTag, results, queue>>
      BY <2>2 DEF StreamSamples, queueVars
    <3>2. samples' = samples \cup {radioGain}
      BY <2>2 DEF StreamSamples
    <3>. QED
      BY <1>0, <1>1, <1>2, <3>1, <3>2 DEF CaptureInv, NoRetuneDuringCapture
  <2>3. CASE Measure
    BY <1>0, <1>1, <2>3 DEF Measure, CaptureInv, NoRetuneDuringCapture
  <2>4. CASE specPc' \notin {"capture", "ack"}
    BY <1>0, <1>1, <2>4 DEF CaptureInv, NoRetuneDuringCapture
  <2>5. CASE PipelineFails
    <3>1. specPc = "capture" /\ specPc' = "ack" /\ UNCHANGED <<specQid, results>>
      BY <2>5 DEF PipelineFails
    <3>. QED
      BY <1>0, <1>1, <3>1 DEF CaptureInv, NoRetuneDuringCapture
  <2>. QED
    BY <2>1, <2>2, <2>3, <2>4, <2>5 DEF SpectrumServing, SpectrumServerStep, LaunchSpectrumServer,
       SpectrumReceive, SpectrumAck
<1>. QED
  BY <1>5, <1>6, <1>7 DEF GainInv

-----------------------------------------------------------------------------
(* Radio diags, and the queue that vanishes.                                *)

(* Radio diags, answering or closing, preserves the measurement invariant.  *)
LEMMA MeasurementDiags ==
  ASSUME ProtocolInv, GainInv, DiagsServing \/ LinkBreaks
  PROVE  GainInv'
<1>0. /\ LinkInv /\ ServedGainInv /\ RoundInv /\ CaptureInv
      /\ RadioLeg /\ SpectrumLeg
      /\ toRadio \in Seq(RadioCommands) /\ radioCommand \in RadioCommands
  BY DEF GainInv, ProtocolInv, TypeOK, LinkTypeOK, RadioTypeOK
<1>1. UNCHANGED <<queue, qid, coordPc, coordQid, announced, tag, radioPc, radioQid, setupStep,
                  radioCommand, specPc, specQid, spectrumTag, samples, results>>
  BY DEF DiagsServing, LinkBreaks, queueVars, radioVars, spectrumVars, coordVars
<1>2. RadioBusy' = RadioBusy /\ Attached(coordQid)' = Attached(coordQid) /\ RadioAckWaits' = RadioAckWaits
  BY <1>1 DEF RadioBusy, Attached, RadioAckWaits
<1>3. CASE DiagsExecute
  <2>1. ~RadioSettled /\ UNCHANGED peerUp
    BY <1>3 DEF DiagsExecute, RadioSettled
  <2>2. \/ radioPc = "receive" /\ toRadio = <<radioCommand>> /\ toRadio' = << >>
        \/ radioPc = "killed"
    BY <1>0, <1>3, TailOfOne DEF DiagsExecute, LinkInv
  <2>3. radioPc = "receive" /\ radioCommand.verb = "rxifgain" => radioGain' = radioCommand.value
    BY <1>3, <2>2 DEF DiagsExecute
  <2>4. LinkInv'
    BY <1>1, <2>2 DEF LinkInv
  <2>5. ServedGainInv'
    BY <1>0, <1>1, <1>2, <2>1, <2>2, <2>3 DEF ServedGainInv, GainApplied
  <2>6. RoundInv'
    BY <1>0, <1>1, <1>2, <2>1 DEF RoundInv, AtGainOfLastRound
  <2>7. CaptureInv'
    BY <1>0, <1>1, <2>1 DEF CaptureInv, NoRetuneDuringCapture
  <2>. QED
    BY <2>4, <2>5, <2>6, <2>7 DEF GainInv
<1>4. CASE DiagsCloses
  <2>1. toRadio' = << >> /\ ~peerUp' /\ UNCHANGED radioGain
    BY <1>4 DEF DiagsCloses, diagsVars
  <2>2. RadioSettled => RadioSettled'
    BY <1>1, <2>1 DEF RadioSettled
  <2>3. LinkInv'
    BY <2>1 DEF LinkInv
  <2>4. ServedGainInv'
    BY <1>0, <1>1, <1>2, <2>1 DEF ServedGainInv, GainApplied
  <2>5. RoundInv'
    BY <1>0, <1>1, <1>2, <2>1, <2>2 DEF RoundInv, AtGainOfLastRound
  <2>6. CaptureInv'
    BY <1>0, <1>1, <2>1, <2>2 DEF CaptureInv, NoRetuneDuringCapture
  <2>. QED
    BY <2>3, <2>4, <2>5, <2>6 DEF GainInv
<1>. QED
  BY <1>3, <1>4 DEF DiagsServing, LinkBreaks

(* So does the removal of the queue by another program.                     *)
LEMMA MeasurementQueueVanishes ==
  ASSUME ProtocolInv, GainInv, QueueVanishes
  PROVE  GainInv'
<1>0. LinkInv /\ ServedGainInv /\ RoundInv /\ CaptureInv /\ QueueTypeOK
  BY DEF GainInv, ProtocolInv, TypeOK
<1>1. UNCHANGED <<toRadio, peerUp, radioGain, coordPc, coordQid, announced, tag, radioPc, radioQid, setupStep,
                  radioCommand, specPc, specQid, spectrumTag, samples, results>>
  BY DEF QueueVanishes, linkVars, diagsVars, radioVars, spectrumVars, coordVars
<1>2. qid' = NoQueue /\ \A type \in MessageType : queue'[type] = << >>
  BY <1>0, RemoveQueueEffect DEF QueueVanishes, QueueRemovedByOther
<1>3. ~RadioBusy' /\ ~Attached(coordQid)' /\ ~RadioAckWaits' /\ queue'[SpectrumServerTypeCmd] = << >>
      /\ queue'[RadioServerTypeCmd] = << >>
  BY <1>2, CommandsAreTyped DEF RadioBusy, Attached, RadioAckWaits
<1>4. UNCHANGED <<RadioSettled, GainApplied>>
  BY <1>1 DEF RadioSettled, GainApplied
<1>5. LinkInv' /\ ServedGainInv'
  BY <1>0, <1>1, <1>3, <1>4 DEF LinkInv, ServedGainInv
<1>6. RoundInv'
  BY <1>0, <1>1, <1>3 DEF RoundInv
<1>7. CaptureInv'
  BY <1>0, <1>1, <1>3, <1>4 DEF CaptureInv, NoRetuneDuringCapture
<1>. QED
  BY <1>5, <1>6, <1>7 DEF GainInv

-----------------------------------------------------------------------------

(* No step of any process moves the radio from where the round put it.      *)
LEMMA GainStep ==
  ASSUME NoLostSendNoLateReply, ProtocolInv, GainInv, [Next]_vars
  PROVE  ProtocolInv' /\ GainInv'
<1>0. ProtocolInv'
  BY ProtocolStep
<1>1. CASE Coordinating \/ UserActs
  BY <1>0, <1>1, MeasurementCoordinator
<1>2. CASE RadioServing
  BY <1>0, <1>2, MeasurementRadioServer
<1>3. CASE SpectrumServing
  BY <1>0, <1>3, MeasurementSpectrumServer
<1>4. CASE DiagsServing \/ LinkBreaks
  BY <1>0, <1>4, MeasurementDiags
<1>5. CASE QueueVanishes
  BY <1>0, <1>5, MeasurementQueueVanishes
<1>6. CASE UNCHANGED vars
  BY <1>0, <1>6 DEF vars, queueVars, linkVars, diagsVars, radioVars, spectrumVars, coordVars,
     GainInv, LinkInv, ServedGainInv, GainApplied, RadioBusy, Attached, RoundInv, RadioAckWaits,
     AtGainOfLastRound, RadioSettled, CaptureInv, NoRetuneDuringCapture
<1>. QED
  BY <1>1, <1>2, <1>3, <1>4, <1>5, <1>6 DEF Next, AllExited

(* A record is written by Measure only.                                     *)
LEMMA OnlyMeasureWrites ==
  ASSUME [Next]_vars
  PROVE  \/ results' = results
         \/ Measure /\ UNCHANGED announced
BY DEF Next, vars, AllExited, Coordinating, UserActs, RadioServing, SpectrumServing, DiagsServing,
   LinkBreaks, QueueVanishes, spectrumVars, coordVars, SpectrumServerStep, LaunchSpectrumServer,
   SpectrumReceive, StreamSamples, PipelineFails, SpectrumAck

(* No step writes a record that is not genuine, nor takes from the console. *)
LEMMA RecordsGenuineStep ==
  ASSUME ProtocolInv, GainInv, RecordsGenuine, [Next]_vars
  PROVE  RecordsGenuine'
<1>0. CoordTypeOK /\ samples \subseteq Int /\ results \in Seq(OutputRecord) /\ CaptureInv
  BY DEF ProtocolInv, GainInv, TypeOK, SpectrumTypeOK
<1>1. \A j \in 1 .. Len(announced) :
        j \in 1 .. Len(announced') /\ announced'[j] = announced[j]
  <2>1. CASE Coordinating \/ UserActs
    BY <1>0, <2>1, ConsoleGrows
  <2>2. CASE announced' = announced
    BY <2>2
  <2>. QED
    BY <2>1, <2>2 DEF Next, vars, AllExited, RadioServing, SpectrumServing, DiagsServing,
       LinkBreaks, QueueVanishes, coordVars
<1>2. CASE results' = results
  <2>1. SUFFICES ASSUME NEW i \in 1 .. Len(results)
                 PROVE  \E j \in 1 .. Len(announced') :
                          /\ results[i].tag = announced'[j].tag
                          /\ results[i].gains = {announced'[j].gain}
    BY <1>2 DEF RecordsGenuine
  <2>2. PICK j \in 1 .. Len(announced) :
          results[i].tag = announced[j].tag /\ results[i].gains = {announced[j].gain}
    BY DEF RecordsGenuine
  <2>. QED
    BY <1>1, <2>2
<1>3. CASE Measure /\ UNCHANGED announced
  <2>1. /\ specPc = "capture" /\ samples # {}
        /\ results' = Append(results, [tag |-> spectrumTag, gains |-> samples])
    BY <1>3 DEF Measure
  <2>2. samples = {radioGain}
    BY <1>0, <2>1 DEF CaptureInv
  <2>3. PICK j \in 1 .. Len(announced) : announced[j] = [tag |-> spectrumTag, gain |-> radioGain]
    BY <1>0, <2>1 DEF CaptureInv, NoRetuneDuringCapture
  <2>4. ASSUME NEW i \in 1 .. Len(results')
        PROVE  \E k \in 1 .. Len(announced) :
                 results'[i].tag = announced[k].tag /\ results'[i].gains = {announced[k].gain}
    <3>1. CASE i = Len(results) + 1
      <4>1. results'[i] = [tag |-> spectrumTag, gains |-> samples]
        BY <1>0, <2>1, <3>1
      <4>. QED
        BY <2>2, <2>3, <4>1
    <3>2. CASE i # Len(results) + 1
      <4>1. i \in 1 .. Len(results) /\ results'[i] = results[i]
        BY <1>0, <2>1, <3>2
      <4>. QED
        BY <4>1 DEF RecordsGenuine
    <3>. QED
      BY <3>1, <3>2
  <2>. QED
    BY <1>3, <2>4 DEF RecordsGenuine
<1>. QED
  BY <1>2, <1>3, OnlyMeasureWrites

(* No step of any process disturbs the measurement invariant.               *)
LEMMA MeasurementStep ==
  ASSUME NoLostSendNoLateReply
  PROVE  MeasurementInv /\ [Next]_vars => MeasurementInv'
BY GainStep, RecordsGenuineStep DEF MeasurementInv

(* The radio stays at the gain of the round that is measured for as long as *)
(* the pipeline captures, in every interleaving and with the queue, the     *)
(* connection, the constructors and the pipeline failing at any time.       *)
THEOREM NoRetuneDuringCaptureHolds ==
  ASSUME NoLostSendNoLateReply PROVE Spec => []NoRetuneDuringCapture
<1>1. MeasurementInv => NoRetuneDuringCapture
  BY DEF MeasurementInv, GainInv, CaptureInv
<1>2. MeasurementInv /\ [Next]_vars => MeasurementInv'
  BY MeasurementStep
<1>. QED
  BY <1>1, <1>2, MeasurementInit, PTL DEF Spec

(* Under the same conditions every record of the output file was measured   *)
(* at the gain that the coordinator announced with the record's tag.        *)
THEOREM RecordsGenuineHolds ==
  ASSUME NoLostSendNoLateReply PROVE Spec => []RecordsGenuine
<1>1. MeasurementInv => RecordsGenuine
  BY DEF MeasurementInv
<1>2. MeasurementInv /\ [Next]_vars => MeasurementInv'
  BY MeasurementStep
<1>. QED
  BY <1>1, <1>2, MeasurementInit, PTL DEF Spec

-----------------------------------------------------------------------------
(***************************************************************************)
(* Theorems about the order of the output file and the length of the       *)
(* console, for every choice of faults.                                    *)
(*                                                                         *)
(* They hold while no tag reaches INT_MAX: the tag that follows it would   *)
(* be the least one, and the automatic loop would go round again.          *)
(***************************************************************************)

(* Nothing is announced or measured before the programs are launched.       *)
LEMMA FileInit == Init => FileInv
<1>. SUFFICES ASSUME Init PROVE FileInv
  OBVIOUS
<1>1. ProtocolInv
  BY ProtocolInit
<1>2. /\ specPc = "off" /\ coordPc = "off" /\ results = << >> /\ announced = << >>
      /\ tag = args.startTag /\ tag \in Int
  BY <1>1 DEF Init, SpectrumInit, CoordInit, ProtocolInv, TypeOK, CoordTypeOK
<1>3. CaptureIsOurs /\ CountInv /\ LoopInv /\ OrderInv
  BY <1>2 DEF CaptureIsOurs, CountInv, LoopInv, OrderInv, One, Commanded, Announcing,
     InRound, MeasuredUpTo
<1>. QED
  BY <1>1, <1>3 DEF FileInv

-----------------------------------------------------------------------------
(* What the steps of the tester mean for the file.                          *)

(* The spectrum server reads the command of this round.                     *)
PowerCommandRead ==
  /\ specPc = "wait" /\ specPc' = "capture" /\ spectrumTag' = tag /\ samples' = {}
  /\ specQid' = specQid /\ specQid = coordQid /\ Attached(specQid)
  /\ coordPc = "powerAck" /\ Commanded /\ ~Commanded'
  /\ UNCHANGED <<results, coordVars>>

(* The pipeline writes its record.                                          *)
RecordWritten ==
  /\ specPc = "capture" /\ specPc' = "ack" /\ samples # {}
  /\ results' = Append(results, [tag |-> spectrumTag, gains |-> samples])
  /\ specQid' = specQid
  /\ Commanded' = Commanded
  /\ UNCHANGED coordVars

(* Nothing happens to the file, and a capture or command can only go.       *)
FileQuiet ==
  /\ UNCHANGED <<results, coordVars>>
  /\ specPc' \in {"capture", "ack"} => specPc \in {"capture", "ack"} /\ specQid' = specQid
  /\ specPc' = "capture" => specPc = "capture" /\ spectrumTag' = spectrumTag
  /\ Commanded' => Commanded
  /\ Faults = {} => /\ specPc = "capture" => specPc' = "capture"
                    /\ Commanded => Commanded'

(* A message of the spectrum server's type is a power command of the round  *)
(* or the final terminate command.                                          *)
LEMMA SpectrumServerReads ==
  ASSUME ProtocolInv, SpectrumServing, SpectrumReceive, ReceiveData(specQid, SpectrumServerTypeCmd)
  PROVE  PowerCommandRead \/ FileQuiet
<1>. USE CommandsAreTyped, DistinctTypes
<1>0. QueueTypeOK /\ SpectrumLeg /\ specPc = "wait" /\ tag \in Int
  BY DEF ProtocolInv, TypeOK, CoordTypeOK, SpectrumReceive
<1>1. UNCHANGED <<specQid, results, coordVars>> /\ UNCHANGED <<coordPc, tag>>
  BY DEF SpectrumServing, SpectrumReceive, coordVars
<1>2. Attached(specQid) /\ queue[SpectrumServerTypeCmd] # << >> /\ ~ReceiveDataFails(specQid)
  BY DEF ReceiveData, ReceiveDataFails
<1>3. Attached(coordQid) /\ specQid = coordQid
  BY <1>0, <1>2 DEF SpectrumLeg, Attached
<1>4. queue'[SpectrumServerTypeCmd] = Tail(queue[SpectrumServerTypeCmd])
  BY <1>0, ReceiveDataEffect
<1>5. CASE coordPc = "powerAck"
  <2>1. queue[SpectrumServerTypeCmd] = <<PowerCommand(tag)>>
    BY <1>0, <1>2, <1>5 DEF SpectrumLeg
  <2>2. Received(SpectrumServerTypeCmd) = <<2, tag>>
    BY <2>1 DEF Received, PowerCommand, SpectrumServerCmdComputePower
  <2>3. SpectrumDecode(Received(SpectrumServerTypeCmd)) = "capture"
    BY <2>2 DEF SpectrumDecode, SpectrumServerCmdComputePower, CmdTerminate
  <2>4. specPc' = "capture" /\ spectrumTag' = tag /\ samples' = {}
    BY <1>2, <2>2, <2>3 DEF SpectrumReceive
  <2>5. queue'[SpectrumServerTypeCmd] = << >>
    BY <1>4, <2>1, TailOfOne
  <2>6. Commanded /\ ~Commanded'
    BY <1>1, <1>2, <1>5, <2>5 DEF Commanded
  <2>. QED
    BY <1>0, <1>1, <1>2, <1>3, <1>5, <2>4, <2>6 DEF PowerCommandRead
<1>6. CASE coordPc # "powerAck"
  <2>1. queue[SpectrumServerTypeCmd] = <<TerminateCommand>> /\ coordPc = "destroy"
    BY <1>0, <1>2, <1>6 DEF SpectrumLeg
  <2>2. Received(SpectrumServerTypeCmd) = <<0>>
    BY <2>1 DEF Received, TerminateCommand, CmdTerminate
  <2>3. SpectrumDecode(Received(SpectrumServerTypeCmd)) = "exited"
    BY <2>2 DEF SpectrumDecode, SpectrumServerCmdComputePower, CmdTerminate
  <2>4. specPc' = "exited"
    BY <1>2, <2>2, <2>3 DEF SpectrumReceive
  <2>5. ~Commanded /\ ~Commanded'
    BY <1>1, <2>1 DEF Commanded
  <2>. QED
    BY <1>0, <1>1, <2>4, <2>5 DEF FileQuiet
<1>. QED
  BY <1>5, <1>6

(* A step of the spectrum server.                                           *)
LEMMA SpectrumServerSteps ==
  ASSUME ProtocolInv, SpectrumServing
  PROVE  PowerCommandRead \/ RecordWritten \/ FileQuiet
<1>. USE CommandsAreTyped, DistinctTypes
<1>0. QueueTypeOK /\ UNCHANGED coordVars /\ UNCHANGED coordPc
  BY DEF ProtocolInv, TypeOK, SpectrumServing, coordVars
<1>1. CASE SpectrumReceive /\ ReceiveData(specQid, SpectrumServerTypeCmd)
  BY <1>1, SpectrumServerReads
<1>2. CASE Measure
  BY <1>0, <1>2 DEF Measure, RecordWritten, Commanded, queueVars
<1>3. CASE SpectrumAck
  <2>1. queue'[SpectrumServerTypeCmd] = queue[SpectrumServerTypeCmd]
    <3>1. CASE SendData(specQid, SpectrumServerTypeAck, Ack)
      BY <1>0, <3>1, SendDataEffect
    <3>. QED
      BY <1>3, <3>1 DEF SpectrumAck, SendDataFails, queueVars
  <2>2. specPc = "ack" /\ specPc' \in {"wait", "exited"} /\ UNCHANGED results
    BY <1>3 DEF SpectrumAck
  <2>. QED
    BY <1>0, <2>1, <2>2 DEF FileQuiet, Commanded
<1>4. CASE LaunchSpectrumServer
  <2>1. queue' = queue /\ specPc = "off" /\ specPc' \in {"wait", "exited"} /\ UNCHANGED results
    BY <1>4 DEF LaunchSpectrumServer, OpenQueue, OpenFails, queueVars
  <2>. QED
    BY <1>0, <2>1 DEF FileQuiet, Commanded
<1>5. CASE SpectrumReceive /\ ReceiveDataFails(specQid)
  <2>1. queue' = queue /\ specPc = "wait" /\ specPc' = "exited" /\ UNCHANGED results
    BY <1>5 DEF SpectrumReceive, ReceiveDataFails, ReceiveData, queueVars
  <2>. QED
    BY <1>0, <2>1 DEF FileQuiet, Commanded
<1>6. CASE StreamSamples
  BY <1>0, <1>6 DEF StreamSamples, FileQuiet, Commanded, queueVars
<1>7. CASE PipelineFails
  <2>1. /\ queue' = queue /\ specPc = "capture" /\ specPc' = "ack" /\ UNCHANGED <<specQid, results>>
        /\ Faults # {}
    BY <1>7 DEF PipelineFails, queueVars
  <2>. QED
    BY <1>0, <2>1 DEF FileQuiet, Commanded
<1>. QED
  BY <1>1, <1>2, <1>3, <1>4, <1>5, <1>6, <1>7 DEF SpectrumServing, SpectrumServerStep,
     SpectrumReceive

(* A step of any program.                                                   *)
LEMMA FileSteps ==
  ASSUME ProtocolInv, [Next]_vars
  PROVE  \/ (Coordinating \/ UserActs) /\ UNCHANGED spectrumVars
         \/ PowerCommandRead
         \/ RecordWritten
         \/ FileQuiet
<1>. USE CommandsAreTyped, DistinctTypes
<1>0. QueueTypeOK
  BY DEF ProtocolInv, TypeOK
<1>1. CASE Coordinating \/ UserActs
  BY <1>1 DEF Coordinating, UserActs
<1>2. CASE SpectrumServing
  BY <1>2, SpectrumServerSteps
<1>3. CASE RadioServing
  <2>1. queue'[SpectrumServerTypeCmd] = queue[SpectrumServerTypeCmd]
    <3>1. CASE ReceiveData(radioQid, RadioServerTypeCmd)
      BY <1>0, <3>1, ReceiveDataEffect
    <3>2. CASE SendData(radioQid, RadioServerTypeAck, Ack)
      BY <1>0, <3>2, SendDataEffect
    <3>3. CASE queue' = queue
      BY <3>3
    <3>. QED
      BY <1>3, <3>1, <3>2, <3>3 DEF RadioServing, RadioServerStep, LaunchRadioServer,
         RadioSend, RadioRead,
         RadioQuiet, RadioOpensQueue, RadioReceive, RadioAck, OpenQueue, OpenFails, SendDataFails,
         ReceiveDataFails, queueVars
  <2>2. UNCHANGED <<coordVars, spectrumVars>>
    BY <1>3 DEF RadioServing
  <2>. QED
    BY <2>1, <2>2 DEF FileQuiet, Commanded, coordVars, spectrumVars
<1>4. CASE DiagsServing \/ LinkBreaks \/ UNCHANGED vars
  <2>1. UNCHANGED <<queueVars, coordVars, spectrumVars>>
    BY <1>4 DEF DiagsServing, LinkBreaks, vars
  <2>. QED
    BY <2>1 DEF FileQuiet, Commanded, queueVars, coordVars, spectrumVars
<1>5. CASE QueueVanishes
  <2>1. UNCHANGED <<coordVars, spectrumVars>> /\ queue'[SpectrumServerTypeCmd] = << >> /\ Faults # {}
    BY <1>0, <1>5, RemoveQueueEffect DEF QueueVanishes, QueueRemovedByOther
  <2>. QED
    BY <2>1 DEF FileQuiet, Commanded, coordVars, spectrumVars
<1>. QED
  BY <1>1, <1>2, <1>3, <1>4, <1>5 DEF Next, AllExited

-----------------------------------------------------------------------------
(* What the steps of the coordinator and its user mean for the file.        *)

(* A round is announced (coordinator.cc:575).                               *)
RoundAnnounced ==
  /\ coordPc = "sendGain" /\ coordPc' \in {"gainAck", "sendPower"}
  /\ announced' = Append(announced, [tag |-> tag, gain |-> ifGain])
  /\ tag' = tag

(* A round goes on.                                                         *)
RoundGoesOn ==
  /\ coordPc \in {"gainAck", "sendPower"} /\ coordPc' \in {"sendPower", "powerAck"}
  /\ UNCHANGED <<announced, tag>>

(* A round is over; in automatic mode the next one is begun, or the loop    *)
(* ends.                                                                    *)
RoundOver ==
  /\ coordPc \in {"sendPower", "powerAck"}
  /\ UNCHANGED announced
  /\ \E next \in Incremented(tag) :
        IF args.automatic THEN tag' = next /\ coordPc' = LoopEntry(next)
                          ELSE tag' = WrapTag(next) /\ coordPc' \in {"prompt", "destroy"}

(* The coordinator is outside of a round.                                   *)
OutsideRounds ==
  /\ coordPc \notin {"sendGain", "gainAck", "sendPower", "powerAck"}
  /\ UNCHANGED <<announced, tag>>
  /\ coordPc = "off" => coordPc' \in {IF args.automatic THEN LoopEntry(tag) ELSE "prompt", "exited"}
  /\ coordPc = "prompt" => coordPc' \in {"sendGain", "sendTermRadio", "destroy"}
  /\ coordPc \notin {"off", "prompt"} => coordPc' \in {"sendTermSpec", "destroy", "exited"}

(* A step of the coordinator or of its user is one of these.                *)
LEMMA CoordinatorMoves ==
  ASSUME Coordinating \/ UserActs
  PROVE  /\ RoundAnnounced \/ RoundGoesOn \/ RoundOver \/ OutsideRounds
         /\ UNCHANGED <<args, spectrumVars>>
         /\ coordPc # "off" => UNCHANGED coordQid
<1>0. UNCHANGED spectrumVars
  BY DEF Coordinating, UserActs
<1>1. CASE LaunchCoordinator
  BY <1>0, <1>1 DEF LaunchCoordinator, OutsideRounds
<1>2. CASE UserStep
  BY <1>0, <1>2 DEF UserStep, UserMeasure, UserExit, UserEndOfInput, OutsideRounds
<1>3. CASE SendIfGain
  BY <1>0, <1>3 DEF SendIfGain, GainLegDone, RoundAnnounced
<1>4. CASE RadioAckArrives
  BY <1>0, <1>4 DEF RadioAckArrives, GainLegDone, RoundGoesOn
<1>5. CASE SendPower
  <2>1. CASE \E ok \in BOOLEAN : PowerLegDone(ok)
    BY <1>0, <1>5, <2>1 DEF SendPower, PowerLegDone, RoundOver
  <2>2. CASE coordPc' = "powerAck" /\ UNCHANGED <<coordQid, args, ifGain, tag, announced>>
    BY <1>0, <1>5, <2>2 DEF SendPower, RoundGoesOn
  <2>. QED
    BY <1>5, <2>1, <2>2 DEF SendPower
<1>6. CASE SpectrumAckArrives
  BY <1>0, <1>6 DEF SpectrumAckArrives, PowerLegDone, RoundOver
<1>7. CASE TerminateRadioServer \/ TerminateSpectrumServer \/ DestroyQueue
  BY <1>0, <1>7 DEF TerminateRadioServer, TerminateSpectrumServer, DestroyQueue, OutsideRounds
<1>. QED
  BY <1>1, <1>2, <1>3, <1>4, <1>5, <1>6, <1>7 DEF Coordinating, UserActs, CoordinatorStep

-----------------------------------------------------------------------------
(* The file invariant is kept.                                              *)

(* The variables of the file and of the counters have their types.          *)
LEMMA FileTypes ==
  ASSUME ProtocolInv
  PROVE  /\ tag \in Int /\ spectrumTag \in Int
         /\ results \in Seq(OutputRecord)
         /\ \A i \in 1 .. Len(results) : results[i].tag \in Int
         /\ announced \in Seq([tag : Int, gain : Int])
         /\ args.startTag \in Int /\ args.endTag \in Int /\ args.automatic \in BOOLEAN
         /\ Len(announced) \in Nat /\ Len(results) \in Nat
<1>1. CoordTypeOK /\ SpectrumTypeOK
  BY DEF ProtocolInv, TypeOK
<1>2. results \in Seq(OutputRecord) /\ spectrumTag \in Int
  BY <1>1 DEF SpectrumTypeOK
<1>3. \A i \in 1 .. Len(results) : results[i].tag \in Int
  <2>1. TAKE i \in 1 .. Len(results)
  <2>2. results[i] \in OutputRecord
    BY <1>2
  <2>. QED
    BY <2>2 DEF OutputRecord
<1>4. tag \in Int /\ announced \in Seq([tag : Int, gain : Int])
  BY <1>1 DEF CoordTypeOK
<1>. QED
  BY <1>1, <1>2, <1>3, <1>4, ArgumentsAreTyped

(* In an automatic campaign the tag has one successor.                      *)
LEMMA NextTagInRound ==
  ASSUME FileInv, NoTagOverflow, InRound, args.automatic
  PROVE  Incremented(tag) = {tag + 1} /\ tag <= args.endTag
<1>1. tag <= args.endTag
  BY DEF FileInv, LoopInv
<1>2. args \in ArgSet
  BY DEF FileInv, ProtocolInv, TypeOK, CoordTypeOK
<1>3. args.endTag < IntMax
  BY <1>2 DEF NoTagOverflow
<1>4. tag < IntMax
  BY <1>1, <1>3, FileTypes, IntMaxAssumption DEF FileInv
<1>. QED
  BY <1>1, <1>4 DEF Incremented

(* A pipeline runs for its coordinator only.                                *)
LEMMA CaptureIsOursStep ==
  ASSUME FileInv, [Next]_vars
  PROVE  CaptureIsOurs'
<1>1. ProtocolInv /\ CaptureIsOurs
  BY DEF FileInv
<1>2. CASE (Coordinating \/ UserActs) /\ UNCHANGED spectrumVars
  <2>1. /\ RoundAnnounced \/ RoundGoesOn \/ RoundOver \/ OutsideRounds
        /\ UNCHANGED <<args, specPc, specQid, results>>
        /\ coordPc # "off" => UNCHANGED coordQid
    BY <1>2, CoordinatorMoves DEF spectrumVars
  <2>2. coordPc' # "off"
    BY <2>1 DEF RoundAnnounced, RoundGoesOn, RoundOver, OutsideRounds, LoopEntry
  <2>. QED
    BY <1>1, <2>1, <2>2 DEF CaptureIsOurs
<1>3. CASE PowerCommandRead
  BY <1>1, <1>3 DEF PowerCommandRead, CaptureIsOurs, coordVars
<1>4. CASE RecordWritten
  BY <1>1, <1>4 DEF RecordWritten, CaptureIsOurs, coordVars
<1>5. CASE FileQuiet
  BY <1>1, <1>5 DEF FileQuiet, CaptureIsOurs, coordVars
<1>. QED
  BY <1>1, <1>2, <1>3, <1>4, <1>5, FileSteps

(* An announcement is used up by one command, the command by one capture,   *)
(* the capture by one record.                                               *)
LEMMA CountStep ==
  ASSUME FileInv, [Next]_vars
  PROVE  CountInv'
<1>1. ProtocolInv /\ CountInv
  BY DEF FileInv
<1>2. results \in Seq(OutputRecord) /\ announced \in Seq([tag : Int, gain : Int])
  BY <1>1, FileTypes
<1>3. CASE (Coordinating \/ UserActs) /\ UNCHANGED spectrumVars
  <2>1. /\ RoundAnnounced \/ RoundGoesOn \/ RoundOver \/ OutsideRounds
        /\ UNCHANGED <<specPc, results>>
    BY <1>3, CoordinatorMoves DEF spectrumVars
  <2>2. CASE RoundAnnounced
    <3>1. Len(announced') = Len(announced) + 1
      BY <1>2, <2>2 DEF RoundAnnounced
    <3>2. One(Commanded) = 0
      BY <2>2 DEF RoundAnnounced, Commanded, One
    <3>3. One(Commanded)' \in 0 .. 1 /\ One(specPc = "capture") \in 0 .. 1
      BY DEF One
    <3>. QED
      BY <1>1, <1>2, <2>1, <3>1, <3>2, <3>3 DEF CountInv
  <2>3. CASE ~RoundAnnounced
    <3>1. UNCHANGED announced
      BY <2>1, <2>3 DEF RoundGoesOn, RoundOver, OutsideRounds
    <3>2. Commanded' => Commanded
      BY <2>1, <2>3 DEF RoundGoesOn, RoundOver, OutsideRounds, LoopEntry, Commanded
    <3>3. One(Commanded)' <= One(Commanded) /\ One(Commanded)' \in 0 .. 1
      BY <3>2 DEF One
    <3>4. One(Commanded) \in 0 .. 1 /\ One(specPc = "capture") \in 0 .. 1
      BY DEF One
    <3>. QED
      BY <1>1, <1>2, <2>1, <3>1, <3>3, <3>4 DEF CountInv
  <2>. QED
    BY <2>2, <2>3
<1>4. CASE PowerCommandRead
  BY <1>1, <1>2, <1>4 DEF PowerCommandRead, CountInv, One, coordVars
<1>5. CASE RecordWritten
  <2>1. Len(results') = Len(results) + 1
    BY <1>2, <1>5 DEF RecordWritten
  <2>. QED
    BY <1>1, <1>2, <1>5, <2>1 DEF RecordWritten, CountInv, One, coordVars
<1>6. CASE FileQuiet
  <2>1. UNCHANGED <<results, announced>>
    BY <1>6 DEF FileQuiet, coordVars
  <2>2. One(specPc = "capture")' <= One(specPc = "capture") /\ One(Commanded)' <= One(Commanded)
    BY <1>6 DEF FileQuiet, One
  <2>3. /\ One(specPc = "capture")' \in 0 .. 1 /\ One(Commanded)' \in 0 .. 1
        /\ One(specPc = "capture") \in 0 .. 1 /\ One(Commanded) \in 0 .. 1
    BY DEF One
  <2>. QED
    BY <1>1, <1>2, <2>1, <2>2, <2>3 DEF CountInv
<1>. QED
  BY <1>1, <1>3, <1>4, <1>5, <1>6, FileSteps

(* The automatic loop announces one tag after the other.                    *)
LEMMA LoopStep ==
  ASSUME FileInv, NoTagOverflow, [Next]_vars
  PROVE  LoopInv'
<1>1. ProtocolInv /\ LoopInv /\ CaptureIsOurs
  BY DEF FileInv
<1>2. /\ announced \in Seq([tag : Int, gain : Int]) /\ Len(announced) \in Nat
      /\ tag \in Int /\ args.startTag \in Int /\ args.endTag \in Int
  BY <1>1, FileTypes
<1>3. CASE (Coordinating \/ UserActs) /\ UNCHANGED spectrumVars
  <2>. SUFFICES ASSUME args.automatic PROVE LoopInv'
    BY <1>3, CoordinatorMoves DEF LoopInv
  <2>1. RoundAnnounced \/ RoundGoesOn \/ RoundOver \/ OutsideRounds
    BY <1>3, CoordinatorMoves
  <2>2. UNCHANGED args
    BY <1>3, CoordinatorMoves
  <2>3. CASE RoundAnnounced
    <3>1. Len(announced') = Len(announced) + 1
      BY <1>2, <2>3 DEF RoundAnnounced
    <3>. QED
      BY <1>1, <1>2, <2>2, <2>3, <3>1 DEF RoundAnnounced, LoopInv, One, InRound, Announcing
  <2>4. CASE RoundGoesOn
    BY <1>1, <1>2, <2>2, <2>4 DEF RoundGoesOn, LoopInv, One, InRound, Announcing
  <2>5. CASE RoundOver
    <3>1. Incremented(tag) = {tag + 1} /\ tag <= args.endTag
      BY <2>5, NextTagInRound DEF RoundOver, InRound
    <3>2. tag' = tag + 1 /\ coordPc' = LoopEntry(tag + 1)
      BY <2>5, <3>1 DEF RoundOver
    <3>3. args.startTag <= tag
      BY <1>1, <1>2, <3>1 DEF LoopInv
    <3>. QED
      BY <1>1, <1>2, <2>2, <2>5, <3>1, <3>2, <3>3
      DEF RoundOver, LoopInv, LoopEntry, One, InRound, Announcing
  <2>6. CASE OutsideRounds
    BY <1>1, <1>2, <2>2, <2>6
    DEF OutsideRounds, LoopInv, LoopEntry, One, InRound, Announcing
  <2>. QED
    BY <2>1, <2>3, <2>4, <2>5, <2>6
<1>4. CASE UNCHANGED coordVars
  BY <1>1, <1>4 DEF LoopInv, One, InRound, Announcing, coordVars
<1>. QED
  BY <1>1, <1>3, <1>4, FileSteps DEF PowerCommandRead, RecordWritten, FileQuiet

(* A coordinator step leaves the records in order: the tag only grows, and  *)
(* it grows when nobody is to measure at it any more.                       *)
LEMMA OrderStepCoordinator ==
  ASSUME FileInv, NoTagOverflow, args.automatic,
         (Coordinating \/ UserActs) /\ UNCHANGED spectrumVars
  PROVE  OrderInv'
<1>0. /\ RoundAnnounced \/ RoundGoesOn \/ RoundOver \/ OutsideRounds
      /\ UNCHANGED <<args, results, specPc, spectrumTag>>
  BY CoordinatorMoves DEF spectrumVars
<1>1. ProtocolInv /\ OrderInv /\ CaptureIsOurs /\ LoopInv
  BY DEF FileInv
<1>2. tag \in Int /\ spectrumTag \in Int /\ \A i \in 1 .. Len(results) : results[i].tag \in Int
  BY <1>1, FileTypes
<1>3. /\ \A i, j \in 1 .. Len(results) : i < j => results[i].tag < results[j].tag
      /\ specPc = "capture" => \A i \in 1 .. Len(results) : results[i].tag < spectrumTag
      /\ MeasuredUpTo(tag)
      /\ coordPc = "sendGain" \/ Commanded => MeasuredUpTo(tag - 1)
  BY <1>1 DEF OrderInv
<1>4. MeasuredUpTo(tag)' /\ ((coordPc = "sendGain" \/ Commanded)' => MeasuredUpTo(tag - 1)')
  <2>1. CASE RoundAnnounced \/ RoundGoesOn
    <3>1. tag' = tag /\ coordPc' # "sendGain" /\ (coordPc = "sendGain" \/ Commanded)
      BY <2>1 DEF RoundAnnounced, RoundGoesOn, Commanded
    <3>. QED
      BY <1>0, <1>3, <3>1 DEF MeasuredUpTo
  <2>2. CASE RoundOver
    <3>1. tag' = tag + 1
      BY <2>2, NextTagInRound DEF RoundOver, InRound
    <3>2. MeasuredUpTo(tag - 1)' /\ MeasuredUpTo(tag)'
      BY <1>0, <1>2, <1>3, <3>1 DEF MeasuredUpTo
    <3>. QED
      BY <3>2
  <2>3. CASE OutsideRounds
    <3>1. tag' = tag
      BY <2>3 DEF OutsideRounds
    <3>2. ~Commanded'
      BY <2>3 DEF OutsideRounds, Commanded, LoopEntry
    <3>3. coordPc' = "sendGain" => coordPc = "off"
      BY <1>1, <2>3 DEF OutsideRounds, LoopInv
    <3>4. coordPc = "off" => MeasuredUpTo(tag - 1)'
      BY <1>0, <1>1 DEF CaptureIsOurs, MeasuredUpTo
    <3>. QED
      BY <1>0, <1>3, <3>1, <3>2, <3>3, <3>4 DEF MeasuredUpTo
  <2>. QED
    BY <1>0, <2>1, <2>2, <2>3
<1>. QED
  BY <1>0, <1>3, <1>4 DEF OrderInv

(* A measurement that starts has a higher tag than every record, and a      *)
(* record is appended with the tag of the measurement that ends.            *)
LEMMA OrderStepServer ==
  ASSUME FileInv, args.automatic, PowerCommandRead \/ RecordWritten \/ FileQuiet
  PROVE  OrderInv'
<1>0. UNCHANGED <<args, tag, coordPc>>
  BY DEF PowerCommandRead, RecordWritten, FileQuiet, coordVars
<1>1. ProtocolInv /\ OrderInv
  BY DEF FileInv
<1>2. /\ tag \in Int /\ spectrumTag \in Int /\ results \in Seq(OutputRecord)
      /\ Len(results) \in Nat /\ \A i \in 1 .. Len(results) : results[i].tag \in Int
  BY <1>1, FileTypes
<1>3. /\ \A i, j \in 1 .. Len(results) : i < j => results[i].tag < results[j].tag
      /\ specPc = "capture" => \A i \in 1 .. Len(results) : results[i].tag < spectrumTag
      /\ MeasuredUpTo(tag)
      /\ coordPc = "sendGain" \/ Commanded => MeasuredUpTo(tag - 1)
  BY <1>1 DEF OrderInv
<1>4. CASE PowerCommandRead
  <2>1. /\ UNCHANGED results /\ spectrumTag' = tag /\ ~Commanded' /\ coordPc = "powerAck"
        /\ MeasuredUpTo(tag - 1)
    BY <1>3, <1>4 DEF PowerCommandRead
  <2>2. \A i \in 1 .. Len(results) : results[i].tag < tag
    BY <1>2, <2>1 DEF MeasuredUpTo
  <2>. QED
    BY <1>0, <1>2, <1>3, <2>1, <2>2 DEF OrderInv, MeasuredUpTo
<1>5. CASE RecordWritten
  <2>1. /\ specPc = "capture" /\ specPc' = "ack" /\ Commanded' = Commanded
        /\ results' = Append(results, [tag |-> spectrumTag, gains |-> samples])
    BY <1>5 DEF RecordWritten
  <2>2. /\ Len(results') = Len(results) + 1
        /\ \A i \in 1 .. Len(results) : results'[i] = results[i]
        /\ results'[Len(results) + 1].tag = spectrumTag
    BY <1>2, <2>1
  <2>3. ASSUME NEW i \in 1 .. Len(results'), NEW j \in 1 .. Len(results'), i < j
        PROVE  results'[i].tag < results'[j].tag
    <3>1. i \in 1 .. Len(results) /\ results'[i] = results[i]
      BY <1>2, <2>2, <2>3
    <3>2. CASE j \in 1 .. Len(results)
      BY <1>3, <2>2, <2>3, <3>1, <3>2
    <3>3. CASE j = Len(results) + 1
      BY <1>3, <2>1, <2>2, <3>1, <3>3
    <3>. QED
      BY <1>2, <2>2, <3>2, <3>3
  <2>4. MeasuredUpTo(tag)'
    BY <1>0, <1>2, <1>3, <2>1, <2>2 DEF MeasuredUpTo
  <2>5. coordPc = "sendGain" \/ Commanded => MeasuredUpTo(tag - 1)'
    BY <1>0, <1>2, <1>3, <2>1, <2>2 DEF MeasuredUpTo
  <2>. QED
    BY <1>0, <2>1, <2>3, <2>4, <2>5 DEF OrderInv
<1>6. CASE FileQuiet
  <2>1. /\ UNCHANGED results /\ (Commanded' => Commanded)
        /\ specPc' = "capture" => specPc = "capture" /\ spectrumTag' = spectrumTag
    BY <1>6 DEF FileQuiet
  <2>. QED
    BY <1>0, <1>3, <2>1 DEF OrderInv, MeasuredUpTo
<1>. QED
  BY <1>4, <1>5, <1>6

(* No step of any process disturbs the order of the file.                   *)
LEMMA FileStep == NoTagOverflow /\ FileInv /\ [Next]_vars => FileInv'
<1>. SUFFICES ASSUME NoTagOverflow, FileInv, [Next]_vars PROVE FileInv'
  OBVIOUS
<1>1. ProtocolInv /\ ProtocolInv'
  BY ProtocolStep DEF FileInv
<1>2. args' = args
  BY <1>1, FileSteps, CoordinatorMoves DEF PowerCommandRead, RecordWritten, FileQuiet, coordVars
<1>3. OrderInv'
  BY <1>1, <1>2, FileSteps, OrderStepCoordinator, OrderStepServer DEF OrderInv
<1>. QED
  BY <1>1, <1>3, CaptureIsOursStep, CountStep, LoopStep DEF FileInv

-----------------------------------------------------------------------------
(* Whatever fails, no record is written twice, and the records of an        *)
(* automatic campaign are in the order of their tags, as long as no tag     *)
(* reaches INT_MAX.                                                         *)
THEOREM RecordsInOrderHolds ==
  ASSUME NoTagOverflow
  PROVE  Spec => []RecordsInOrder
<1>1. FileInv => RecordsInOrder
  <2>. SUFFICES ASSUME FileInv PROVE RecordsInOrder
    OBVIOUS
  <2>1. Len(results) <= Len(announced)
    <3>1. Len(results) \in Nat /\ Len(announced) \in Nat
      BY FileTypes DEF FileInv
    <3>2. One(specPc = "capture") \in 0 .. 1 /\ One(Commanded) \in 0 .. 1
      BY DEF One
    <3>. QED
      BY <3>1, <3>2 DEF FileInv, CountInv
  <2>. QED
    BY <2>1 DEF FileInv, OrderInv, RecordsInOrder
<1>. QED
  BY <1>1, FileInit, FileStep, PTL DEF Spec

(* Whatever fails, the automatic loop announces at most as many rounds as   *)
(* the command line has tags, as long as no tag reaches INT_MAX.            *)
THEOREM LoopRunsAsSpecifiedHolds ==
  ASSUME NoTagOverflow
  PROVE  Spec => []LoopRunsAsSpecified
<1>1. FileInv => LoopRunsAsSpecified
  <2>. SUFFICES ASSUME FileInv, args.automatic, args.startTag <= args.endTag
                PROVE  Len(announced) <= args.endTag - args.startTag + 1
    BY DEF LoopRunsAsSpecified
  <2>1. /\ tag \in Int /\ args.startTag \in Int /\ args.endTag \in Int
        /\ Len(announced) \in Nat
    BY FileTypes DEF FileInv
  <2>. QED
    BY <2>1 DEF FileInv, LoopInv, One, Announcing, InRound
<1>. QED
  BY <1>1, FileInit, FileStep, PTL DEF Spec

-----------------------------------------------------------------------------
(***************************************************************************)
(* Theorems about the tester in the absence of faults: the servers stay,   *)
(* the file and the console are in step, and the file is the one that      *)
(* TestCampaign promises.                                                  *)
(***************************************************************************)

(* No process disturbs another.                                             *)
NoFaults == Faults = {}

-----------------------------------------------------------------------------
(* The queue and the connection.                                            *)

(* A call on a queue that is there does not fail.                           *)
LEMMA CallsSucceed ==
  ASSUME NoFaults
  PROVE  /\ ~OpenFails
         /\ \A id : Attached(id) => ~SendDataFails(id) /\ ~ReceiveDataFails(id)
         /\ ~QueueVanishes /\ ~LinkBreaks /\ ~PipelineFails
BY DEF NoFaults, OpenFails, SendDataFails, ReceiveDataFails, QueueVanishes,
       QueueRemovedByOther, LinkBreaks, DiagsCloses, PipelineFails

(* Nobody is on a queue before the launch, and everybody alive is on it.    *)
LEMMA AllOnQueueInit == Init => AllOnQueue
BY DEF Init, LinkInit, SpectrumInit, CoordInit, RadioInit, AllOnQueue, Attached, NoQueue

(* The coordinator opens the queue the servers are on, and removes it only  *)
(* at its end.                                                              *)
LEMMA AllOnQueueCoordinator ==
  ASSUME NoFaults, ProtocolInv, AllOnQueue, Coordinating \/ UserActs
  PROVE  AllOnQueue'
<1>0. /\ QueueTypeOK /\ lastId \in Nat
      /\ UNCHANGED <<peerUp, radioQid, radioPc, specQid, specPc>>
  BY DEF ProtocolInv, TypeOK, QueueTypeOK, Coordinating, UserActs, linkVars, radioVars, spectrumVars
<1>1. CASE LaunchCoordinator
  <2>1. /\ OpenQueue /\ coordQid' = OpenedId /\ coordPc = "off"
        /\ coordPc' \notin {"off", "exited", "sendTermSpec", "destroy"}
    BY <1>1, CallsSucceed DEF LaunchCoordinator, LoopEntry
  <2>2. Attached(coordQid)' /\ (qid # NoQueue => qid' = qid)
    BY <1>0, <2>1, OpenQueueEffect DEF Attached, NoQueue
  <2>. QED
    BY <1>0, <2>1, <2>2 DEF AllOnQueue, CampaignEnding, Attached
<1>2. CASE DestroyQueue
  <2>1. coordPc' = "exited"
    BY <1>2 DEF DestroyQueue
  <2>. QED
    BY <1>0, <2>1 DEF AllOnQueue, CampaignEnding
<1>3. CASE ~LaunchCoordinator /\ ~DestroyQueue
  <2>1. qid' = qid /\ coordQid' = coordQid
    BY <1>3 DEF Coordinating, UserActs, CoordinatorStep, UserStep, UserMeasure, UserExit,
       UserEndOfInput,
       SendIfGain, RadioAckArrives, SendPower, SpectrumAckArrives, GainLegDone, PowerLegDone,
       TerminateRadioServer, TerminateSpectrumServer, SendTerminate,
       SendData, SendDataFails, ReceiveData, ReceiveDataFails, queueVars
  <2>2. coordPc \notin {"off", "exited"} /\ (CampaignEnding => CampaignEnding')
    BY <1>3 DEF Coordinating, UserActs, CoordinatorStep, UserStep, UserMeasure, UserExit,
       UserEndOfInput,
       SendIfGain, RadioAckArrives, SendPower, SpectrumAckArrives,
       TerminateRadioServer, TerminateSpectrumServer, CampaignEnding
  <2>. QED
    BY <1>0, <2>1, <2>2 DEF AllOnQueue, Attached
<1>. QED
  BY <1>1, <1>2, <1>3

(* The radio server joins the queue, and leaves it only when told or when   *)
(* the queue is gone (radioServer.cc:448).                                  *)
LEMMA AllOnQueueRadioServer ==
  ASSUME NoFaults, ProtocolInv, AllOnQueue, RadioServing
  PROVE  AllOnQueue'
<1>. USE CommandsAreTyped, DistinctTypes
<1>0. /\ QueueTypeOK /\ lastId \in Nat /\ RadioPhase /\ RadioLeg
      /\ UNCHANGED <<specQid, specPc, coordQid, coordPc>>
  BY DEF ProtocolInv, TypeOK, QueueTypeOK, RadioServing, coordVars, spectrumVars
<1>1. UNCHANGED peerUp
  BY DEF RadioServing, RadioServerStep, LaunchRadioServer, RadioSend, RadioRead, RadioQuiet,
     RadioOpensQueue,
     RadioReceive, RadioAck, Connect, ConnectFails, SendOctets, SendRaisesSigpipe, ReadAvailable,
     ReadEndOfFile, SelectTimesOut, ReleasesConnection, Disconnect, linkVars
<1>2. CASE RadioOpensQueue
  <2>1. OpenQueue /\ radioQid' = OpenedId /\ radioPc' = "wait"
    BY <1>2, CallsSucceed DEF RadioOpensQueue
  <2>2. Attached(radioQid)' /\ (qid # NoQueue => qid' = qid)
    BY <1>0, <2>1, OpenQueueEffect DEF Attached, NoQueue
  <2>. QED
    BY <1>0, <1>1, <2>1, <2>2 DEF AllOnQueue, CampaignEnding, Attached
<1>3. CASE ~RadioOpensQueue
  <2>1. qid' = qid /\ radioQid' = radioQid
    BY <1>3 DEF RadioServing, RadioServerStep, LaunchRadioServer, RadioSend, RadioRead, RadioQuiet,
       RadioReceive, RadioAck, SendData, SendDataFails, ReceiveData, ReceiveDataFails,
       queueVars, radioVars
  <2>2. ASSUME radioPc # "exited", radioPc' = "exited"
        PROVE  CampaignEnding
    <3>1. CASE LaunchRadioServer
      BY <2>2, <3>1 DEF LaunchRadioServer, ConnectFails, AllOnQueue
    <3>2. CASE RadioReceive \/ RadioAck
      <4>1. radioPc \in {"wait", "ack"} /\ radioQid # NoQueue
        BY <1>0, <3>2 DEF RadioReceive, RadioAck, RadioPhase
      <4>2. CASE coordPc = "exited"
        BY <4>2 DEF CampaignEnding
      <4>3. CASE coordPc # "exited"
        <5>1. Attached(radioQid)
          BY <4>1, <4>3 DEF AllOnQueue
        <5>2. /\ RadioReceive /\ ReceiveData(radioQid, RadioServerTypeCmd)
              /\ radioPc' = RadioDecode(Received(RadioServerTypeCmd))
          BY <2>2, <3>2, <5>1, CallsSucceed DEF RadioReceive, RadioAck
        <5>3. queue[RadioServerTypeCmd] # << >>
          BY <5>2 DEF ReceiveData
        <5>4. CASE coordPc = "gainAck"
          <6>1. Received(RadioServerTypeCmd) = <<1, announced[Len(announced)].gain>>
            BY <1>0, <5>3, <5>4 DEF RadioLeg, Received, IfGainCommand, RadioServerCmdSetIfGain
          <6>2. RadioDecode(Received(RadioServerTypeCmd)) = "send"
            BY <6>1, DecodeOfGainCommand DEF RadioServerCmdSetIfGain
          <6>. QED
            BY <2>2, <5>2, <6>2
        <5>5. CASE coordPc # "gainAck"
          BY <1>0, <5>3, <5>5 DEF RadioLeg, CampaignEnding
        <5>. QED
          BY <5>4, <5>5
      <4>. QED
        BY <4>2, <4>3
    <3>. QED
      BY <1>3, <2>2, <3>1, <3>2 DEF RadioServing, RadioServerStep, RadioSend, RadioRead,
         RadioQuiet, AfterResponse, radioVars
  <2>. QED
    BY <1>0, <1>1, <2>1, <2>2 DEF AllOnQueue, CampaignEnding, Attached
<1>. QED
  BY <1>2, <1>3

(* The spectrum server does the same (spectrumServer.cc:330).               *)
LEMMA AllOnQueueSpectrumServer ==
  ASSUME NoFaults, ProtocolInv, AllOnQueue, SpectrumServing
  PROVE  AllOnQueue'
<1>. USE CommandsAreTyped, DistinctTypes
<1>0. /\ QueueTypeOK /\ lastId \in Nat /\ SpectrumLeg
      /\ UNCHANGED <<peerUp, radioQid, radioPc, coordQid, coordPc>>
  BY DEF ProtocolInv, TypeOK, QueueTypeOK, SpectrumServing, coordVars, radioVars, linkVars
<1>1. CASE LaunchSpectrumServer
  <2>1. OpenQueue /\ specQid' = OpenedId /\ specPc' = "wait"
    BY <1>1, CallsSucceed DEF LaunchSpectrumServer
  <2>2. Attached(specQid)' /\ (qid # NoQueue => qid' = qid)
    BY <1>0, <2>1, OpenQueueEffect DEF Attached, NoQueue
  <2>. QED
    BY <1>0, <2>1, <2>2 DEF AllOnQueue, CampaignEnding, Attached
<1>2. CASE ~LaunchSpectrumServer
  <2>1. qid' = qid /\ specQid' = specQid /\ specPc \in {"wait", "capture", "ack"}
    BY <1>2 DEF SpectrumServing, SpectrumServerStep, SpectrumReceive, StreamSamples,
       Measure, PipelineFails,
       SpectrumAck, SendData, SendDataFails, ReceiveData, ReceiveDataFails, queueVars
  <2>2. ASSUME specPc' = "exited" PROVE CampaignEnding
    <3>1. SpectrumReceive \/ SpectrumAck
      BY <1>2, <2>2 DEF SpectrumServing, SpectrumServerStep, StreamSamples, Measure, PipelineFails
    <3>2. CASE coordPc = "exited"
      BY <3>2 DEF CampaignEnding
    <3>3. CASE coordPc # "exited"
      <4>1. Attached(specQid)
        BY <2>1, <3>3 DEF AllOnQueue
      <4>2. /\ ReceiveData(specQid, SpectrumServerTypeCmd)
            /\ specPc' = SpectrumDecode(Received(SpectrumServerTypeCmd))
        BY <2>2, <3>1, <4>1, CallsSucceed DEF SpectrumReceive, SpectrumAck
      <4>3. queue[SpectrumServerTypeCmd] # << >>
        BY <4>2 DEF ReceiveData
      <4>4. CASE coordPc = "powerAck"
        <5>1. Received(SpectrumServerTypeCmd) = <<2, tag>>
          BY <1>0, <4>3, <4>4 DEF SpectrumLeg, Received, PowerCommand, SpectrumServerCmdComputePower
        <5>2. SpectrumDecode(Received(SpectrumServerTypeCmd)) = "capture"
          BY <5>1, DecodeOfPowerCommand DEF SpectrumServerCmdComputePower
        <5>. QED
          BY <2>2, <4>2, <5>2
      <4>5. CASE coordPc # "powerAck"
        BY <1>0, <4>3, <4>5 DEF SpectrumLeg, CampaignEnding
      <4>. QED
        BY <4>4, <4>5
    <3>. QED
      BY <3>2, <3>3
  <2>. QED
    BY <1>0, <2>1, <2>2 DEF AllOnQueue, CampaignEnding, Attached
<1>. QED
  BY <1>1, <1>2

(* Without faults nobody loses the queue before the campaign ends.          *)
LEMMA AllOnQueueStep ==
  ASSUME NoFaults, ProtocolInv, AllOnQueue, [Next]_vars
  PROVE  AllOnQueue'
<1>1. CASE DiagsServing
  BY <1>1 DEF DiagsServing, DiagsExecute, AllOnQueue, CampaignEnding, Attached, queueVars,
     radioVars, spectrumVars, coordVars
<1>2. CASE UNCHANGED vars
  BY <1>2 DEF vars, AllOnQueue, CampaignEnding, Attached, queueVars, linkVars, radioVars,
     spectrumVars, coordVars
<1>. QED
  BY <1>1, <1>2, AllOnQueueCoordinator, AllOnQueueRadioServer, AllOnQueueSpectrumServer,
     CallsSucceed
  DEF Next, AllExited

(* A server that ends does so while the coordinator stands still.           *)
LEMMA EndsAlone ==
  ASSUME [Next]_vars, radioPc' # radioPc \/ specPc' # specPc
  PROVE  coordPc' = coordPc
BY DEF Next, Coordinating, UserActs, RadioServing, SpectrumServing, DiagsServing,
   LinkBreaks, QueueVanishes,
   AllExited, vars, coordVars, radioVars, spectrumVars

(* Without faults a server that serves ends only after the coordinator has  *)
(* begun to end the campaign.                                               *)
THEOREM ServersStayUntilToldHolds ==
  ASSUME NoFaults
  PROVE  Spec => ServersStayUntilTold
<1>1. Init => ProtocolInv /\ AllOnQueue
  BY ProtocolInit, AllOnQueueInit
<1>2. ProtocolInv /\ AllOnQueue /\ [Next]_vars => (ProtocolInv /\ AllOnQueue)'
  BY ProtocolStep, AllOnQueueStep
<1>3. ProtocolInv /\ AllOnQueue /\ [Next]_vars
        => [ /\ (radioPc # "exited" /\ radioPc' = "exited" => CampaignEnding)
             /\ (specPc # "exited" /\ specPc' = "exited" => CampaignEnding) ]_vars
  <2>. SUFFICES ASSUME ProtocolInv, AllOnQueue, [Next]_vars
                PROVE  /\ radioPc # "exited" /\ radioPc' = "exited" => CampaignEnding
                       /\ specPc # "exited" /\ specPc' = "exited" => CampaignEnding
    OBVIOUS
  <2>1. AllOnQueue'
    BY AllOnQueueStep
  <2>. QED
    BY <2>1, EndsAlone DEF AllOnQueue, CampaignEnding
<1>. QED
  BY <1>1, <1>2, <1>3, PTL DEF Spec, ServersStayUntilTold

-----------------------------------------------------------------------------
(* The file and the console.                                                *)

(* The gain of the radio changes only when radio diags executes a command.  *)
LEMMA GainStays ==
  ASSUME [Next]_vars, toRadio = << >>
  PROVE  radioGain' = radioGain
BY DEF Next, Coordinating, UserActs, RadioServing, RadioServerStep, LaunchRadioServer,
   RadioSend, RadioRead,
   RadioQuiet, RadioOpensQueue, RadioReceive, RadioAck, SpectrumServing, DiagsServing,
   DiagsExecute, LinkBreaks,
   DiagsCloses, QueueVanishes, AllExited, vars, diagsVars

(* While a pipeline runs, the command that started it is gone and its       *)
(* acknowledgement is not there yet.                                        *)
LEMMA WhileMeasuring ==
  ASSUME ProtocolInv, AllOnQueue, FileInStep, specPc = "capture"
  PROVE  /\ coordPc = "powerAck" /\ ~Commanded
         /\ queue[SpectrumServerTypeAck] = << >>
<1>1. coordPc = "powerAck"
  BY DEF FileInStep
<1>2. SpectrumBusy
  BY <1>1 DEF AllOnQueue, SpectrumBusy
<1>. QED
  BY <1>1, <1>2 DEF ProtocolInv, SpectrumLeg, Commanded

(* Nothing has happened before the launch.                                  *)
LEMMA FileInStepInit == Init => FileInStep
<1>. SUFFICES ASSUME Init PROVE FileInStep
  OBVIOUS
<1>1. specPc = "off" /\ coordPc = "off" /\ results = << >> /\ announced = << >>
  BY DEF Init, SpectrumInit, CoordInit
<1>. QED
  BY <1>1 DEF FileInStep, One, Commanded

(* A round of the coordinator without faults: both legs are acknowledged.   *)
LEMMA RoundWithoutFaults ==
  ASSUME NoFaults, ProtocolInv, coordPc \notin {"off", "exited"} => Attached(coordQid),
         Coordinating \/ UserActs
  PROVE  /\ RoundAnnounced => coordPc' = "gainAck"
         /\ RoundGoesOn => /\ Commanded /\ Commanded'
                           /\ \/ RadioAckWaits /\ coordPc' = "sendPower"
                              \/ coordPc = "sendPower" /\ coordPc' = "powerAck"
         /\ RoundOver => coordPc = "powerAck" /\ SpectrumAckWaits /\ ~Commanded /\ ~Commanded'
<1>. USE CommandsAreTyped, DistinctTypes
<1>0. QueueTypeOK /\ SpectrumLeg /\ tag \in Int
  BY DEF ProtocolInv, TypeOK, CoordTypeOK
<1>1. ASSUME RoundAnnounced PROVE coordPc' = "gainAck"
  <2>1. SendIfGain /\ Attached(coordQid)
    BY <1>1 DEF RoundAnnounced, Coordinating, UserActs, CoordinatorStep, UserStep, UserMeasure,
       UserExit, UserEndOfInput, LaunchCoordinator, RadioAckArrives, SendPower, SpectrumAckArrives,
       TerminateRadioServer, TerminateSpectrumServer, DestroyQueue
  <2>. QED
    BY <2>1, CallsSucceed DEF SendIfGain
<1>2. ASSUME RoundGoesOn \/ RoundOver
      PROVE  (SendPower \/ SpectrumAckArrives \/ RadioAckArrives) /\ Attached(coordQid)
  BY <1>2 DEF RoundGoesOn, RoundOver, Coordinating, UserActs, CoordinatorStep, UserStep,
     UserMeasure,
     UserExit, UserEndOfInput, LaunchCoordinator, SendIfGain,
     TerminateRadioServer, TerminateSpectrumServer, DestroyQueue
<1>3. ASSUME RoundGoesOn
      PROVE  /\ Commanded /\ Commanded'
             /\ \/ RadioAckWaits /\ coordPc' = "sendPower"
                \/ coordPc = "sendPower" /\ coordPc' = "powerAck"
  <2>1. Commanded
    BY <1>3 DEF RoundGoesOn, Commanded
  <2>2. CASE coordPc' = "sendPower"
    <3>1. RadioAckArrives /\ Attached(coordQid)
      BY <1>2, <1>3, <2>2 DEF RoundGoesOn, SendPower, PowerLegDone, LoopEntry, SpectrumAckArrives
    <3>2. RadioAckWaits
      BY <3>1, CallsSucceed DEF RadioAckArrives, ReceiveData, RadioAckWaits
    <3>. QED
      BY <2>1, <2>2, <3>2 DEF Commanded
  <2>3. CASE coordPc' = "powerAck"
    <3>1. SendPower /\ Attached(coordQid)
      BY <1>2, <1>3, <2>3 DEF RoundGoesOn, RadioAckArrives, GainLegDone, SpectrumAckArrives
    <3>2. SendData(coordQid, SpectrumServerTypeCmd, PowerCommand(tag)) /\ coordPc = "sendPower"
      BY <3>1, CallsSucceed DEF SendPower
    <3>3. queue'[SpectrumServerTypeCmd] = Append(queue[SpectrumServerTypeCmd], PowerCommand(tag))
      BY <1>0, <3>2, SendDataEffect
    <3>4. queue[SpectrumServerTypeCmd] \in Seq(Body) /\ PowerCommand(tag) \in Body
      BY <1>0 DEF QueueTypeOK
    <3>5. queue'[SpectrumServerTypeCmd] # << >>
      BY <3>3, <3>4, LastOfSequence
    <3>. QED
      BY <2>1, <2>3, <3>2, <3>5 DEF Commanded
  <2>. QED
    BY <1>3, <2>2, <2>3 DEF RoundGoesOn
<1>4. ASSUME RoundOver
      PROVE  coordPc = "powerAck" /\ SpectrumAckWaits /\ ~Commanded /\ ~Commanded'
  <2>1. /\ SendPower \/ SpectrumAckArrives
        /\ Attached(coordQid)
        /\ coordPc' \notin {"sendPower", "gainAck", "powerAck"}
    BY <1>2, <1>4 DEF RoundOver, RadioAckArrives, LoopEntry
  <2>2. SpectrumAckArrives /\ ReceiveData(coordQid, SpectrumServerTypeAck)
    BY <2>1, CallsSucceed DEF SendPower, SpectrumAckArrives
  <2>3. coordPc = "powerAck" /\ SpectrumAckWaits
    BY <2>2 DEF SpectrumAckArrives, ReceiveData, SpectrumAckWaits
  <2>4. queue[SpectrumServerTypeCmd] = << >>
    BY <1>0, <2>3 DEF SpectrumLeg
  <2>. QED
    BY <2>1, <2>3, <2>4 DEF Commanded
<1>. QED
  BY <1>1, <1>3, <1>4

(* Without faults every command is measured, and every measurement is       *)
(* recorded, before the coordinator goes on.                                *)
LEMMA FileInStepStep ==
  ASSUME NoFaults, MeasurementInv, MeasurementInv', AllOnQueue, FileInStep, [Next]_vars
  PROVE  FileInStep'
<1>1. /\ ProtocolInv /\ RoundInv /\ NoRetuneDuringCapture'
      /\ results \in Seq(OutputRecord) /\ announced \in Seq([tag : Int, gain : Int])
  BY FileTypes DEF MeasurementInv, GainInv, CaptureInv
<1>2. Len(results) + One(specPc = "capture") + One(Commanded) = Len(announced)
  BY DEF FileInStep
<1>3. CASE (Coordinating \/ UserActs) /\ UNCHANGED spectrumVars
  <2>1. /\ RoundAnnounced \/ RoundGoesOn \/ RoundOver \/ OutsideRounds
        /\ UNCHANGED <<specPc, results>>
    BY <1>3, CoordinatorMoves DEF spectrumVars
  <2>0. coordPc \notin {"off", "exited"} => Attached(coordQid)
    BY DEF AllOnQueue
  <2>2. specPc # "capture"
    BY <1>1, <1>3, <2>0, <2>1, WhileMeasuring, RoundWithoutFaults
       DEF RoundAnnounced, RoundGoesOn, OutsideRounds, SpectrumAckWaits
  <2>3. CASE RoundAnnounced
    <3>1. Len(announced') = Len(announced) + 1 /\ ~Commanded /\ Commanded'
      BY <1>1, <2>3 DEF RoundAnnounced, Commanded
    <3>. QED
      BY <1>1, <1>2, <2>1, <2>2, <3>1 DEF FileInStep, One
  <2>4. CASE RoundGoesOn \/ RoundOver \/ OutsideRounds
    <3>1. UNCHANGED announced
      BY <2>4 DEF RoundGoesOn, RoundOver, OutsideRounds
    <3>2. CASE RoundGoesOn
      <4>1. Commanded /\ Commanded'
        BY <1>1, <1>3, <2>0, <3>2, RoundWithoutFaults
      <4>. QED
        BY <1>1, <1>2, <2>1, <2>2, <3>1, <4>1 DEF FileInStep, One
    <3>3. CASE RoundOver \/ OutsideRounds
      <4>1. ~Commanded /\ ~Commanded'
        BY <1>1, <1>3, <2>0, <3>3, RoundWithoutFaults DEF OutsideRounds, Commanded, LoopEntry
      <4>. QED
        BY <1>1, <1>2, <2>1, <2>2, <3>1, <4>1 DEF FileInStep, One
    <3>. QED
      BY <2>4, <3>2, <3>3
  <2>. QED
    BY <2>1, <2>3, <2>4
<1>4. CASE PowerCommandRead
  <2>1. /\ specPc = "wait" /\ specPc' = "capture" /\ spectrumTag' = tag /\ coordPc = "powerAck"
        /\ Commanded /\ ~Commanded' /\ UNCHANGED <<results, coordPc, tag, announced>>
    BY <1>4 DEF PowerCommandRead, coordVars
  <2>2. AtGainOfLastRound
    BY <1>1, <2>1 DEF RoundInv, Commanded
  <2>3. radioGain' = radioGain
    BY <2>2, GainStays DEF AtGainOfLastRound, RadioSettled
  <2>4. RadioSettled'
    BY <1>1, <2>1 DEF NoRetuneDuringCapture
  <2>5. AtGainOfLastRound'
    BY <2>1, <2>2, <2>3, <2>4 DEF AtGainOfLastRound
  <2>. QED
    BY <1>1, <1>2, <2>1, <2>5 DEF FileInStep, One
<1>5. CASE RecordWritten
  <2>1. specPc = "capture" /\ specPc' = "ack" /\ UNCHANGED announced
    BY <1>5 DEF RecordWritten, coordVars
  <2>2. Len(results') = Len(results) + 1 /\ Commanded' = Commanded
    BY <1>1, <1>5 DEF RecordWritten
  <2>. QED
    BY <1>1, <1>2, <2>1, <2>2 DEF FileInStep, One
<1>6. CASE FileQuiet
  <2>1. /\ UNCHANGED <<results, announced, coordPc, tag>>
        /\ (specPc = "capture") = (specPc' = "capture") /\ Commanded = Commanded'
        /\ specPc' = "capture" => spectrumTag' = spectrumTag
    BY <1>6 DEF FileQuiet, coordVars, NoFaults, Commanded
  <2>2. ASSUME specPc' = "capture" PROVE AtGainOfLastRound'
    <3>1. AtGainOfLastRound
      BY <2>1, <2>2 DEF FileInStep
    <3>2. radioGain' = radioGain /\ RadioSettled'
      BY <1>1, <2>2, <3>1, GainStays DEF AtGainOfLastRound, RadioSettled, NoRetuneDuringCapture
    <3>. QED
      BY <2>1, <3>1, <3>2 DEF AtGainOfLastRound
  <2>. QED
    BY <1>2, <2>1, <2>2 DEF FileInStep, One
<1>. QED
  BY <1>1, <1>3, <1>4, <1>5, <1>6, FileSteps

-----------------------------------------------------------------------------
(* The counters (coordinator.cc:493-600).                                   *)

(* A number has one rest.                                                   *)
LEMMA RestIsUnique ==
  ASSUME NEW m \in Nat, NEW n \in Nat \ {0}, NEW q \in Nat, NEW r \in 0 .. n - 1, m = q * n + r
  PROVE  m % n = r
<1>. DEFINE p == m \div n
            s == m % n
<1>1. p \in Nat /\ s \in 0 .. n - 1 /\ m = p * n + s
  BY SMT
<1>. HIDE DEF p, s
<1>2. CASE p < q
  <2>1. (p + 1) * n <= q * n
    BY <1>1, <1>2, SMT
  <2>2. (p + 1) * n = p * n + n
    BY <1>1, SMT
  <2>. QED
    BY <1>1, <2>1, <2>2, SMT
<1>3. CASE q < p
  <2>1. (q + 1) * n <= p * n
    BY <1>1, <1>3, SMT
  <2>2. (q + 1) * n = q * n + n
    BY <1>1, SMT
  <2>. QED
    BY <1>1, <2>1, <2>2, SMT
<1>4. CASE p = q
  <2>1. s = r
    BY <1>1, <1>4, SMT
  <2>. QED
    BY <2>1 DEF s
<1>. QED
  BY <1>1, <1>2, <1>3, <1>4

(* The rest of the next number.                                             *)
LEMMA ModSuccessor ==
  ASSUME NEW k \in Nat, NEW n \in Nat \ {0}
  PROVE  /\ k % n \in 0 .. n - 1
         /\ (k + 1) % n = IF k % n = n - 1 THEN 0 ELSE (k % n) + 1
<1>. DEFINE q == k \div n
            r == k % n
<1>1. q \in Nat /\ r \in 0 .. n - 1 /\ k = q * n + r
  BY SMT
<1>. HIDE DEF q, r
<1>2. (q + 1) * n = q * n + n
  BY <1>1, SMT
<1>3. CASE r = n - 1
  <2>1. k + 1 = (q + 1) * n + 0
    BY <1>1, <1>2, <1>3, SMT
  <2>2. q + 1 \in Nat /\ 0 \in 0 .. n - 1 /\ k + 1 \in Nat
    BY <1>1
  <2>3. (k + 1) % n = 0
    BY <2>1, <2>2, RestIsUnique
  <2>. QED
    BY <1>1, <1>3, <2>3 DEF r
<1>4. CASE r # n - 1
  <2>1. k + 1 = q * n + (r + 1) /\ r + 1 \in 0 .. n - 1
    BY <1>1, <1>4, SMT
  <2>2. (k + 1) % n = r + 1
    BY <1>1, <2>1, RestIsUnique
  <2>. QED
    BY <1>1, <1>4, <2>2 DEF r
<1>. QED
  BY <1>3, <1>4

(* A counter that wraps at the end of its range goes round and round it.    *)
LEMMA CycleSuccessor ==
  ASSUME NEW lo \in Int, NEW hi \in Int, NEW k \in Nat
  PROVE  /\ Campaign!Cycle(lo, hi, 0) = lo
         /\ Campaign!Cycle(lo, hi, k) \in Int
         /\ Campaign!Cycle(lo, hi, k) = lo \/ Campaign!Cycle(lo, hi, k) <= hi
         /\ Campaign!Cycle(lo, hi, k + 1)
              = IF Campaign!Cycle(lo, hi, k) + 1 > hi THEN lo ELSE Campaign!Cycle(lo, hi, k) + 1
<1>1. CASE hi < lo
  BY <1>1 DEF Campaign!Cycle
<1>2. CASE hi >= lo
  <2>. DEFINE n == hi - lo + 1
  <2>1. n \in Nat \ {0}
    BY <1>2
  <2>2. /\ k % n \in 0 .. n - 1
        /\ (k + 1) % n = IF k % n = n - 1 THEN 0 ELSE (k % n) + 1
    BY <2>1, ModSuccessor
  <2>3. 0 % n = 0
    BY <2>1, SMT
  <2>4. /\ Campaign!Cycle(lo, hi, k) = lo + (k % n)
        /\ Campaign!Cycle(lo, hi, k + 1) = lo + ((k + 1) % n)
        /\ Campaign!Cycle(lo, hi, 0) = lo + (0 % n)
    BY <1>2 DEF Campaign!Cycle
  <2>. HIDE DEF n
  <2>5. n = hi - lo + 1
    BY DEF n
  <2>. QED
    BY <2>1, <2>2, <2>3, <2>4, <2>5
<1>. QED
  BY <1>1, <1>2

(* The counters stay below INT_MAX, so their successors are one value each, *)
(* and wrapping them gives the next gain and the next tag.                  *)
LEMMA NextOfCycle ==
  ASSUME NoOverflow, CoordTypeOK, NEW k \in Nat
  PROVE  /\ GainAt(k) \in Int /\ TagAt(k) \in Int
         /\ Incremented(GainAt(k)) = {GainAt(k) + 1} /\ WrapIfGain(GainAt(k) + 1) = GainAt(k + 1)
         /\ Incremented(TagAt(k)) = {TagAt(k) + 1} /\ WrapTag(TagAt(k) + 1) = TagAt(k + 1)
         /\ WrapIfGain(GainAt(k)) = GainAt(k)
         /\ GainAt(0) = args.startIfGain /\ TagAt(0) = args.startTag
<1>1. /\ args.startIfGain \in Int /\ args.endIfGain \in Int
      /\ args.startTag \in Int /\ args.endTag \in Int
  BY ArgumentsAreTyped
<1>2. /\ args.startIfGain < IntMax /\ args.endIfGain < IntMax
      /\ args.startTag < IntMax /\ args.endTag < IntMax
  BY DEF NoOverflow, CoordTypeOK
<1>3. /\ GainAt(0) = args.startIfGain /\ GainAt(k) \in Int
      /\ GainAt(k) = args.startIfGain \/ GainAt(k) <= args.endIfGain
      /\ GainAt(k + 1) = IF GainAt(k) + 1 > args.endIfGain THEN args.startIfGain ELSE GainAt(k) + 1
  BY <1>1, CycleSuccessor DEF GainAt
<1>4. /\ TagAt(0) = args.startTag /\ TagAt(k) \in Int
      /\ TagAt(k) = args.startTag \/ TagAt(k) <= args.endTag
      /\ TagAt(k + 1) = IF TagAt(k) + 1 > args.endTag THEN args.startTag ELSE TagAt(k) + 1
  BY <1>1, CycleSuccessor DEF TagAt
<1>5. Incremented(GainAt(k)) = {GainAt(k) + 1} /\ Incremented(TagAt(k)) = {TagAt(k) + 1}
  BY <1>1, <1>2, <1>3, <1>4, IntMaxAssumption DEF Incremented
<1>6. WrapIfGain(GainAt(k)) = GainAt(k)
  BY <1>1, <1>3 DEF WrapIfGain
<1>. QED
  BY <1>3, <1>4, <1>5, <1>6 DEF WrapIfGain, WrapTag

(* Both counters start at the start of their ranges.                        *)
LEMMA CounterInit ==
  ASSUME NoOverflow
  PROVE  Init => CounterInv /\ ConsoleInv
<1>. SUFFICES ASSUME Init PROVE CounterInv /\ ConsoleInv
  OBVIOUS
<1>1. CoordTypeOK
  BY TypeInit DEF TypeOK
<1>2. /\ coordPc = "off" /\ announced = << >> /\ ifGain = args.startIfGain /\ tag = args.startTag
  BY DEF Init, CoordInit
<1>3. GainAt(0) = ifGain /\ TagAt(0) = tag /\ WrapIfGain(ifGain) = ifGain
  BY <1>1, <1>2, NextOfCycle
<1>. QED
  BY <1>2, <1>3 DEF CounterInv, ConsoleInv, One, Announcing

(* The counters and the console do what the abstract campaign says.         *)
LEMMA CounterStep ==
  ASSUME NoFaults, NoOverflow, ProtocolInv, CaptureIsOurs, LoopInv, LoopInv', AllOnQueue, CounterInv, ConsoleInv,
         [Next]_vars
  PROVE  CounterInv' /\ ConsoleInv'
<1>0. /\ CoordTypeOK /\ args.automatic \in BOOLEAN
      /\ announced \in Seq([tag : Int, gain : Int]) /\ Len(announced) \in Nat
  BY FileTypes DEF ProtocolInv, TypeOK
<1>. DEFINE n == Len(announced)
<1>1. CASE UNCHANGED coordVars
  BY <1>1 DEF coordVars, CounterInv, ConsoleInv, Announcing, GainAt, TagAt, WrapIfGain
<1>2. CASE UNCHANGED <<args, ifGain, tag, announced>> /\ (LaunchCoordinator \/ UserStep)
  <2>1. /\ ~Announcing /\ ~Announcing'
        /\ coordPc' = "sendGain" /\ args.automatic => coordPc = "off"
        /\ coordPc # "sendGain"
    BY <1>2 DEF LaunchCoordinator, LoopEntry, UserStep, UserMeasure, UserExit,
       UserEndOfInput, Announcing, LoopInv
  <2>2. coordPc = "off" => tag = TagAt(n)
    BY <1>0, NextOfCycle DEF CaptureIsOurs
  <2>3. CounterInv'
    BY <1>2, <2>1, <2>2 DEF CounterInv, Announcing, GainAt, TagAt, WrapIfGain
  <2>. QED
    BY <1>2, <2>3 DEF ConsoleInv, GainAt, TagAt
<1>3. CASE SendIfGain
  <2>1. /\ coordPc = "sendGain" /\ coordPc' = "gainAck"
        /\ announced' = Append(announced, [tag |-> tag, gain |-> ifGain])
        /\ UNCHANGED <<args, ifGain, tag>>
    BY <1>3, CallsSucceed DEF SendIfGain, AllOnQueue
  <2>2. /\ Len(announced') = n + 1 /\ announced'[n + 1] = [tag |-> tag, gain |-> ifGain]
        /\ \A k \in 1 .. n : announced'[k] = announced[k]
    BY <1>0, <2>1
  <2>3. tag = TagAt(n) /\ ifGain = GainAt(n)
    <3>1. coordPc = "sendGain" /\ ~Announcing
      BY <2>1 DEF Announcing
    <3>. QED
      BY <3>1 DEF CounterInv
  <2>4. CounterInv'
    BY <1>0, <2>1, <2>2, <2>3 DEF CounterInv, Announcing, GainAt, TagAt, WrapIfGain
  <2>5. ConsoleInv'
    BY <1>0, <2>1, <2>2, <2>3 DEF ConsoleInv, GainAt, TagAt
  <2>. QED
    BY <2>4, <2>5
<1>4. CASE RadioAckArrives
  <2>1. /\ coordPc = "gainAck" /\ coordPc' = "sendPower" /\ UNCHANGED <<args, tag, announced>>
        /\ \E next \in Incremented(ifGain) : ifGain' = IF args.automatic THEN next ELSE WrapIfGain(next)
    BY <1>4 DEF RadioAckArrives, GainLegDone
  <2>2. ifGain = GainAt(n - 1) /\ n > 0 /\ n - 1 \in Nat /\ (n - 1) + 1 = n
    BY <1>0, <2>1 DEF CounterInv, Announcing
  <2>3. /\ Incremented(ifGain) = {ifGain + 1} /\ WrapIfGain(ifGain + 1) = GainAt(n)
        /\ WrapIfGain(GainAt(n)) = GainAt(n)
    BY <1>0, <2>2, NextOfCycle
  <2>4. /\ ~args.automatic => ifGain' = GainAt(n)
        /\ WrapIfGain(ifGain') = GainAt(n)
    BY <2>1, <2>3
  <2>5. CounterInv'
    BY <2>1, <2>2, <2>4 DEF CounterInv, Announcing, GainAt, TagAt, WrapIfGain
  <2>. QED
    BY <2>1, <2>5 DEF ConsoleInv, GainAt, TagAt
<1>5. CASE SendPower
  <2>1. coordPc = "sendPower" /\ coordPc' = "powerAck" /\ UNCHANGED <<args, ifGain, tag, announced>>
    BY <1>5, CallsSucceed DEF SendPower, AllOnQueue
  <2>2. CounterInv'
    BY <2>1 DEF CounterInv, Announcing, GainAt, TagAt, WrapIfGain
  <2>. QED
    BY <2>1, <2>2 DEF ConsoleInv, GainAt, TagAt
<1>6. CASE SpectrumAckArrives
  <2>1. coordPc = "powerAck" /\ PowerLegDone(TRUE)
    BY <1>6, CallsSucceed DEF SpectrumAckArrives, AllOnQueue
  <2>2. UNCHANGED <<args, announced>> /\ coordPc' \in {"sendGain", "sendTermRadio", "prompt"}
    BY <2>1 DEF PowerLegDone, LoopEntry
  <2>3. /\ tag = TagAt(n - 1) /\ WrapIfGain(ifGain) = GainAt(n) /\ (~args.automatic => ifGain = GainAt(n))
        /\ n > 0 /\ n - 1 \in Nat /\ (n - 1) + 1 = n
    <3>1. coordPc = "powerAck" /\ Announcing
      BY <2>1 DEF Announcing
    <3>2. /\ n > 0 /\ tag = TagAt(n - 1) /\ WrapIfGain(ifGain) = GainAt(n)
          /\ ~args.automatic => ifGain = GainAt(n)
      BY <3>1 DEF CounterInv
    <3>3. n - 1 \in Nat /\ (n - 1) + 1 = n
      BY <1>0, <3>2
    <3>. QED
      BY <3>2, <3>3
  <2>4. Incremented(tag) = {tag + 1} /\ WrapTag(tag + 1) = TagAt(n)
    BY <1>0, <2>3, NextOfCycle
  <2>5. ifGain' = GainAt(n)
    BY <2>1, <2>3 DEF PowerLegDone
  <2>6. ~args.automatic => tag' = TagAt(n) /\ coordPc' = "prompt"
    BY <2>1, <2>4 DEF PowerLegDone
  <2>7. args.automatic /\ coordPc' = "sendGain" => tag' = TagAt(n)
    <3>1. args.automatic => tag' = tag + 1 /\ coordPc' = LoopEntry(tag + 1)
      BY <2>1, <2>4 DEF PowerLegDone
    <3>2. LoopEntry(tag + 1) = "sendGain" => WrapTag(tag + 1) = tag + 1
      <4>1. tag \in Int /\ args.endTag \in Int
        BY <1>0, ArgumentsAreTyped DEF CoordTypeOK
      <4>. QED
        BY <4>1 DEF LoopEntry, WrapTag
    <3>. QED
      BY <2>4, <3>1, <3>2
  <2>8. CounterInv'
    BY <2>2, <2>5, <2>6, <2>7, <1>0 DEF CounterInv, Announcing, GainAt, TagAt, WrapIfGain
  <2>. QED
    BY <2>2, <2>8 DEF ConsoleInv, GainAt, TagAt
<1>7. CASE TerminateRadioServer \/ TerminateSpectrumServer \/ DestroyQueue
  <2>1. /\ UNCHANGED <<args, ifGain, tag, announced>> /\ ~Announcing /\ ~Announcing'
        /\ coordPc' # "sendGain" /\ coordPc # "sendGain"
    BY <1>7 DEF TerminateRadioServer, TerminateSpectrumServer, DestroyQueue, Announcing
  <2>2. CounterInv'
    BY <2>1 DEF CounterInv, Announcing, GainAt, TagAt, WrapIfGain
  <2>. QED
    BY <2>1, <2>2 DEF ConsoleInv, GainAt, TagAt
<1>8. LaunchCoordinator \/ UserStep => UNCHANGED <<args, ifGain, tag, announced>>
  BY DEF LaunchCoordinator, UserStep, UserMeasure, UserExit, UserEndOfInput
<1>. QED
  BY <1>1, <1>2, <1>3, <1>4, <1>5, <1>6, <1>7, <1>8, FileSteps
  DEF Coordinating, UserActs, CoordinatorStep, PowerCommandRead, RecordWritten, FileQuiet

-----------------------------------------------------------------------------
(* The tester implements the abstract campaign.                             *)

(* At the start.                                                            *)
LEMMA CampaignInit ==
  ASSUME NoFaults, NoOverflow
  PROVE  Init => CampaignInv
BY MeasurementInit, FileInit, AllOnQueueInit, FileInStepInit, CounterInit DEF CampaignInv

(* Without faults no send is lost and no answer is late; and no tag reaches *)
(* INT_MAX if no counter does.                                              *)
LEMMA WeakerConditions ==
  /\ NoFaults => NoLostSendNoLateReply
  /\ NoOverflow => NoTagOverflow
BY DEF NoFaults, NoLostSendNoLateReply, NoOverflow, NoTagOverflow

(* At every step.                                                           *)
LEMMA CampaignStep ==
  ASSUME NoFaults, NoOverflow
  PROVE  CampaignInv /\ [Next]_vars => CampaignInv'
<1>. SUFFICES ASSUME CampaignInv, [Next]_vars PROVE CampaignInv'
  OBVIOUS
<1>1. /\ MeasurementInv /\ FileInv /\ AllOnQueue /\ FileInStep /\ CounterInv /\ ConsoleInv
      /\ ProtocolInv /\ CaptureIsOurs /\ LoopInv
  BY DEF CampaignInv, FileInv
<1>2. MeasurementInv'
  BY <1>1, WeakerConditions, MeasurementStep
<1>3. FileInv'
  BY <1>1, WeakerConditions, FileStep
<1>4. AllOnQueue' /\ FileInStep'
  BY <1>1, <1>2, AllOnQueueStep, FileInStepStep
<1>5. CounterInv' /\ ConsoleInv'
  BY <1>1, <1>3, CounterStep DEF FileInv
<1>. QED
  BY <1>2, <1>3, <1>4, <1>5 DEF CampaignInv

(* A record that the pipeline writes is the one the abstract campaign       *)
(* writes next.                                                             *)
LEMMA RecordImplementsRecord ==
  ASSUME CampaignInv, RecordWritten
  PROVE  Campaign!Record
<1>. DEFINE n == Len(results)
<1>0. /\ ProtocolInv /\ FileInStep /\ AllOnQueue /\ CaptureInv /\ LoopInv /\ ConsoleInv
      /\ specPc = "capture" /\ samples # {}
      /\ results' = Append(results, [tag |-> spectrumTag, gains |-> samples])
      /\ UNCHANGED args
  BY DEF CampaignInv, MeasurementInv, GainInv, FileInv, RecordWritten, coordVars
<1>1. /\ coordPc = "powerAck" /\ ~Commanded /\ spectrumTag = tag /\ AtGainOfLastRound
  BY <1>0, WhileMeasuring DEF FileInStep
<1>2. /\ n \in Nat /\ Len(announced) \in Nat /\ args.startTag \in Int /\ args.endTag \in Int
      /\ tag \in Int
  BY <1>0, FileTypes
<1>3. Len(announced) = n + 1
  BY <1>0, <1>1, <1>2 DEF FileInStep, One
<1>4. samples = {radioGain}
  BY <1>0 DEF CaptureInv
<1>5. spectrumTag = TagAt(n) /\ radioGain = GainAt(n)
  <2>1. announced[n + 1] = [tag |-> tag, gain |-> radioGain]
    BY <1>1, <1>3 DEF AtGainOfLastRound
  <2>2. n + 1 \in 1 .. Len(announced) /\ (n + 1) - 1 = n
    BY <1>2, <1>3
  <2>3. announced[n + 1] = [tag |-> TagAt(n), gain |-> GainAt(n)]
    BY <1>0, <2>2 DEF ConsoleInv
  <2>. QED
    BY <1>1, <2>1, <2>3
<1>6. [tag |-> spectrumTag, gains |-> samples] = Campaign!RecordAt(n)
  BY <1>4, <1>5 DEF Campaign!RecordAt, TagAt, GainAt
<1>7. ~Campaign!Finished
  <2>. SUFFICES ASSUME args.automatic PROVE n < args.endTag - args.startTag + 1
    BY <1>2 DEF Campaign!Finished
  <2>1. tag <= args.endTag /\ Len(announced) = tag - args.startTag + 1
    BY <1>0, <1>1 DEF LoopInv, InRound, Announcing, One
  <2>. QED
    BY <1>2, <1>3, <2>1
<1>. QED
  BY <1>0, <1>6, <1>7 DEF Campaign!Record

(* Without faults, and with counters that stay below INT_MAX, the output    *)
(* file is at every time one that the abstract campaign may have written.   *)
THEOREM ImplementsTestCampaign ==
  ASSUME NoFaults, NoOverflow
  PROVE  Spec => Campaign!Spec
<1>1. Init => Campaign!Init
  BY DEF Init, SpectrumInit, Campaign!Init
<1>2. CampaignInv /\ [Next]_vars => [Campaign!Record]_<<args, results>>
  <2>. SUFFICES ASSUME CampaignInv, [Next]_vars
                PROVE  Campaign!Record \/ UNCHANGED <<args, results>>
    OBVIOUS
  <2>1. ProtocolInv
    BY DEF CampaignInv, FileInv
  <2>2. (Coordinating \/ UserActs) /\ UNCHANGED spectrumVars => UNCHANGED <<args, results>>
    BY CoordinatorMoves DEF spectrumVars
  <2>3. PowerCommandRead \/ FileQuiet => UNCHANGED <<args, results>>
    BY DEF PowerCommandRead, FileQuiet, coordVars
  <2>. QED
    BY <2>1, <2>2, <2>3, FileSteps, RecordImplementsRecord
<1>3. Init => CampaignInv
  BY CampaignInit
<1>4. CampaignInv /\ [Next]_vars => CampaignInv'
  BY CampaignStep
<1>. QED
  BY <1>1, <1>2, <1>3, <1>4, PTL DEF Spec, Campaign!Spec

(* Without faults the console is at most one round ahead of the file, and   *)
(* between two rounds it is not ahead at all.                               *)
THEOREM LockStepHolds ==
  ASSUME NoFaults
  PROVE  Spec => []LockStep
<1>. DEFINE Inv == MeasurementInv /\ AllOnQueue /\ FileInStep
<1>1. Inv => LockStep
  <2>. SUFFICES ASSUME Inv PROVE LockStep
    OBVIOUS
  <2>1. /\ ProtocolInv
        /\ Len(results) + One(specPc = "capture") + One(Commanded) = Len(announced)
    BY DEF MeasurementInv, FileInStep
  <2>2. Len(results) \in Nat /\ Len(announced) \in Nat
    BY <2>1, FileTypes
  <2>3. One(specPc = "capture") + One(Commanded) \in {0, 1}
    BY <2>1, WhileMeasuring DEF One
  <2>4. One(specPc = "capture") \in {0, 1} /\ One(Commanded) \in {0, 1}
    BY DEF One
  <2>5. coordPc \notin {"gainAck", "sendPower", "powerAck"}
          => One(specPc = "capture") = 0 /\ One(Commanded) = 0
    BY DEF FileInStep, Commanded, One
  <2>. QED
    BY <2>1, <2>2, <2>3, <2>4, <2>5 DEF LockStep
<1>2. Init => Inv
  BY MeasurementInit, AllOnQueueInit, FileInStepInit
<1>3. Inv /\ [Next]_vars => Inv'
  <2>. SUFFICES ASSUME MeasurementInv, AllOnQueue, FileInStep, [Next]_vars PROVE Inv'
    OBVIOUS
  <2>1. MeasurementInv'
    BY WeakerConditions, MeasurementStep
  <2>2. AllOnQueue'
    BY AllOnQueueStep DEF MeasurementInv
  <2>. QED
    BY <2>1, <2>2, FileInStepStep
<1>. QED
  BY <1>1, <1>2, <1>3, PTL DEF Spec

=============================================================================
