---------------------------- MODULE RestartsProofs ----------------------------
(***************************************************************************)
(* Theorems about Restarts, for every set of command lines, of faults and  *)
(* of kill points their statements admit, and for any number of kills and  *)
(* of launches.                                                            *)
(***************************************************************************)
EXTENDS RestartsInvariant, TunerTesterProofs, FiniteSetTheorems

-----------------------------------------------------------------------------
(* The steps, and type correctness.                                         *)

(* A step of Restarts is one of TunerTester, which leaves what outlives the *)
(* programs alone, or one of those that Restarts adds.                      *)
LEMMA RestartCases ==
  ASSUME [RestartNext]_allVars
  PROVE  \/ [Next]_vars /\ UNCHANGED restartVars
         \/ RelaunchCoordinator \/ RelaunchRadioServer \/ RelaunchSpectrumServer
         \/ KillCoordinator \/ KillRadioServer \/ KillSpectrumServer
         \/ OrphanStreams \/ OrphanMeasures \/ OrphanHoldsPort
BY DEF RestartNext, allVars, CoordinatorGoesOn, RadioServerGoesOn, SpectrumServerGoesOn, Kill, Next

(* The pipelines that are left behind, one of them changed, one of them     *)
(* gone, are pipelines.                                                     *)
LEMMA OrphansAreRecords ==
  ASSUME NEW s \in Seq(OutputRecord)
  PROVE  /\ \A record \in OutputRecord : Append(s, record) \in Seq(OutputRecord)
         /\ \A i \in DOMAIN s : \A g \in Int :
              [s EXCEPT ![i].gains = @ \cup {g}] \in Seq(OutputRecord)
         /\ \A i \in DOMAIN s : RemoveAt(s, i) \in Seq(OutputRecord)
<1>1. ASSUME NEW i \in DOMAIN s, NEW g \in Int
      PROVE  [s EXCEPT ![i].gains = @ \cup {g}] \in Seq(OutputRecord)
  <2>1. s[i] \in OutputRecord
    OBVIOUS
  <2>2. [s[i] EXCEPT !.gains = @ \cup {g}] \in OutputRecord
    BY <2>1 DEF OutputRecord
  <2>. QED
    BY <2>2
<1>2. ASSUME NEW i \in DOMAIN s PROVE RemoveAt(s, i) \in Seq(OutputRecord)
  <2>1. SubSeq(s, 1, i - 1) \in Seq(OutputRecord) /\ SubSeq(s, i + 1, Len(s)) \in Seq(OutputRecord)
    BY SubSeqProperties
  <2>. QED
    BY <2>1, ConcatProperties DEF RemoveAt
<1>. QED
  BY <1>1, <1>2

(* At the start.                                                            *)
LEMMA RestartTypeInit == RestartInit => RestartTypeOK
<1>. SUFFICES ASSUME RestartInit PROVE RestartTypeOK
  OBVIOUS
<1>1. TypeOK
  BY TypeInit DEF RestartInit
<1>2. kills \in 0 .. MaxKills /\ launches \in 1 .. MaxLaunches
  BY KillBoundsAssumption DEF RestartInit
<1>3. logbook \in Seq([tag : Int, gain : Int])
  BY DEF RestartInit
<1>4. orphans \in Seq(OutputRecord)
  BY DEF RestartInit
<1>5. commandLost \in BOOLEAN
  BY DEF RestartInit
<1>. QED
  BY <1>1, <1>2, <1>3, <1>4, <1>5 DEF RestartTypeOK

(* No kill, no launch and no orphan takes a variable out of its type.       *)
LEMMA RestartTypeStep == RestartTypeOK /\ [RestartNext]_allVars => RestartTypeOK'
<1>. SUFFICES ASSUME RestartTypeOK, [RestartNext]_allVars PROVE RestartTypeOK'
  OBVIOUS
<1>0. /\ TypeOK /\ kills \in 0 .. MaxKills /\ launches \in 1 .. MaxLaunches
      /\ logbook \in Seq([tag : Int, gain : Int]) /\ announced \in Seq([tag : Int, gain : Int])
      /\ orphans \in Seq(OutputRecord) /\ results \in Seq(OutputRecord)
      /\ commandLost \in BOOLEAN
      /\ QueueTypeOK /\ LinkTypeOK /\ CoordTypeOK /\ RadioTypeOK /\ SpectrumTypeOK
      /\ lastId \in Nat /\ radioGain \in Int
      /\ MaxKills \in Nat /\ MaxLaunches \in Nat \ {0}
  BY KillBoundsAssumption DEF RestartTypeOK, TypeOK, CoordTypeOK, SpectrumTypeOK,
     QueueTypeOK, LinkTypeOK
<1>1. CASE [Next]_vars /\ UNCHANGED restartVars
  BY <1>0, <1>1, TypeStep DEF RestartTypeOK, restartVars
<1>2. CASE RelaunchCoordinator
  <2>1. CoordTypeOK'
    BY <1>0, <1>2, ArgSetAssumption
       DEF RelaunchCoordinator, queueVars, CoordTypeOK, CoordPc, Arguments, NoQueue
  <2>2. QueueTypeOK' /\ LinkTypeOK' /\ RadioTypeOK' /\ SpectrumTypeOK'
    BY <1>0, <1>2 DEF RelaunchCoordinator, queueVars, linkVars, diagsVars, radioVars, spectrumVars,
       QueueTypeOK, LinkTypeOK, RadioTypeOK, SpectrumTypeOK
  <2>3. logbook' \in Seq([tag : Int, gain : Int])
    BY <1>0, <1>2, ConcatProperties DEF RelaunchCoordinator, console
  <2>. QED
    BY <1>0, <1>2, <2>1, <2>2, <2>3 DEF RelaunchCoordinator, RestartTypeOK, TypeOK
<1>3. CASE RelaunchRadioServer
  <2>1. RadioTypeOK'
    BY <1>0, <1>3 DEF RelaunchRadioServer, queueVars, RadioTypeOK, RadioPc, NoQueue, SetupLength,
       Command, RadioCommands, Verb
  <2>2. LinkTypeOK'
    BY <1>0, <1>3 DEF RelaunchRadioServer, diagsVars, LinkTypeOK
  <2>3. QueueTypeOK' /\ CoordTypeOK' /\ SpectrumTypeOK'
    BY <1>0, <1>3 DEF RelaunchRadioServer, queueVars, coordVars, spectrumVars,
       QueueTypeOK, CoordTypeOK, SpectrumTypeOK
  <2>. QED
    BY <1>0, <1>3, <2>1, <2>2, <2>3 DEF RelaunchRadioServer, restartVars, RestartTypeOK, TypeOK
<1>4. CASE RelaunchSpectrumServer
  <2>1. SpectrumTypeOK'
    BY <1>0, <1>4 DEF RelaunchSpectrumServer, queueVars, SpectrumTypeOK, SpecPc, NoQueue
  <2>2. QueueTypeOK' /\ LinkTypeOK' /\ CoordTypeOK' /\ RadioTypeOK'
    BY <1>0, <1>4 DEF RelaunchSpectrumServer, queueVars, linkVars, diagsVars, radioVars, coordVars,
       QueueTypeOK, LinkTypeOK, CoordTypeOK, RadioTypeOK
  <2>. QED
    BY <1>0, <1>4, <2>1, <2>2 DEF RelaunchSpectrumServer, restartVars, RestartTypeOK, TypeOK
<1>5. CASE KillCoordinator
  <2>1. CoordTypeOK'
    BY <1>0, <1>5 DEF KillCoordinator, queueVars, CoordTypeOK, CoordPc
  <2>2. QueueTypeOK' /\ LinkTypeOK' /\ RadioTypeOK' /\ SpectrumTypeOK'
    BY <1>0, <1>5 DEF KillCoordinator, queueVars, linkVars, diagsVars, radioVars, spectrumVars,
       QueueTypeOK, LinkTypeOK, RadioTypeOK, SpectrumTypeOK
  <2>. QED
    BY <1>0, <1>5, <2>1, <2>2 DEF KillCoordinator, Killed, RestartTypeOK, TypeOK
<1>6. CASE KillRadioServer
  <2>1. RadioTypeOK'
    BY <1>0, <1>6 DEF KillRadioServer, queueVars, RadioTypeOK, RadioPc
  <2>2. LinkTypeOK'
    <3>1. connected' = FALSE /\ fromRadio' = 0 /\ peerUp' = peerUp /\ toRadio' \in Seq(RadioCommands)
      BY <1>0, <1>6, DisconnectEffect DEF KillRadioServer
    <3>. QED
      BY <1>0, <1>6, <3>1 DEF KillRadioServer, diagsVars, LinkTypeOK
  <2>3. QueueTypeOK' /\ CoordTypeOK' /\ SpectrumTypeOK'
    BY <1>0, <1>6 DEF KillRadioServer, queueVars, coordVars, spectrumVars,
       QueueTypeOK, CoordTypeOK, SpectrumTypeOK
  <2>4. commandLost' \in BOOLEAN
    BY <1>6 DEF KillRadioServer
  <2>. QED
    BY <1>0, <1>6, <2>1, <2>2, <2>3, <2>4 DEF KillRadioServer, Killed, RestartTypeOK, TypeOK
<1>7. CASE KillSpectrumServer
  <2>1. SpectrumTypeOK'
    BY <1>0, <1>7 DEF KillSpectrumServer, queueVars, SpectrumTypeOK, SpecPc
  <2>2. QueueTypeOK' /\ LinkTypeOK' /\ CoordTypeOK' /\ RadioTypeOK'
    BY <1>0, <1>7 DEF KillSpectrumServer, queueVars, linkVars, diagsVars, radioVars, coordVars,
       QueueTypeOK, LinkTypeOK, CoordTypeOK, RadioTypeOK
  <2>3. [tag |-> spectrumTag, gains |-> samples] \in OutputRecord
    BY <1>0 DEF SpectrumTypeOK, OutputRecord
  <2>4. orphans' \in Seq(OutputRecord)
    BY <1>0, <1>7, <2>3, OrphansAreRecords DEF KillSpectrumServer
  <2>5. commandLost' \in BOOLEAN
    BY <1>7 DEF KillSpectrumServer
  <2>. QED
    BY <1>0, <1>7, <2>1, <2>2, <2>4, <2>5 DEF KillSpectrumServer, Killed, RestartTypeOK, TypeOK
<1>8. CASE OrphanStreams
  <2>1. PICK i \in DOMAIN orphans : orphans' = [orphans EXCEPT ![i].gains = @ \cup {radioGain}]
    BY <1>8 DEF OrphanStreams
  <2>2. orphans' \in Seq(OutputRecord)
    BY <1>0, <2>1, OrphansAreRecords
  <2>3. TypeOK'
    BY <1>0, <1>8, TypeStep DEF OrphanStreams
  <2>. QED
    BY <1>0, <1>8, <2>2, <2>3 DEF OrphanStreams, RestartTypeOK
<1>9. CASE OrphanMeasures
  <2>1. PICK i \in DOMAIN orphans : results' = Append(results, orphans[i]) /\ orphans' = RemoveAt(orphans, i)
    BY <1>9 DEF OrphanMeasures
  <2>2. orphans' \in Seq(OutputRecord)
    BY <1>0, <2>1, OrphansAreRecords
  <2>3. results' \in Seq(OutputRecord)
    BY <1>0, <2>1, OrphansAreRecords
  <2>4. SpectrumTypeOK'
    BY <1>0, <1>9, <2>3 DEF OrphanMeasures, queueVars, SpectrumTypeOK
  <2>5. QueueTypeOK' /\ LinkTypeOK' /\ CoordTypeOK' /\ RadioTypeOK'
    BY <1>0, <1>9 DEF OrphanMeasures, queueVars, linkVars, diagsVars, radioVars, coordVars,
       QueueTypeOK, LinkTypeOK, CoordTypeOK, RadioTypeOK
  <2>. QED
    BY <1>0, <1>9, <2>2, <2>4, <2>5 DEF OrphanMeasures, RestartTypeOK, TypeOK
<1>10. CASE OrphanHoldsPort
  <2>1. SpectrumTypeOK'
    BY <1>0, <1>10 DEF OrphanHoldsPort, queueVars, SpectrumTypeOK, SpecPc
  <2>2. QueueTypeOK' /\ LinkTypeOK' /\ CoordTypeOK' /\ RadioTypeOK'
    BY <1>0, <1>10 DEF OrphanHoldsPort, queueVars, linkVars, diagsVars, radioVars, coordVars,
       QueueTypeOK, LinkTypeOK, CoordTypeOK, RadioTypeOK
  <2>. QED
    BY <1>0, <1>10, <2>1, <2>2 DEF OrphanHoldsPort, restartVars, RestartTypeOK, TypeOK
<1>. QED
  BY <1>1, <1>2, <1>3, <1>4, <1>5, <1>6, <1>7, <1>8, <1>9, <1>10, RestartCases

(* Whichever programs are killed and launched again, wherever they are, and *)
(* whatever the faults: every variable keeps its type, what dead programs   *)
(* leave behind included.                                                   *)
THEOREM RestartTypeCorrectness == RestartSpec => []RestartTypeOK
BY RestartTypeInit, RestartTypeStep, PTL DEF RestartSpec

-----------------------------------------------------------------------------
(* What dead programs leave behind.                                         *)

(* What waits after a message was sent or received.                         *)
LEMMA WaitingChanges ==
  ASSUME QueueTypeOK, NEW id, NEW type \in MessageType
  PROVE  /\ RadioWaiting \in Nat /\ SpectrumWaiting \in Nat
         /\ \A body \in Body : SendData(id, type, body) =>
              /\ Attached(id) /\ qid' = qid
              /\ IF type \in {RadioServerTypeCmd, RadioServerTypeAck}
                 THEN RadioWaiting' = RadioWaiting + 1 /\ SpectrumWaiting' = SpectrumWaiting
                 ELSE RadioWaiting' = RadioWaiting /\ SpectrumWaiting' = SpectrumWaiting + 1
         /\ ReceiveData(id, type) =>
              /\ Attached(id) /\ qid' = qid
              /\ IF type \in {RadioServerTypeCmd, RadioServerTypeAck}
                 THEN RadioWaiting' = RadioWaiting - 1 /\ SpectrumWaiting' = SpectrumWaiting
                 ELSE RadioWaiting' = RadioWaiting /\ SpectrumWaiting' = SpectrumWaiting - 1
<1>. USE MessagesAreTyped, DistinctTypes
<1>1. \A t \in MessageType : queue[t] \in Seq(Body) /\ Len(queue[t]) \in Nat
  BY DEF QueueTypeOK
<1>2. ASSUME NEW body \in Body, SendData(id, type, body)
      PROVE  /\ Attached(id) /\ qid' = qid
             /\ Len(queue'[type]) = Len(queue[type]) + 1
             /\ \A other \in MessageType : other # type => Len(queue'[other]) = Len(queue[other])
  BY <1>1, <1>2, SendDataEffect
<1>3. ASSUME ReceiveData(id, type)
      PROVE  /\ Attached(id) /\ qid' = qid
             /\ Len(queue'[type]) = Len(queue[type]) - 1
             /\ \A other \in MessageType : other # type => Len(queue'[other]) = Len(queue[other])
  <2>1. /\ Attached(id) /\ qid' = qid /\ queue[type] # << >>
        /\ queue'[type] = Tail(queue[type])
        /\ \A other \in MessageType : other # type => queue'[other] = queue[other]
    BY <1>3, ReceiveDataEffect
  <2>2. Len(Tail(queue[type])) = Len(queue[type]) - 1
    BY <1>1, <2>1
  <2>. QED
    BY <2>1, <2>2
<1>. DEFINE n(t) == Len(queue[t])
<1>4. /\ RadioWaiting = n(RadioServerTypeCmd) + n(RadioServerTypeAck)
      /\ SpectrumWaiting = n(SpectrumServerTypeCmd) + n(SpectrumServerTypeAck)
      /\ RadioWaiting' = n(RadioServerTypeCmd)' + n(RadioServerTypeAck)'
      /\ SpectrumWaiting' = n(SpectrumServerTypeCmd)' + n(SpectrumServerTypeAck)'
  BY DEF RadioWaiting, SpectrumWaiting
<1>5. \A t \in MessageType : n(t) \in Nat
  BY <1>1
<1>6. ASSUME NEW body \in Body, SendData(id, type, body)
      PROVE  /\ Attached(id) /\ qid' = qid
             /\ n(type)' = n(type) + 1
             /\ \A other \in MessageType : other # type => n(other)' = n(other)
  BY <1>2, <1>6
<1>7. ASSUME ReceiveData(id, type)
      PROVE  /\ Attached(id) /\ qid' = qid
             /\ n(type)' = n(type) - 1
             /\ \A other \in MessageType : other # type => n(other)' = n(other)
  BY <1>3, <1>7
<1>. HIDE DEF n
<1>8. RadioWaiting \in Nat /\ SpectrumWaiting \in Nat
  BY <1>4, <1>5
<1>9. CASE type \in {RadioServerTypeCmd, RadioServerTypeAck}
  BY <1>4, <1>5, <1>6, <1>7, <1>8, <1>9
<1>10. CASE type \in {SpectrumServerTypeCmd, SpectrumServerTypeAck}
  BY <1>4, <1>5, <1>6, <1>7, <1>8, <1>10
<1>. QED
  BY <1>9, <1>10

(* Where no message is, none waits.                                         *)
LEMMA NothingWaits ==
  /\ (\A type \in MessageType : queue[type] = << >>) => RadioWaiting = 0 /\ SpectrumWaiting = 0
  /\ (\A type \in MessageType : queue'[type] = << >>) => RadioWaiting' = 0 /\ SpectrumWaiting' = 0
<1>1. ASSUME \A type \in MessageType : queue[type] = << >>
      PROVE  RadioWaiting = 0 /\ SpectrumWaiting = 0
  <2>1. /\ queue[RadioServerTypeCmd] = << >> /\ queue[RadioServerTypeAck] = << >>
        /\ queue[SpectrumServerTypeCmd] = << >> /\ queue[SpectrumServerTypeAck] = << >>
    BY <1>1, MessagesAreTyped
  <2>2. /\ Len(queue[RadioServerTypeCmd]) = 0 /\ Len(queue[RadioServerTypeAck]) = 0
        /\ Len(queue[SpectrumServerTypeCmd]) = 0 /\ Len(queue[SpectrumServerTypeAck]) = 0
    BY <2>1
  <2>. QED
    BY <2>2 DEF RadioWaiting, SpectrumWaiting
<1>2. ASSUME \A type \in MessageType : queue'[type] = << >>
      PROVE  RadioWaiting' = 0 /\ SpectrumWaiting' = 0
  <2>1. /\ queue'[RadioServerTypeCmd] = << >> /\ queue'[RadioServerTypeAck] = << >>
        /\ queue'[SpectrumServerTypeCmd] = << >> /\ queue'[SpectrumServerTypeAck] = << >>
    BY <1>2, MessagesAreTyped
  <2>2. /\ Len(queue'[RadioServerTypeCmd]) = 0 /\ Len(queue'[RadioServerTypeAck]) = 0
        /\ Len(queue'[SpectrumServerTypeCmd]) = 0 /\ Len(queue'[SpectrumServerTypeAck]) = 0
    BY <2>1
  <2>. QED
    BY <2>2 DEF RadioWaiting, SpectrumWaiting
<1>. QED
  BY <1>1, <1>2

(* What counts as one, and what as none.                                    *)
LEMMA ShareValues ==
  /\ RadioAtWork \in 0 .. 1 /\ SpectrumAtWork \in 0 .. 1
  /\ RadioShare \in 0 .. 1 /\ SpectrumShare \in 0 .. 1
  /\ RadioAtWork' \in 0 .. 1 /\ SpectrumAtWork' \in 0 .. 1
  /\ RadioShare' \in 0 .. 1 /\ SpectrumShare' \in 0 .. 1
BY DEF RadioAtWork, SpectrumAtWork, RadioShare, SpectrumShare, ShareUsed, One

(* The messages fit when there are none.                                    *)
LEMMA FitsWhenEmpty == \A k, s \in Nat : Fits(0, 0, k, s)
BY DEF Fits

(* They still fit when there are fewer, or when there is more room.         *)
LEMMA FitsMonotone ==
  \A w, a, k, s \in Int : \A w1, a1, k1, s1 \in Int :
    Fits(w, a, k, s) /\ w1 <= w /\ a1 <= a /\ k <= k1 /\ s <= s1 => Fits(w1, a1, k1, s1)
BY DEF Fits

(* A command is sent, a server takes it and answers it, the answer is       *)
(* received; the coordinator that waits for it is killed.                   *)
LEMMA FitsAlong ==
  \A w, a, k, s \in Int : Fits(w, a, k, s) =>
    /\ Fits(w + 1, a, k, s + 1)
    /\ Fits(w - 1, a, k, s - 1)
    /\ Fits(w - 1, a + 1, k, s)
    /\ Fits(w + 1, a - 1, k, s)
    /\ Fits(w, a, k + 1, s - 1)
BY DEF Fits

(* At the start.                                                            *)
LEMMA SharesInit == RestartInit => SharesInv
<1>. SUFFICES ASSUME RestartInit PROVE SharesInv
  OBVIOUS
<1>1. RestartTypeOK
  BY RestartTypeInit
<1>2. ProtocolInv
  BY ProtocolInit DEF RestartInit
<1>3. /\ radioPc = "off" /\ specPc = "off" /\ coordPc = "off" /\ kills = 0
      /\ \A type \in MessageType : queue[type] = << >>
  BY DEF RestartInit, Init, RadioInit, SpectrumInit, CoordInit, QueueInit, EmptyQueue
<1>4. RadioAtWork = 0 /\ SpectrumAtWork = 0
  BY <1>3 DEF RadioAtWork, SpectrumAtWork, RadioBusy, SpectrumBusy, One
<1>5. RadioWaiting = 0 /\ SpectrumWaiting = 0
  BY <1>3, NothingWaits
<1>6. RadioShares /\ SpectrumShares
  BY <1>3, <1>4, <1>5, ShareValues, FitsWhenEmpty DEF RadioShares, SpectrumShares
<1>. QED
  BY <1>1, <1>2, <1>3, <1>6 DEF SharesInv, NoQueueNoMessages, ProtocolInv

(* The queue is opened by somebody: a new one is empty, and nobody is busy  *)
(* on it.                                                                   *)
LEMMA SharesWhenOpened ==
  ASSUME SharesInv, OpenQueue, kills' = kills,
         radioQid' = radioQid \/ radioPc' \notin {"send", "receive", "ack"},
         specQid' = specQid \/ specPc' \notin {"capture", "ack"},
         radioPc' = radioPc \/ radioPc' \notin {"send", "receive", "ack"},
         specPc' = specPc \/ specPc' \notin {"capture", "ack"},
         \/ coordQid' = coordQid /\ coordPc' = coordPc
         \/ coordPc = "off"
  PROVE  NoQueueNoMessages' /\ RadioShares' /\ SpectrumShares'
<1>. USE CommandsAreTyped
<1>0. /\ QueueTypeOK /\ lastId \in Nat /\ kills \in Nat
      /\ radioQid \in 0 .. lastId /\ specQid \in 0 .. lastId /\ coordQid \in 0 .. lastId
      /\ NoQueueNoMessages /\ RadioShares /\ SpectrumShares
  BY KillBoundsAssumption DEF SharesInv, RestartTypeOK, TypeOK, QueueTypeOK, RadioTypeOK,
     SpectrumTypeOK, CoordTypeOK
<1>1. /\ queue' = queue /\ lastId' \in Nat /\ lastId' >= lastId /\ qid' # NoQueue
      /\ IF qid = NoQueue THEN qid' > lastId ELSE qid' = qid
  BY <1>0, OpenQueueEffect DEF QueueTypeOK, NoQueue
<1>2. RadioWaiting \in Nat /\ SpectrumWaiting \in Nat
  BY <1>0, WaitingChanges
<1>3. NoQueueNoMessages'
  BY <1>1 DEF NoQueueNoMessages
<1>4. CASE qid = NoQueue
  <2>1. RadioAtWork' = 0 /\ SpectrumAtWork' = 0
    BY <1>0, <1>1, <1>4 DEF RadioAtWork, SpectrumAtWork, RadioBusy, SpectrumBusy, Attached, One
  <2>2. RadioWaiting' = 0 /\ SpectrumWaiting' = 0
    BY <1>0, <1>1, <1>4, NothingWaits DEF NoQueueNoMessages
  <2>. QED
    BY <1>0, <1>3, <2>1, <2>2, ShareValues, FitsWhenEmpty DEF RadioShares, SpectrumShares
<1>5. CASE qid # NoQueue
  <2>1. RadioAtWork' <= RadioAtWork /\ SpectrumAtWork' <= SpectrumAtWork
    BY <1>1, <1>5 DEF RadioAtWork, SpectrumAtWork, RadioBusy, SpectrumBusy, Attached, One
  <2>2. RadioShare <= RadioShare' /\ SpectrumShare <= SpectrumShare'
    BY <1>1, <1>5 DEF RadioShare, SpectrumShare, ShareUsed, Attached, One
  <2>3. RadioWaiting' = RadioWaiting /\ SpectrumWaiting' = SpectrumWaiting
    BY <1>1 DEF RadioWaiting, SpectrumWaiting
  <2>. QED
    BY <1>0, <1>2, <1>3, <2>1, <2>2, <2>3, ShareValues, FitsMonotone DEF RadioShares, SpectrumShares
<1>. QED
  BY <1>4, <1>5

(* The queue is removed by somebody: nothing is left on it.                 *)
LEMMA SharesWhenRemoved ==
  ASSUME QueueTypeOK, RemoveQueue, kills \in Nat, kills' = kills
  PROVE  NoQueueNoMessages' /\ RadioShares' /\ SpectrumShares'
<1>1. qid' = NoQueue /\ \A type \in MessageType : queue'[type] = << >>
  BY RemoveQueueEffect
<1>2. RadioAtWork' = 0 /\ SpectrumAtWork' = 0
  BY <1>1 DEF RadioAtWork, SpectrumAtWork, RadioBusy, SpectrumBusy, Attached, One
<1>3. RadioWaiting' = 0 /\ SpectrumWaiting' = 0
  BY <1>1, NothingWaits
<1>4. NoQueueNoMessages'
  BY <1>1 DEF NoQueueNoMessages
<1>. QED
  BY <1>2, <1>3, <1>4, ShareValues, FitsWhenEmpty DEF RadioShares, SpectrumShares

(* What happens elsewhere: the queue and the servers stay as they are, and  *)
(* the coordinator does not give up a share that is in use.                 *)
LEMMA SharesUndisturbed ==
  ASSUME SharesInv, UNCHANGED queueVars, kills' \in {kills, kills + 1},
         RadioAtWork' <= RadioAtWork, SpectrumAtWork' <= SpectrumAtWork,
         RadioShare <= RadioShare', SpectrumShare <= SpectrumShare'
  PROVE  NoQueueNoMessages' /\ RadioShares' /\ SpectrumShares'
<1>1. /\ NoQueueNoMessages /\ RadioShares /\ SpectrumShares
      /\ kills \in Nat /\ QueueTypeOK
  BY DEF SharesInv, RestartTypeOK, TypeOK
<1>2. RadioWaiting \in Nat /\ SpectrumWaiting \in Nat
  BY <1>1, MessagesAreTyped, WaitingChanges
<1>3. RadioWaiting' = RadioWaiting /\ SpectrumWaiting' = SpectrumWaiting
  BY DEF queueVars, RadioWaiting, SpectrumWaiting
<1>4. NoQueueNoMessages'
  BY <1>1 DEF queueVars, NoQueueNoMessages
<1>. QED
  BY <1>1, <1>2, <1>3, <1>4, ShareValues, FitsMonotone DEF RadioShares, SpectrumShares

(* The coordinator and its user use up no more than their share.            *)
LEMMA SharesCoordinator ==
  ASSUME SharesInv, Coordinating \/ UserActs, kills' = kills
  PROVE  NoQueueNoMessages' /\ RadioShares' /\ SpectrumShares'
<1>. USE CommandsAreTyped, DistinctTypes
<1>0. /\ QueueTypeOK /\ ifGain \in Int /\ tag \in Int /\ kills \in Nat
      /\ NoQueueNoMessages /\ RadioShares /\ SpectrumShares
      /\ RadioWaiting \in Nat /\ SpectrumWaiting \in Nat
      /\ UNCHANGED <<radioQid, radioPc, specQid, specPc>>
  <2>1. /\ QueueTypeOK /\ ifGain \in Int /\ tag \in Int /\ kills \in Nat
        /\ NoQueueNoMessages /\ RadioShares /\ SpectrumShares
    BY KillBoundsAssumption DEF SharesInv, RestartTypeOK, TypeOK, CoordTypeOK
  <2>2. RadioWaiting \in Nat /\ SpectrumWaiting \in Nat
    BY <2>1, WaitingChanges
  <2>. QED
    BY <2>1, <2>2 DEF Coordinating, UserActs, radioVars, spectrumVars
<1>1. qid' = qid => RadioAtWork' = RadioAtWork /\ SpectrumAtWork' = SpectrumAtWork
  BY <1>0 DEF RadioAtWork, SpectrumAtWork, RadioBusy, SpectrumBusy, Attached
<1>2. CASE LaunchCoordinator
  <2>1. CASE OpenQueue
    BY <1>0, <1>2, <2>1, SharesWhenOpened DEF LaunchCoordinator
  <2>2. CASE OpenFails
    <3>1. RadioShare <= RadioShare' /\ SpectrumShare <= SpectrumShare'
      BY <1>2 DEF LaunchCoordinator, RadioShare, SpectrumShare, ShareUsed, One
    <3>. QED
      BY <1>0, <1>1, <2>2, <3>1, ShareValues, SharesUndisturbed DEF OpenFails, queueVars
  <2>. QED
    BY <1>2, <2>1, <2>2 DEF LaunchCoordinator
<1>3. CASE UserStep
  <2>1. RadioShare <= RadioShare' /\ SpectrumShare <= SpectrumShare'
    BY <1>3 DEF UserStep, UserMeasure, UserExit, UserEndOfInput, RadioShare, SpectrumShare,
       ShareUsed, One
  <2>. QED
    BY <1>0, <1>1, <1>3, <2>1, ShareValues, SharesUndisturbed
       DEF UserStep, UserMeasure, UserExit, UserEndOfInput, queueVars
<1>4. CASE SendDataFails(coordQid) /\ UNCHANGED coordQid
           /\ coordPc \in {"sendGain", "sendPower", "sendTermRadio", "sendTermSpec"}
           /\ (coordPc = "sendTermSpec" => coordPc' = "destroy")
  <2>1. RadioShare <= RadioShare' /\ SpectrumShare <= SpectrumShare'
    BY <1>4 DEF SendDataFails, queueVars, RadioShare, SpectrumShare, ShareUsed, Attached, One
  <2>. QED
    BY <1>0, <1>1, <1>4, <2>1, ShareValues, SharesUndisturbed DEF SendDataFails, queueVars
<1>5. CASE ReceiveDataFails(coordQid) /\ UNCHANGED coordQid /\ coordPc \in {"gainAck", "powerAck"}
  <2>1. RadioShare <= RadioShare' /\ SpectrumShare <= SpectrumShare'
    BY <1>5 DEF ReceiveDataFails, queueVars, RadioShare, SpectrumShare, ShareUsed, Attached, One
  <2>. QED
    BY <1>0, <1>1, <1>5, <2>1, ShareValues, SharesUndisturbed DEF ReceiveDataFails, queueVars
<1>6. CASE /\ SendData(coordQid, RadioServerTypeCmd, IfGainCommand(ifGain))
           /\ coordPc = "sendGain" /\ coordPc' = "gainAck" /\ UNCHANGED coordQid
  <2>1. /\ Attached(coordQid) /\ qid' = qid
        /\ RadioWaiting' = RadioWaiting + 1 /\ SpectrumWaiting' = SpectrumWaiting
    BY <1>0, <1>6, WaitingChanges
  <2>2. RadioShare = 0 /\ RadioShare' = 1 /\ SpectrumShare = 0 /\ SpectrumShare' = 0
    BY <1>6, <2>1 DEF RadioShare, SpectrumShare, ShareUsed, Attached, One
  <2>. QED
    BY <1>0, <1>1, <2>1, <2>2, ShareValues, FitsAlong DEF NoQueueNoMessages, Attached,
       RadioShares, SpectrumShares
<1>7. CASE /\ ReceiveData(coordQid, RadioServerTypeAck)
           /\ coordPc = "gainAck" /\ coordPc' = "sendPower" /\ UNCHANGED coordQid
  <2>1. /\ Attached(coordQid) /\ qid' = qid
        /\ RadioWaiting' = RadioWaiting - 1 /\ SpectrumWaiting' = SpectrumWaiting
    BY <1>0, <1>7, WaitingChanges
  <2>2. RadioShare = 1 /\ RadioShare' = 0 /\ SpectrumShare = 0 /\ SpectrumShare' = 0
    BY <1>7, <2>1 DEF RadioShare, SpectrumShare, ShareUsed, Attached, One
  <2>3. Fits(RadioWaiting - 1, RadioAtWork, kills, RadioShare - 1)
    BY <1>0, ShareValues, FitsAlong DEF RadioShares
  <2>4. RadioShares'
    BY <1>0, <1>1, <2>1, <2>2, <2>3 DEF RadioShares
  <2>. QED
    BY <1>0, <1>1, <2>1, <2>2, <2>4 DEF NoQueueNoMessages, Attached, SpectrumShares
<1>8. CASE /\ SendData(coordQid, SpectrumServerTypeCmd, PowerCommand(tag))
           /\ coordPc = "sendPower" /\ coordPc' = "powerAck" /\ UNCHANGED coordQid
  <2>1. /\ Attached(coordQid) /\ qid' = qid
        /\ RadioWaiting' = RadioWaiting /\ SpectrumWaiting' = SpectrumWaiting + 1
    BY <1>0, <1>8, WaitingChanges
  <2>2. RadioShare = 0 /\ RadioShare' = 0 /\ SpectrumShare = 0 /\ SpectrumShare' = 1
    BY <1>8, <2>1 DEF RadioShare, SpectrumShare, ShareUsed, Attached, One
  <2>. QED
    BY <1>0, <1>1, <2>1, <2>2, ShareValues, FitsAlong DEF NoQueueNoMessages, Attached,
       RadioShares, SpectrumShares
<1>9. CASE /\ ReceiveData(coordQid, SpectrumServerTypeAck)
           /\ coordPc = "powerAck" /\ coordPc' # "exited" /\ UNCHANGED coordQid
           /\ coordPc' \notin {"gainAck", "sendTermSpec", "powerAck"}
  <2>1. /\ Attached(coordQid) /\ qid' = qid
        /\ RadioWaiting' = RadioWaiting /\ SpectrumWaiting' = SpectrumWaiting - 1
    BY <1>0, <1>9, WaitingChanges
  <2>2. RadioShare = 0 /\ SpectrumShare = 1
    BY <1>9, <2>1 DEF RadioShare, SpectrumShare, ShareUsed, Attached, One
  <2>3. RadioShare <= RadioShare' /\ SpectrumShare - 1 <= SpectrumShare'
    BY <2>2, ShareValues
  <2>4. Fits(SpectrumWaiting - 1, SpectrumAtWork, kills, SpectrumShare - 1)
    BY <1>0, ShareValues, FitsAlong DEF SpectrumShares
  <2>5. SpectrumShares'
    BY <1>0, <1>1, <2>1, <2>3, <2>4, ShareValues, FitsMonotone DEF SpectrumShares
  <2>6. RadioShares'
    BY <1>0, <1>1, <2>1, <2>3, ShareValues, FitsMonotone DEF RadioShares
  <2>7. NoQueueNoMessages'
    BY <2>1 DEF NoQueueNoMessages, Attached
  <2>. QED
    BY <2>5, <2>6, <2>7
<1>10. CASE /\ SendData(coordQid, RadioServerTypeCmd, TerminateCommand)
            /\ coordPc = "sendTermRadio" /\ coordPc' = "sendTermSpec" /\ UNCHANGED coordQid
  <2>1. /\ Attached(coordQid) /\ qid' = qid
        /\ RadioWaiting' = RadioWaiting + 1 /\ SpectrumWaiting' = SpectrumWaiting
    BY <1>0, <1>10, WaitingChanges
  <2>2. RadioShare = 0 /\ RadioShare' = 1 /\ SpectrumShare = 0 /\ SpectrumShare' = 0
    BY <1>10, <2>1 DEF RadioShare, SpectrumShare, ShareUsed, Attached, One
  <2>. QED
    BY <1>0, <1>1, <2>1, <2>2, ShareValues, FitsAlong DEF NoQueueNoMessages, Attached,
       RadioShares, SpectrumShares
<1>11. CASE /\ SendData(coordQid, SpectrumServerTypeCmd, TerminateCommand)
            /\ coordPc = "sendTermSpec" /\ coordPc' = "destroy" /\ UNCHANGED coordQid
  <2>1. /\ Attached(coordQid) /\ qid' = qid
        /\ RadioWaiting' = RadioWaiting /\ SpectrumWaiting' = SpectrumWaiting + 1
    BY <1>0, <1>11, WaitingChanges
  <2>2. RadioShare = 1 /\ RadioShare' = 1 /\ SpectrumShare = 0 /\ SpectrumShare' = 1
    BY <1>11, <2>1 DEF RadioShare, SpectrumShare, ShareUsed, Attached, One
  <2>. QED
    BY <1>0, <1>1, <2>1, <2>2, ShareValues, FitsAlong DEF NoQueueNoMessages, Attached,
       RadioShares, SpectrumShares
<1>12. CASE DestroyQueue
  <2>1. CASE RemoveQueue
    BY <1>0, <2>1, SharesWhenRemoved
  <2>2. CASE UNCHANGED queueVars /\ ~Attached(coordQid)
    <3>1. RadioShare <= RadioShare' /\ SpectrumShare <= SpectrumShare'
      BY <2>2, ShareValues DEF RadioShare, SpectrumShare, ShareUsed, One
    <3>. QED
      BY <1>0, <1>1, <2>2, <3>1, ShareValues, SharesUndisturbed DEF queueVars
  <2>. QED
    BY <1>12, <2>1, <2>2 DEF DestroyQueue, Destroy
<1>13. CASE SendIfGain
  BY <1>4, <1>6, <1>13 DEF SendIfGain, GainLegDone
<1>14. CASE RadioAckArrives
  BY <1>5, <1>7, <1>14 DEF RadioAckArrives, GainLegDone
<1>15. CASE SendPower
  BY <1>4, <1>8, <1>15 DEF SendPower, PowerLegDone
<1>16. CASE SpectrumAckArrives
  BY <1>5, <1>9, <1>16 DEF SpectrumAckArrives, PowerLegDone, LoopEntry
<1>17. CASE TerminateRadioServer
  BY <1>4, <1>10, <1>17 DEF TerminateRadioServer, SendTerminate
<1>18. CASE TerminateSpectrumServer
  BY <1>4, <1>11, <1>18 DEF TerminateSpectrumServer, SendTerminate
<1>. QED
  BY <1>2, <1>3, <1>12, <1>13, <1>14, <1>15, <1>16, <1>17, <1>18
     DEF Coordinating, UserActs, CoordinatorStep

(* The radio server takes a command and becomes busy, or answers one and is *)
(* busy no longer.                                                          *)
LEMMA SharesRadioServer ==
  ASSUME SharesInv, RadioServing, kills' = kills
  PROVE  NoQueueNoMessages' /\ RadioShares' /\ SpectrumShares'
<1>. USE CommandsAreTyped, DistinctTypes
<1>0. /\ QueueTypeOK /\ kills \in Nat /\ RadioPhase
      /\ NoQueueNoMessages /\ RadioShares /\ SpectrumShares
      /\ RadioWaiting \in Nat /\ SpectrumWaiting \in Nat
      /\ UNCHANGED <<coordQid, coordPc, specQid, specPc>>
  <2>1. /\ QueueTypeOK /\ kills \in Nat /\ RadioPhase
        /\ NoQueueNoMessages /\ RadioShares /\ SpectrumShares
    BY KillBoundsAssumption DEF SharesInv, RestartTypeOK, TypeOK
  <2>2. RadioWaiting \in Nat /\ SpectrumWaiting \in Nat
    BY <2>1, WaitingChanges
  <2>. QED
    BY <2>1, <2>2 DEF RadioServing, coordVars, spectrumVars
<1>1. qid' = qid => /\ SpectrumAtWork' = SpectrumAtWork
                    /\ RadioShare' = RadioShare /\ SpectrumShare' = SpectrumShare
  BY <1>0 DEF SpectrumAtWork, SpectrumBusy, RadioShare, SpectrumShare, ShareUsed, Attached
<1>2. CASE LaunchRadioServer \/ RadioSend \/ RadioRead \/ RadioQuiet
  <2>1. UNCHANGED queueVars
    BY <1>2 DEF LaunchRadioServer, RadioSend, RadioRead, RadioQuiet
  <2>2. RadioAtWork' <= RadioAtWork
    <3>1. radioQid' = radioQid /\ qid' = qid
      BY <1>2, <2>1 DEF LaunchRadioServer, RadioSend, RadioRead, RadioQuiet, radioVars, queueVars
    <3>2. radioPc \in {"send", "receive", "ack"} \/ radioQid = NoQueue \/ radioPc' = radioPc
      BY <1>0, <1>2 DEF RadioPhase, LaunchRadioServer, RadioSend, RadioRead, RadioQuiet, radioVars
    <3>3. RadioBusy' => RadioBusy
      BY <3>1, <3>2 DEF RadioBusy, Attached
    <3>. QED
      BY <3>3 DEF RadioAtWork, One
  <2>. QED
    BY <1>1, <2>1, <2>2, ShareValues, SharesUndisturbed DEF queueVars
<1>3. CASE RadioOpensQueue
  <2>1. CASE OpenQueue /\ radioPc' = "wait"
    BY <1>0, <2>1, SharesWhenOpened
  <2>2. CASE OpenFails /\ radioPc' = "exited"
    <3>1. RadioAtWork' <= RadioAtWork
      BY <2>2 DEF RadioAtWork, RadioBusy, One
    <3>. QED
      BY <1>1, <2>2, <3>1, ShareValues, SharesUndisturbed DEF OpenFails, queueVars
  <2>. QED
    BY <1>3, <2>1, <2>2 DEF RadioOpensQueue
<1>4. CASE RadioReceive
  <2>1. CASE ReceiveData(radioQid, RadioServerTypeCmd)
    <3>1. /\ Attached(radioQid) /\ qid' = qid
          /\ RadioWaiting' = RadioWaiting - 1 /\ SpectrumWaiting' = SpectrumWaiting
      BY <1>0, <2>1, WaitingChanges
    <3>2. RadioAtWork = 0
      BY <1>4 DEF RadioReceive, RadioAtWork, RadioBusy, One
    <3>3. RadioAtWork' <= RadioAtWork + 1
      BY <3>2, ShareValues
    <3>4. Fits(RadioWaiting - 1, RadioAtWork + 1, kills, RadioShare)
      BY <1>0, ShareValues, FitsAlong DEF RadioShares
    <3>5. RadioShares'
      BY <1>0, <1>1, <3>1, <3>3, <3>4, ShareValues, FitsMonotone DEF RadioShares
    <3>. QED
      BY <1>0, <1>1, <3>1, <3>5 DEF SpectrumShares, NoQueueNoMessages, Attached
  <2>2. CASE ReceiveDataFails(radioQid) /\ radioPc' = "exited"
    <3>1. RadioAtWork' <= RadioAtWork
      BY <2>2, ShareValues DEF RadioAtWork, RadioBusy, One
    <3>. QED
      BY <1>1, <2>2, <3>1, ShareValues, SharesUndisturbed DEF ReceiveDataFails, queueVars
  <2>. QED
    BY <1>4, <2>1, <2>2 DEF RadioReceive
<1>5. CASE RadioAck
  <2>1. CASE SendData(radioQid, RadioServerTypeAck, Ack) /\ radioPc' = "wait"
    <3>1. /\ Attached(radioQid) /\ qid' = qid
          /\ RadioWaiting' = RadioWaiting + 1 /\ SpectrumWaiting' = SpectrumWaiting
      BY <1>0, <2>1, WaitingChanges
    <3>2. RadioAtWork = 1 /\ RadioAtWork' = 0
      BY <1>5, <2>1, <3>1 DEF RadioAck, RadioAtWork, RadioBusy, One
    <3>3. RadioShares'
      BY <1>0, <1>1, <3>1, <3>2, ShareValues, FitsAlong DEF RadioShares
    <3>. QED
      BY <1>0, <1>1, <3>1, <3>3 DEF SpectrumShares, NoQueueNoMessages, Attached
  <2>2. CASE SendDataFails(radioQid) /\ radioPc' = "exited"
    <3>1. RadioAtWork' <= RadioAtWork
      BY <2>2, ShareValues DEF RadioAtWork, RadioBusy, One
    <3>. QED
      BY <1>1, <2>2, <3>1, ShareValues, SharesUndisturbed DEF SendDataFails, queueVars
  <2>. QED
    BY <1>5, <2>1, <2>2 DEF RadioAck
<1>. QED
  BY <1>2, <1>3, <1>4, <1>5 DEF RadioServing, RadioServerStep

(* The same of the spectrum server.                                         *)
LEMMA SharesSpectrumServer ==
  ASSUME SharesInv, SpectrumServing, kills' = kills
  PROVE  NoQueueNoMessages' /\ RadioShares' /\ SpectrumShares'
<1>. USE CommandsAreTyped, DistinctTypes
<1>0. /\ QueueTypeOK /\ kills \in Nat
      /\ NoQueueNoMessages /\ RadioShares /\ SpectrumShares
      /\ RadioWaiting \in Nat /\ SpectrumWaiting \in Nat
      /\ UNCHANGED <<coordQid, coordPc, radioQid, radioPc>>
  <2>1. /\ QueueTypeOK /\ kills \in Nat
        /\ NoQueueNoMessages /\ RadioShares /\ SpectrumShares
    BY KillBoundsAssumption DEF SharesInv, RestartTypeOK, TypeOK
  <2>2. RadioWaiting \in Nat /\ SpectrumWaiting \in Nat
    BY <2>1, WaitingChanges
  <2>. QED
    BY <2>1, <2>2 DEF SpectrumServing, coordVars, radioVars
<1>1. qid' = qid => /\ RadioAtWork' = RadioAtWork
                    /\ RadioShare' = RadioShare /\ SpectrumShare' = SpectrumShare
  BY <1>0 DEF RadioAtWork, RadioBusy, RadioShare, SpectrumShare, ShareUsed, Attached
<1>2. CASE StreamSamples \/ Measure \/ PipelineFails
  <2>1. UNCHANGED queueVars
    BY <1>2 DEF StreamSamples, Measure, PipelineFails
  <2>2. SpectrumAtWork' <= SpectrumAtWork
    <3>1. specQid' = specQid /\ qid' = qid /\ specPc = "capture"
      BY <1>2, <2>1 DEF StreamSamples, Measure, PipelineFails, queueVars
    <3>2. SpectrumBusy' => SpectrumBusy
      BY <3>1 DEF SpectrumBusy, Attached
    <3>. QED
      BY <3>2 DEF SpectrumAtWork, One
  <2>. QED
    BY <1>1, <2>1, <2>2, ShareValues, SharesUndisturbed DEF queueVars
<1>3. CASE LaunchSpectrumServer
  <2>1. CASE OpenQueue /\ specPc' = "wait"
    BY <1>0, <2>1, SharesWhenOpened
  <2>2. CASE OpenFails /\ specPc' = "exited"
    <3>1. SpectrumAtWork' <= SpectrumAtWork
      BY <2>2 DEF SpectrumAtWork, SpectrumBusy, One
    <3>. QED
      BY <1>1, <2>2, <3>1, ShareValues, SharesUndisturbed DEF OpenFails, queueVars
  <2>. QED
    BY <1>3, <2>1, <2>2 DEF LaunchSpectrumServer
<1>4. CASE SpectrumReceive
  <2>1. CASE ReceiveData(specQid, SpectrumServerTypeCmd)
    <3>1. /\ Attached(specQid) /\ qid' = qid
          /\ RadioWaiting' = RadioWaiting /\ SpectrumWaiting' = SpectrumWaiting - 1
      BY <1>0, <2>1, WaitingChanges
    <3>2. SpectrumAtWork = 0
      BY <1>4 DEF SpectrumReceive, SpectrumAtWork, SpectrumBusy, One
    <3>3. SpectrumAtWork' <= SpectrumAtWork + 1
      BY <3>2, ShareValues
    <3>4. Fits(SpectrumWaiting - 1, SpectrumAtWork + 1, kills, SpectrumShare)
      BY <1>0, ShareValues, FitsAlong DEF SpectrumShares
    <3>5. SpectrumShares'
      BY <1>0, <1>1, <3>1, <3>3, <3>4, ShareValues, FitsMonotone DEF SpectrumShares
    <3>. QED
      BY <1>0, <1>1, <3>1, <3>5 DEF RadioShares, NoQueueNoMessages, Attached
  <2>2. CASE ReceiveDataFails(specQid) /\ specPc' = "exited"
    <3>1. SpectrumAtWork' <= SpectrumAtWork
      BY <2>2, ShareValues DEF SpectrumAtWork, SpectrumBusy, One
    <3>. QED
      BY <1>1, <2>2, <3>1, ShareValues, SharesUndisturbed DEF ReceiveDataFails, queueVars
  <2>. QED
    BY <1>4, <2>1, <2>2 DEF SpectrumReceive
<1>5. CASE SpectrumAck
  <2>1. CASE SendData(specQid, SpectrumServerTypeAck, Ack) /\ specPc' = "wait"
    <3>1. /\ Attached(specQid) /\ qid' = qid
          /\ RadioWaiting' = RadioWaiting /\ SpectrumWaiting' = SpectrumWaiting + 1
      BY <1>0, <2>1, WaitingChanges
    <3>2. SpectrumAtWork = 1 /\ SpectrumAtWork' = 0
      BY <1>5, <2>1, <3>1 DEF SpectrumAck, SpectrumAtWork, SpectrumBusy, One
    <3>3. SpectrumShares'
      BY <1>0, <1>1, <3>1, <3>2, ShareValues, FitsAlong DEF SpectrumShares
    <3>. QED
      BY <1>0, <1>1, <3>1, <3>3 DEF RadioShares, NoQueueNoMessages, Attached
  <2>2. CASE SendDataFails(specQid) /\ specPc' = "exited"
    <3>1. SpectrumAtWork' <= SpectrumAtWork
      BY <2>2, ShareValues DEF SpectrumAtWork, SpectrumBusy, One
    <3>. QED
      BY <1>1, <2>2, <3>1, ShareValues, SharesUndisturbed DEF SendDataFails, queueVars
  <2>. QED
    BY <1>5, <2>1, <2>2 DEF SpectrumAck
<1>. QED
  BY <1>2, <1>3, <1>4, <1>5 DEF SpectrumServing, SpectrumServerStep

(* What radio diags does and what fails.                                    *)
LEMMA SharesElsewhere ==
  ASSUME SharesInv, kills' = kills,
         DiagsServing \/ LinkBreaks \/ QueueVanishes \/ UNCHANGED vars
  PROVE  NoQueueNoMessages' /\ RadioShares' /\ SpectrumShares'
<1>0. QueueTypeOK /\ kills \in Nat
  BY KillBoundsAssumption DEF SharesInv, RestartTypeOK, TypeOK
<1>1. CASE DiagsServing \/ LinkBreaks \/ UNCHANGED vars
  <2>1. /\ UNCHANGED <<qid, lastId, queue>>
        /\ UNCHANGED <<radioPc, radioQid, specPc, specQid, coordPc, coordQid>>
    BY <1>1 DEF DiagsServing, LinkBreaks, vars, queueVars, radioVars, spectrumVars, coordVars
  <2>2. /\ RadioAtWork' = RadioAtWork /\ SpectrumAtWork' = SpectrumAtWork
        /\ RadioShare' = RadioShare /\ SpectrumShare' = SpectrumShare
    BY <2>1 DEF RadioAtWork, SpectrumAtWork, RadioBusy, SpectrumBusy, RadioShare, SpectrumShare,
       ShareUsed, Attached
  <2>. QED
    BY <2>1, <2>2, ShareValues, SharesUndisturbed DEF queueVars
<1>2. CASE QueueVanishes
  BY <1>0, <1>2, SharesWhenRemoved DEF QueueVanishes, QueueRemovedByOther
<1>. QED
  BY <1>1, <1>2

(* A program is killed, or launched again; an orphan goes on.               *)
LEMMA SharesRestarts ==
  ASSUME SharesInv,
         \/ RelaunchCoordinator \/ RelaunchRadioServer \/ RelaunchSpectrumServer
         \/ KillCoordinator \/ KillRadioServer \/ KillSpectrumServer
         \/ OrphanStreams \/ OrphanMeasures \/ OrphanHoldsPort
  PROVE  NoQueueNoMessages' /\ RadioShares' /\ SpectrumShares'
<1>0. /\ NoQueueNoMessages /\ RadioShares /\ SpectrumShares
      /\ RadioWaiting \in Nat /\ SpectrumWaiting \in Nat /\ kills \in Nat
      /\ UNCHANGED queueVars
  <2>1. QueueTypeOK /\ NoQueueNoMessages /\ RadioShares /\ SpectrumShares /\ kills \in Nat
    BY KillBoundsAssumption DEF SharesInv, RestartTypeOK, TypeOK
  <2>2. RadioWaiting \in Nat /\ SpectrumWaiting \in Nat
    BY <2>1, MessagesAreTyped, WaitingChanges
  <2>3. UNCHANGED queueVars
    BY DEF RelaunchCoordinator, RelaunchRadioServer, RelaunchSpectrumServer, KillCoordinator,
       KillRadioServer, KillSpectrumServer, OrphanStreams, OrphanMeasures, OrphanHoldsPort, vars
  <2>. QED
    BY <2>1, <2>2, <2>3
<1>1. qid' = qid /\ queue' = queue
  BY <1>0 DEF queueVars
<1>2. CASE RelaunchCoordinator
  <2>1. /\ kills' = kills /\ coordPc = "exited" /\ coordPc' = "off"
        /\ UNCHANGED <<radioPc, radioQid, specPc, specQid>>
    BY <1>2 DEF RelaunchCoordinator, radioVars, spectrumVars
  <2>2. RadioShare = 0 /\ SpectrumShare = 0
    BY <2>1 DEF RadioShare, SpectrumShare, ShareUsed, One
  <2>3. RadioAtWork' = RadioAtWork /\ SpectrumAtWork' = SpectrumAtWork
    BY <1>1, <2>1 DEF RadioAtWork, SpectrumAtWork, RadioBusy, SpectrumBusy, Attached
  <2>. QED
    BY <1>0, <2>1, <2>2, <2>3, ShareValues, SharesUndisturbed
<1>3. CASE RelaunchRadioServer \/ KillRadioServer
  <2>1. /\ kills' \in {kills, kills + 1} /\ radioPc' \in {"off", "killed"}
        /\ UNCHANGED <<coordPc, coordQid, specPc, specQid>>
    BY <1>3 DEF RelaunchRadioServer, KillRadioServer, Killed, restartVars, coordVars, spectrumVars
  <2>2. RadioAtWork' = 0
    BY <2>1 DEF RadioAtWork, RadioBusy, One
  <2>3. /\ SpectrumAtWork' = SpectrumAtWork
        /\ RadioShare' = RadioShare /\ SpectrumShare' = SpectrumShare
    BY <1>1, <2>1 DEF SpectrumAtWork, SpectrumBusy, RadioShare, SpectrumShare, ShareUsed, Attached
  <2>. QED
    BY <1>0, <2>1, <2>2, <2>3, ShareValues, SharesUndisturbed
<1>4. CASE RelaunchSpectrumServer \/ KillSpectrumServer
  <2>1. /\ kills' \in {kills, kills + 1} /\ specPc' \in {"off", "exited"}
        /\ UNCHANGED <<coordPc, coordQid, radioPc, radioQid>>
    BY <1>4 DEF RelaunchSpectrumServer, KillSpectrumServer, Killed, restartVars, coordVars,
       radioVars
  <2>2. SpectrumAtWork' = 0
    BY <2>1 DEF SpectrumAtWork, SpectrumBusy, One
  <2>3. /\ RadioAtWork' = RadioAtWork
        /\ RadioShare' = RadioShare /\ SpectrumShare' = SpectrumShare
    BY <1>1, <2>1 DEF RadioAtWork, RadioBusy, RadioShare, SpectrumShare, ShareUsed, Attached
  <2>. QED
    BY <1>0, <2>1, <2>2, <2>3, ShareValues, SharesUndisturbed
<1>5. CASE KillCoordinator
  <2>1. /\ kills' = kills + 1
        /\ UNCHANGED <<specPc, specQid, radioPc, radioQid>>
    BY <1>5 DEF KillCoordinator, Killed, radioVars, spectrumVars
  <2>2. RadioAtWork' = RadioAtWork /\ SpectrumAtWork' = SpectrumAtWork
    BY <1>1, <2>1 DEF RadioAtWork, RadioBusy, SpectrumAtWork, SpectrumBusy, Attached
  <2>3. RadioWaiting' = RadioWaiting /\ SpectrumWaiting' = SpectrumWaiting
    BY <1>1 DEF RadioWaiting, SpectrumWaiting
  <2>4. /\ Fits(RadioWaiting, RadioAtWork, kills + 1, RadioShare - 1)
        /\ Fits(SpectrumWaiting, SpectrumAtWork, kills + 1, SpectrumShare - 1)
    BY <1>0, ShareValues, FitsAlong DEF RadioShares, SpectrumShares
  <2>5. RadioShare - 1 <= RadioShare' /\ SpectrumShare - 1 <= SpectrumShare'
    BY ShareValues
  <2>6. RadioShares'
    BY <1>0, <2>1, <2>2, <2>3, <2>4, <2>5, ShareValues, FitsMonotone DEF RadioShares
  <2>7. SpectrumShares'
    BY <1>0, <2>1, <2>2, <2>3, <2>4, <2>5, ShareValues, FitsMonotone DEF SpectrumShares
  <2>. QED
    BY <1>0, <1>1, <2>6, <2>7 DEF NoQueueNoMessages
<1>6. CASE OrphanStreams \/ OrphanMeasures \/ OrphanHoldsPort
  <2>1. /\ kills' = kills
        /\ UNCHANGED <<coordPc, coordQid, specQid, radioPc, radioQid>>
        /\ specPc' = specPc \/ (specPc = "capture" /\ specPc' = "ack")
    <3>1. OrphanStreams => UNCHANGED <<kills, coordPc, coordQid, specPc, specQid, radioPc, radioQid>>
      BY DEF OrphanStreams, vars, coordVars, radioVars, spectrumVars
    <3>2. OrphanMeasures => UNCHANGED <<kills, coordPc, coordQid, specPc, specQid, radioPc, radioQid>>
      BY DEF OrphanMeasures, coordVars, radioVars
    <3>3. OrphanHoldsPort =>
            /\ UNCHANGED <<kills, coordPc, coordQid, specQid, radioPc, radioQid>>
            /\ specPc = "capture" /\ specPc' = "ack"
      BY DEF OrphanHoldsPort, restartVars, coordVars, radioVars
    <3>. QED
      BY <1>6, <3>1, <3>2, <3>3
  <2>2. /\ RadioAtWork' = RadioAtWork /\ SpectrumAtWork' = SpectrumAtWork
        /\ RadioShare' = RadioShare /\ SpectrumShare' = SpectrumShare
    BY <1>1, <2>1 DEF RadioAtWork, RadioBusy, SpectrumAtWork, SpectrumBusy, RadioShare,
       SpectrumShare,
       ShareUsed, Attached
  <2>. QED
    BY <1>0, <2>1, <2>2, ShareValues, SharesUndisturbed
<1>. QED
  BY <1>2, <1>3, <1>4, <1>5, <1>6

(* Kills, launches and orphans leave the radio server's life in phase.      *)
LEMMA RestartRadioPhase ==
  ASSUME RestartTypeOK, RadioPhase, [RestartNext]_allVars
  PROVE  RadioPhase'
<1>1. CASE [Next]_vars
  BY <1>1, RadioPhaseStep DEF RestartTypeOK
<1>2. CASE UNCHANGED radioVars
  BY <1>2 DEF radioVars, RadioPhase
<1>3. CASE RelaunchRadioServer
  BY <1>3 DEF RelaunchRadioServer, RadioPhase
<1>4. CASE KillRadioServer
  BY <1>4 DEF KillRadioServer, RadioPhase
<1>. QED
  BY <1>1, <1>2, <1>3, <1>4, RestartCases
     DEF RelaunchCoordinator, RelaunchSpectrumServer, KillCoordinator, KillSpectrumServer,
         OrphanStreams, OrphanMeasures, OrphanHoldsPort, vars

(* No step puts more on the queue than the coordinator has a share in.      *)
LEMMA SharesStep == SharesInv /\ [RestartNext]_allVars => SharesInv'
<1>. SUFFICES ASSUME SharesInv, [RestartNext]_allVars PROVE SharesInv'
  OBVIOUS
<1>1. RestartTypeOK' /\ RadioPhase'
  BY RestartTypeStep, RestartRadioPhase DEF SharesInv
<1>2. CASE [Next]_vars /\ UNCHANGED restartVars
  <2>1. kills' = kills
    BY <1>2 DEF restartVars
  <2>2. CASE Coordinating \/ UserActs
    BY <1>1, <2>1, <2>2, SharesCoordinator DEF SharesInv
  <2>3. CASE RadioServing
    BY <1>1, <2>1, <2>3, SharesRadioServer DEF SharesInv
  <2>4. CASE SpectrumServing
    BY <1>1, <2>1, <2>4, SharesSpectrumServer DEF SharesInv
  <2>5. CASE DiagsServing \/ LinkBreaks \/ QueueVanishes \/ UNCHANGED vars
    BY <1>1, <2>1, <2>5, SharesElsewhere DEF SharesInv
  <2>. QED
    BY <1>2, <2>2, <2>3, <2>4, <2>5 DEF Next, AllExited
<1>. QED
  BY <1>1, <1>2, RestartCases, SharesRestarts DEF SharesInv

(* Wherever programs are killed and whatever fails, there is one command    *)
(* or acknowledgement under way between the coordinators and a server, and  *)
(* one more for each program that was killed.                               *)
THEOREM OneLeftPerKillHolds == RestartSpec => []OneLeftPerKill
<1>1. SharesInv => OneLeftPerKill
  <2>. SUFFICES ASSUME SharesInv PROVE OneLeftPerKill
    OBVIOUS
  <2>1. QueueTypeOK /\ RadioShares /\ SpectrumShares /\ kills \in Nat
    BY KillBoundsAssumption DEF SharesInv, RestartTypeOK, TypeOK
  <2>2. \A t \in MessageType : Len(queue[t]) \in Nat
    BY <2>1 DEF QueueTypeOK
  <2>. DEFINE n(t) == Len(queue[t])
  <2>3. /\ RadioWaiting = n(RadioServerTypeCmd) + n(RadioServerTypeAck)
        /\ SpectrumWaiting = n(SpectrumServerTypeCmd) + n(SpectrumServerTypeAck)
        /\ RadioUnderWay = n(RadioServerTypeCmd) + RadioAtWork + n(RadioServerTypeAck)
        /\ SpectrumUnderWay = n(SpectrumServerTypeCmd) + SpectrumAtWork + n(SpectrumServerTypeAck)
        /\ \A t \in MessageType : n(t) \in Nat
    BY <2>2 DEF RadioWaiting, SpectrumWaiting, RadioUnderWay, SpectrumUnderWay, RadioAtWork,
       SpectrumAtWork
  <2>. HIDE DEF n
  <2>. QED
    BY <2>1, <2>3, MessagesAreTyped, ShareValues
       DEF RadioShares, SpectrumShares, Fits, OneLeftPerKill
<1>. QED
  BY <1>1, SharesInit, SharesStep, PTL DEF RestartSpec

-----------------------------------------------------------------------------
(* Counting.                                                                *)

(* The number of occurrences is a natural number.                           *)
LEMMA OccurrencesType ==
  ASSUME NEW S, NEW s \in Seq(S), NEW T
  PROVE  /\ IsFiniteSet(Places(s, T))
         /\ Occurrences(s, T) \in Nat
<1>1. DOMAIN s = 1 .. Len(s) /\ Len(s) \in Nat
  OBVIOUS
<1>2. IsFiniteSet(1 .. Len(s))
  BY <1>1, FS_Interval
<1>3. IsFiniteSet(Places(s, T))
  <2>1. Places(s, T) \in SUBSET (1 .. Len(s))
    BY <1>1 DEF Places
  <2>. QED
    BY <1>2, <2>1, FS_Subset
<1>. QED
  BY <1>3, FS_CardinalityType DEF Occurrences

(* Nothing occurs in an empty sequence.                                     *)
LEMMA OccurrencesInNothing ==
  ASSUME NEW T
  PROVE  Occurrences(<< >>, T) = 0
<1>1. Places(<< >>, T) = {}
  BY DEF Places
<1>. QED
  BY <1>1, FS_EmptySet DEF Occurrences

(* An element that is appended occurs once more, if it counts.              *)
LEMMA OccurrencesAppend ==
  ASSUME NEW S, NEW s \in Seq(S), NEW e \in S, NEW T
  PROVE  /\ e \in T => Occurrences(Append(s, e), T) = Occurrences(s, T) + 1
         /\ e \notin T => Occurrences(Append(s, e), T) = Occurrences(s, T)
<1>1. IsFiniteSet(Places(s, T))
  BY OccurrencesType
<1>2. e \in T => Places(Append(s, e), T) = Places(s, T) \cup {Len(s) + 1}
  BY DEF Places
<1>3. e \notin T => Places(Append(s, e), T) = Places(s, T)
  BY DEF Places
<1>4. Len(s) + 1 \notin Places(s, T)
  BY DEF Places
<1>5. e \in T => Cardinality(Places(Append(s, e), T)) = Cardinality(Places(s, T)) + 1
  BY <1>1, <1>2, <1>4, FS_AddElement
<1>. QED
  BY <1>3, <1>5 DEF Occurrences

(* An element that is taken out, wherever it was, occurs once less.         *)
LEMMA OccurrencesTakenOut ==
  ASSUME NEW S, NEW s \in Seq(S), NEW i \in DOMAIN s, NEW r \in Seq(S), NEW T, TakenOut(s, i, r)
  PROVE  /\ s[i] \in T => Occurrences(r, T) = Occurrences(s, T) - 1
         /\ s[i] \notin T => Occurrences(r, T) = Occurrences(s, T)
<1>. DEFINE K == Places(s, T)
            R == Places(r, T)
            f == [k \in R |-> IF k < i THEN k ELSE k + 1]
<1>1. /\ IsFiniteSet(K) /\ IsFiniteSet(R)
      /\ Occurrences(s, T) \in Nat /\ Occurrences(r, T) \in Nat
  BY OccurrencesType
<1>2. i \in K <=> s[i] \in T
  BY DEF Places
<1>3. f \in Bijection(R, K \ {i})
  <2>1. f \in [R -> K \ {i}]
    BY DEF Places, TakenOut
  <2>2. \A a, b \in R : f[a] = f[b] => a = b
    BY DEF Places, TakenOut
  <2>3. ASSUME NEW k \in K \ {i} PROVE \E a \in R : f[a] = k
    <3>1. CASE k < i
      <4>1. k \in DOMAIN s /\ s[k] \in T
        BY DEF Places
      <4>2. k \in 1 .. Len(r) /\ r[k] = s[k]
        BY <3>1, <4>1 DEF TakenOut
      <4>3. k \in R
        BY <4>1, <4>2 DEF Places
      <4>4. f[k] = k
        BY <3>1, <4>3
      <4>. HIDE DEF f, R
      <4>. QED
        BY <4>3, <4>4
    <3>2. CASE k > i
      <4>1. k \in DOMAIN s /\ s[k] \in T
        BY DEF Places
      <4>2. k - 1 \in 1 .. Len(r) /\ r[k - 1] = s[k]
        BY <3>2, <4>1 DEF TakenOut
      <4>3. k - 1 \in R
        BY <4>1, <4>2 DEF Places
      <4>4. f[k - 1] = k
        <5>1. k \in Int /\ i \in Int /\ ~(k - 1 < i) /\ (k - 1) + 1 = k
          BY <3>2, <4>1
        <5>. QED
          BY <4>3, <5>1
      <4>. HIDE DEF f, R
      <4>. QED
        BY <4>3, <4>4
    <3>3. k \in Int /\ i \in Int /\ k # i
      BY DEF Places
    <3>. HIDE DEF f, R
    <3>. QED
      BY <3>1, <3>2, <3>3
  <2>. QED
    BY <2>1, <2>2, <2>3 DEF Bijection, Injection, Surjection, IsInjective
<1>. HIDE DEF K, R, f
<1>4. Cardinality(K \ {i}) = Cardinality(R)
  BY <1>1, <1>3, FS_RemoveElement, FS_Bijection DEF ExistsBijection
<1>5. Cardinality(K \ {i}) = IF i \in K THEN Cardinality(K) - 1 ELSE Cardinality(K)
  BY <1>1, FS_RemoveElement
<1>. QED
  BY <1>1, <1>2, <1>4, <1>5 DEF Occurrences, K, R

(* The same of the first one.                                               *)
LEMMA OccurrencesTail ==
  ASSUME NEW S, NEW s \in Seq(S), s # << >>, NEW T
  PROVE  /\ Head(s) \in T => Occurrences(Tail(s), T) = Occurrences(s, T) - 1
         /\ Head(s) \notin T => Occurrences(Tail(s), T) = Occurrences(s, T)
<1>. DEFINE r == Tail(s)
            one == 1
<1>1. r \in Seq(S) /\ one \in DOMAIN s /\ Head(s) = s[one]
  OBVIOUS
<1>2. TakenOut(s, one, r)
  BY DEF TakenOut
<1>. HIDE DEF r, one
<1>3. /\ s[one] \in T => Occurrences(r, T) = Occurrences(s, T) - 1
      /\ s[one] \notin T => Occurrences(r, T) = Occurrences(s, T)
  BY <1>1, <1>2, OccurrencesTakenOut
<1>. QED
  BY <1>1, <1>3 DEF r

(* The same of one within.                                                  *)
LEMMA OccurrencesRemoveAt ==
  ASSUME NEW S, NEW s \in Seq(S), NEW i \in DOMAIN s, NEW T
  PROVE  /\ s[i] \in T => Occurrences(RemoveAt(s, i), T) = Occurrences(s, T) - 1
         /\ s[i] \notin T => Occurrences(RemoveAt(s, i), T) = Occurrences(s, T)
<1>. DEFINE a == SubSeq(s, 1, i - 1)
            b == SubSeq(s, i + 1, Len(s))
<1>1. /\ i \in 1 .. Len(s) /\ Len(s) \in Nat
      /\ a \in Seq(S) /\ Len(a) = i - 1
      /\ b \in Seq(S) /\ Len(b) = Len(s) - i
      /\ \A k \in 1 .. i - 1 : a[k] = s[k]
      /\ \A k \in 1 .. Len(s) - i : b[k] = s[k + i]
  BY SubSeqProperties
<1>2. RemoveAt(s, i) = a \o b
  BY DEF RemoveAt
<1>. HIDE DEF a, b
<1>3. /\ a \o b \in Seq(S) /\ Len(a \o b) = Len(s) - 1
      /\ \A k \in 1 .. Len(s) - 1 : (a \o b)[k] = IF k <= i - 1 THEN a[k] ELSE b[k - (i - 1)]
  <2>1. a \in Seq(S) /\ b \in Seq(S)
    BY <1>1
  <2>2. /\ a \o b \in Seq(S)
        /\ Len(a \o b) = Len(a) + Len(b)
        /\ \A k \in 1 .. Len(a) + Len(b) :
             (a \o b)[k] = IF k <= Len(a) THEN a[k] ELSE b[k - Len(a)]
    BY <2>1, ConcatProperties
  <2>3. Len(a) = i - 1 /\ Len(a) + Len(b) = Len(s) - 1
    BY <1>1
  <2>. QED
    BY <2>2, <2>3
<1>4. ASSUME NEW k \in 1 .. Len(s) - 1 PROVE (a \o b)[k] = s[IF k < i THEN k ELSE k + 1]
  <2>1. CASE k < i
    BY <1>1, <1>3, <2>1
  <2>2. CASE k >= i
    <3>1. k - (i - 1) \in 1 .. Len(s) - i /\ k - (i - 1) + i = k + 1
      BY <1>1, <2>2
    <3>. QED
      <4>1. (a \o b)[k] = b[k - (i - 1)]
        BY <1>1, <1>3, <2>2
      <4>2. b[k - (i - 1)] = s[k - (i - 1) + i]
        BY <1>1, <3>1
      <4>. QED
        BY <2>2, <3>1, <4>1, <4>2
  <2>. QED
    BY <1>1, <2>1, <2>2
<1>5. TakenOut(s, i, RemoveAt(s, i))
  BY <1>2, <1>3, <1>4 DEF TakenOut
<1>. DEFINE r == RemoveAt(s, i)
<1>6. r \in Seq(S) /\ TakenOut(s, i, r)
  BY <1>2, <1>3, <1>5
<1>. HIDE DEF r
<1>7. /\ s[i] \in T => Occurrences(r, T) = Occurrences(s, T) - 1
      /\ s[i] \notin T => Occurrences(r, T) = Occurrences(s, T)
  BY <1>6, OccurrencesTakenOut
<1>. QED
  BY <1>7 DEF r

(* Elements that are changed and count as before.                           *)
LEMMA OccurrencesAlike ==
  ASSUME NEW s, NEW r, NEW T, DOMAIN r = DOMAIN s,
         \A k \in DOMAIN s : r[k] \in T <=> s[k] \in T
  PROVE  Occurrences(r, T) = Occurrences(s, T)
<1>1. Places(r, T) = Places(s, T)
  BY DEF Places
<1>. QED
  BY <1>1 DEF Occurrences

-----------------------------------------------------------------------------
(* No announcement is measured twice.                                       *)

(* A line is enough for one of the steps of its measurement after the other.*)
LEMMA CoversAlong ==
  \A n, a, b, c, d, e \in Int : Covers(n, a, b, c, d, e) =>
    /\ Covers(n + 1, a, b, c, d, e + 1)
    /\ Covers(n, a, b, c, d + 1, e - 1)
    /\ Covers(n, a, b, c + 1, d - 1, e)
    /\ Covers(n, a + 1, b, c - 1, d, e)
    /\ Covers(n, a, b + 1, c - 1, d, e)
    /\ Covers(n, a + 1, b - 1, c, d, e)
BY DEF Covers

(* Fewer of them need no more lines.                                        *)
LEMMA CoversMonotone ==
  \A n, a, b, c, d, e \in Int : \A n1, a1, b1, c1, d1, e1 \in Int :
    Covers(n, a, b, c, d, e) /\ n <= n1 /\ a1 <= a /\ b1 <= b /\ c1 <= c /\ d1 <= d /\ e1 <= e
      => Covers(n1, a1, b1, c1, d1, e1)
BY DEF Covers

(* What is counted.                                                         *)
LEMMA CountsAreTyped ==
  ASSUME NEW t \in Int
  PROVE  /\ RestartTypeOK => /\ Announcements(t) \in Nat /\ Written(t) \in Nat /\ LeftRunning(t) \in Nat
                             /\ InQueue(t) \in Nat
         /\ RestartTypeOK' => /\ Announcements(t)' \in Nat /\ Written(t)' \in Nat /\ LeftRunning(t)' \in Nat
                              /\ InQueue(t)' \in Nat
         /\ Capturing(t) \in 0 .. 1 /\ Capturing(t)' \in 0 .. 1
         /\ Prepared(t) \in 0 .. 1 /\ Prepared(t)' \in 0 .. 1
<1>1. ASSUME RestartTypeOK
      PROVE  /\ Announcements(t) \in Nat /\ Written(t) \in Nat /\ LeftRunning(t) \in Nat
             /\ InQueue(t) \in Nat
  <2>1. /\ console \in Seq([tag : Int, gain : Int])
        /\ results \in Seq(OutputRecord) /\ orphans \in Seq(OutputRecord)
        /\ queue[SpectrumServerTypeCmd] \in Seq(Body)
    BY <1>1, ConcatProperties, MessagesAreTyped
       DEF RestartTypeOK, TypeOK, CoordTypeOK, SpectrumTypeOK, QueueTypeOK, console
  <2>. QED
    BY <2>1, OccurrencesType DEF Announcements, Written, LeftRunning, InQueue
<1>2. ASSUME RestartTypeOK'
      PROVE  /\ Announcements(t)' \in Nat /\ Written(t)' \in Nat /\ LeftRunning(t)' \in Nat
             /\ InQueue(t)' \in Nat
  <2>1. /\ console' \in Seq([tag : Int, gain : Int])
        /\ results' \in Seq(OutputRecord) /\ orphans' \in Seq(OutputRecord)
        /\ queue'[SpectrumServerTypeCmd] \in Seq(Body)
    BY <1>2, ConcatProperties, MessagesAreTyped
       DEF RestartTypeOK, TypeOK, CoordTypeOK, SpectrumTypeOK, QueueTypeOK, console
  <2>. QED
    BY <2>1, OccurrencesType DEF Announcements, Written, LeftRunning, InQueue
<1>3. /\ Capturing(t) \in 0 .. 1 /\ Capturing(t)' \in 0 .. 1
      /\ Prepared(t) \in 0 .. 1 /\ Prepared(t)' \in 0 .. 1
  BY DEF Capturing, Prepared, One
<1>. QED
  BY <1>1, <1>2, <1>3

(* When nothing is added, what was called for still is.                     *)
LEMMA CalledForStays ==
  ASSUME RestartTypeOK, RestartTypeOK', NEW t \in Int, CalledFor(t),
         Announcements(t) <= Announcements(t)', Written(t)' <= Written(t),
         LeftRunning(t)' <= LeftRunning(t), Capturing(t)' <= Capturing(t),
         InQueue(t)' <= InQueue(t), Prepared(t)' <= Prepared(t)
  PROVE  CalledFor(t)'
<1>1. /\ Announcements(t) \in Int /\ Written(t) \in Int /\ LeftRunning(t) \in Int
      /\ Capturing(t) \in Int /\ InQueue(t) \in Int /\ Prepared(t) \in Int
      /\ Announcements(t)' \in Int /\ Written(t)' \in Int /\ LeftRunning(t)' \in Int
      /\ Capturing(t)' \in Int /\ InQueue(t)' \in Int /\ Prepared(t)' \in Int
  <2>1. /\ Announcements(t) \in Nat /\ Written(t) \in Nat /\ LeftRunning(t) \in Nat /\ InQueue(t) \in Nat
    BY CountsAreTyped
  <2>2. /\ Announcements(t)' \in Nat /\ Written(t)' \in Nat /\ LeftRunning(t)' \in Nat /\ InQueue(t)' \in Nat
    BY CountsAreTyped
  <2>3. /\ Capturing(t) \in 0 .. 1 /\ Capturing(t)' \in 0 .. 1
        /\ Prepared(t) \in 0 .. 1 /\ Prepared(t)' \in 0 .. 1
    BY CountsAreTyped
  <2>. QED
    BY <2>1, <2>2, <2>3
<1>2. Covers(Announcements(t), Written(t), LeftRunning(t), Capturing(t), InQueue(t), Prepared(t))
  BY DEF CalledFor
<1>3. Covers(Announcements(t)', Written(t)', LeftRunning(t)', Capturing(t)', InQueue(t)', Prepared(t)')
  BY <1>1, <1>2, CoversMonotone
<1>. QED
  BY <1>3 DEF CalledFor

(* The power command of one tag is not that of another.                     *)
LEMMA PowerCommandOfTag ==
  ASSUME NEW t \in Int, NEW u \in Int
  PROVE  /\ PowerCommand(t) = PowerCommand(u) <=> t = u
         /\ TerminateCommand # PowerCommand(t)
<1>1. PowerCommand(t)[2] = t /\ PowerCommand(u)[2] = u
  BY DEF PowerCommand
<1>2. Len(TerminateCommand) = 1 /\ Len(PowerCommand(t)) = 2
  BY DEF PowerCommand, TerminateCommand
<1>. QED
  BY <1>1, <1>2

(* A message that starts the pipeline is the power command of its tag.      *)
LEMMA CaptureOfCommand ==
  ASSUME NEW body \in Body, SpectrumDecode(body) = "capture"
  PROVE  body = PowerCommand(body[2]) /\ body[2] \in Int
<1>1. body[1] = SpectrumServerCmdComputePower /\ Len(body) = 2
  BY DEF SpectrumDecode
<1>. QED
  BY <1>1 DEF Body, PowerCommand

(* The file, the orphans and the pipeline are as they were.                 *)
LEMMA MeasuringUnchanged ==
  ASSUME NEW t \in Int, UNCHANGED <<results, orphans, specPc, spectrumTag>>
  PROVE  Written(t)' = Written(t) /\ LeftRunning(t)' = LeftRunning(t) /\ Capturing(t)' = Capturing(t)
BY DEF Written, LeftRunning, Capturing

(* A line more on the console of a launch is a line more on all consoles.   *)
LEMMA ConcatThenAppend ==
  \A s, u \in Seq([tag : Int, gain : Int]), e \in [tag : Int, gain : Int] :
    s \o Append(u, e) = Append(s \o u, e)
OBVIOUS

(* Announcing a tag prepares one power command; sending it puts it into the *)
(* queue.                                                                   *)
LEMMA CalledForCoordinator ==
  ASSUME RestartTypeOK, RestartTypeOK', NEW t \in Int, CalledFor(t),
         Coordinating \/ UserActs, UNCHANGED restartVars
  PROVE  CalledFor(t)'
<1>. USE CommandsAreTyped, DistinctTypes
<1>0. /\ QueueTypeOK /\ ifGain \in Int /\ tag \in Int
      /\ queue[SpectrumServerTypeCmd] \in Seq(Body)
      /\ logbook \in Seq([tag : Int, gain : Int]) /\ announced \in Seq([tag : Int, gain : Int])
      /\ console \in Seq([tag : Int, gain : Int])
  BY ConcatProperties DEF RestartTypeOK, TypeOK, CoordTypeOK, QueueTypeOK, console
<1>1. logbook' = logbook /\ UNCHANGED <<results, orphans, specPc, spectrumTag>>
  BY DEF Coordinating, UserActs, restartVars, spectrumVars
<1>2. /\ Written(t)' = Written(t) /\ LeftRunning(t)' = LeftRunning(t) /\ Capturing(t)' = Capturing(t)
      /\ Announcements(t) \in Int /\ Written(t) \in Int /\ LeftRunning(t) \in Int
      /\ Capturing(t) \in Int /\ InQueue(t) \in Int /\ Prepared(t) \in Int
      /\ Announcements(t)' \in Int /\ InQueue(t)' \in Int /\ Prepared(t)' \in Int
  <2>1. Written(t)' = Written(t) /\ LeftRunning(t)' = LeftRunning(t) /\ Capturing(t)' = Capturing(t)
    BY <1>1, MeasuringUnchanged
  <2>2. /\ Announcements(t) \in Nat /\ Written(t) \in Nat /\ LeftRunning(t) \in Nat
        /\ InQueue(t) \in Nat /\ Announcements(t)' \in Nat /\ InQueue(t)' \in Nat
        /\ Capturing(t) \in 0 .. 1 /\ Prepared(t) \in 0 .. 1 /\ Prepared(t)' \in 0 .. 1
    BY CountsAreTyped
  <2>. QED
    BY <2>1, <2>2
<1>3. announced' = announced => Announcements(t)' = Announcements(t)
  BY <1>1 DEF Announcements, console
<1>4. queue'[SpectrumServerTypeCmd] = queue[SpectrumServerTypeCmd] => InQueue(t)' = InQueue(t)
  BY DEF InQueue
<1>5. /\ UNCHANGED queueVars => queue'[SpectrumServerTypeCmd] = queue[SpectrumServerTypeCmd]
      /\ OpenQueue => queue'[SpectrumServerTypeCmd] = queue[SpectrumServerTypeCmd]
      /\ OpenFails => queue'[SpectrumServerTypeCmd] = queue[SpectrumServerTypeCmd]
      /\ SendDataFails(coordQid) => queue'[SpectrumServerTypeCmd] = queue[SpectrumServerTypeCmd]
      /\ ReceiveDataFails(coordQid) => queue'[SpectrumServerTypeCmd] = queue[SpectrumServerTypeCmd]
  BY <1>0, OpenQueueEffect DEF OpenFails, SendDataFails, ReceiveDataFails, queueVars
<1>6. coordPc' \notin {"gainAck", "sendPower"} => Prepared(t)' <= Prepared(t)
  BY CountsAreTyped DEF Prepared, One
<1>7. CASE SendIfGain
  <2>1. queue'[SpectrumServerTypeCmd] = queue[SpectrumServerTypeCmd]
    <3>1. CASE SendData(coordQid, RadioServerTypeCmd, IfGainCommand(ifGain))
      BY <1>0, <3>1, SendDataEffect
    <3>. QED
      BY <1>5, <1>7, <3>1 DEF SendIfGain
  <2>2. /\ coordPc = "sendGain" /\ coordPc' \in {"gainAck", "sendPower"} /\ tag' = tag
        /\ announced' = Append(announced, [tag |-> tag, gain |-> ifGain])
    BY <1>7 DEF SendIfGain, GainLegDone
  <2>. DEFINE line == [tag |-> tag, gain |-> ifGain]
  <2>3. /\ line \in [tag : Int, gain : Int] /\ (line \in LinesWith(t) <=> tag = t)
        /\ announced' = Append(announced, line)
    BY <1>0, <2>2 DEF LinesWith
  <2>. HIDE DEF line
  <2>6. console' = Append(console, line)
    <3>1. logbook \o Append(announced, line) = Append(logbook \o announced, line)
      <4>1. /\ logbook \in Seq([tag : Int, gain : Int]) /\ announced \in Seq([tag : Int, gain : Int])
            /\ line \in [tag : Int, gain : Int]
        BY <1>0, <2>3
      <4>. QED
        BY <4>1, ConcatThenAppend
    <3>. QED
      BY <1>1, <2>3, <3>1 DEF console
  <2>4. CASE tag = t
    <3>1. Announcements(t)' = Announcements(t) + 1
      <4>1. line \in LinesWith(t)
        BY <2>3, <2>4
      <4>2. Occurrences(Append(console, line), LinesWith(t)) = Occurrences(console, LinesWith(t)) + 1
        BY <1>0, <2>3, <4>1, OccurrencesAppend
      <4>. QED
        BY <2>6, <4>2 DEF Announcements
    <3>2. Prepared(t) = 0 /\ Prepared(t)' = 1
      BY <2>2, <2>4 DEF Prepared, One
    <3>3. Covers(Announcements(t) + 1, Written(t), LeftRunning(t), Capturing(t), InQueue(t), Prepared(t) + 1)
      BY <1>2, CoversAlong DEF CalledFor
    <3>. QED
      BY <1>2, <1>4, <2>1, <3>1, <3>2, <3>3 DEF CalledFor
  <2>5. CASE tag # t
    <3>1. Announcements(t)' = Announcements(t)
      <4>1. line \notin LinesWith(t)
        BY <2>3, <2>5
      <4>2. Occurrences(Append(console, line), LinesWith(t)) = Occurrences(console, LinesWith(t))
        BY <1>0, <2>3, <4>1, OccurrencesAppend
      <4>. QED
        BY <2>6, <4>2 DEF Announcements
    <3>2. Prepared(t)' = Prepared(t)
      BY <2>2, <2>5 DEF Prepared, One
    <3>. QED
      BY <1>2, <1>4, <2>1, <3>1, <3>2 DEF CalledFor
  <2>. QED
    BY <2>4, <2>5
<1>8. CASE /\ coordPc = "sendPower" /\ announced' = announced
           /\ SendData(coordQid, SpectrumServerTypeCmd, PowerCommand(tag)) /\ coordPc' = "powerAck"
  <2>1. queue'[SpectrumServerTypeCmd] = Append(queue[SpectrumServerTypeCmd], PowerCommand(tag))
    BY <1>0, <1>8, SendDataEffect
  <2>2. CASE tag = t
    <3>1. InQueue(t)' = InQueue(t) + 1
      BY <1>0, <2>1, <2>2, OccurrencesAppend DEF InQueue
    <3>2. Prepared(t) = 1 /\ Prepared(t)' = 0
      BY <1>8, <2>2 DEF Prepared, One
    <3>3. Covers(Announcements(t), Written(t), LeftRunning(t), Capturing(t), InQueue(t) + 1, Prepared(t) - 1)
      BY <1>2, CoversAlong DEF CalledFor
    <3>. QED
      BY <1>2, <1>3, <1>8, <3>1, <3>2, <3>3 DEF CalledFor
  <2>3. CASE tag # t
    <3>1. InQueue(t)' = InQueue(t)
      BY <1>0, <2>1, <2>3, OccurrencesAppend, PowerCommandOfTag DEF InQueue
    <3>2. Prepared(t)' = Prepared(t)
      BY <1>8, <2>3 DEF Prepared, One
    <3>. QED
      BY <1>2, <1>3, <1>8, <3>1, <3>2 DEF CalledFor
  <2>. QED
    BY <2>2, <2>3
<1>9. ASSUME announced' = announced, InQueue(t)' <= InQueue(t), Prepared(t)' <= Prepared(t)
      PROVE  CalledFor(t)'
  <2>1. /\ Announcements(t) <= Announcements(t)' /\ Written(t)' <= Written(t)
        /\ LeftRunning(t)' <= LeftRunning(t) /\ Capturing(t)' <= Capturing(t)
    BY <1>2, <1>3, <1>9
  <2>. QED
    BY <1>9, <2>1, CalledForStays
<1>10. CASE SendDataFails(coordQid) /\ PowerLegDone(FALSE)
  <2>1. /\ SendDataFails(coordQid) /\ announced' = announced
        /\ coordPc' \notin {"gainAck", "sendPower"}
    BY <1>10 DEF PowerLegDone, LoopEntry
  <2>. QED
    BY <1>2, <1>4, <1>5, <1>6, <1>9, <2>1
<1>11. CASE RadioAckArrives
  <2>1. queue'[SpectrumServerTypeCmd] = queue[SpectrumServerTypeCmd]
    <3>1. CASE ReceiveData(coordQid, RadioServerTypeAck)
      BY <1>0, <3>1, ReceiveDataEffect
    <3>. QED
      BY <1>5, <1>11, <3>1 DEF RadioAckArrives
  <2>2. coordPc = "gainAck" /\ coordPc' = "sendPower" /\ tag' = tag /\ announced' = announced
    BY <1>11 DEF RadioAckArrives, GainLegDone
  <2>3. Prepared(t)' = Prepared(t)
    BY <2>2 DEF Prepared
  <2>. QED
    BY <1>2, <1>4, <1>9, <2>1, <2>2, <2>3
<1>12. CASE SpectrumAckArrives
  <2>1. queue'[SpectrumServerTypeCmd] = queue[SpectrumServerTypeCmd]
    <3>1. CASE ReceiveData(coordQid, SpectrumServerTypeAck)
      BY <1>0, <3>1, ReceiveDataEffect
    <3>. QED
      BY <1>5, <1>12, <3>1 DEF SpectrumAckArrives
  <2>2. coordPc' \notin {"gainAck", "sendPower"} /\ announced' = announced
    BY <1>12 DEF SpectrumAckArrives, PowerLegDone, LoopEntry
  <2>. QED
    BY <1>2, <1>4, <1>6, <1>9, <2>1, <2>2
<1>13. CASE TerminateRadioServer \/ TerminateSpectrumServer
  <2>1. InQueue(t)' = InQueue(t)
    <3>1. CASE SendData(coordQid, RadioServerTypeCmd, TerminateCommand)
      BY <1>0, <1>4, <3>1, SendDataEffect
    <3>2. CASE SendData(coordQid, SpectrumServerTypeCmd, TerminateCommand)
      <4>1. queue'[SpectrumServerTypeCmd] = Append(queue[SpectrumServerTypeCmd], TerminateCommand)
        BY <1>0, <3>2, SendDataEffect
      <4>. QED
        BY <1>0, <4>1, OccurrencesAppend, PowerCommandOfTag DEF InQueue
    <3>. QED
      BY <1>4, <1>5, <1>13, <3>1, <3>2 DEF TerminateRadioServer, TerminateSpectrumServer,
         SendTerminate
  <2>2. coordPc' \notin {"gainAck", "sendPower"} /\ announced' = announced
    BY <1>13 DEF TerminateRadioServer, TerminateSpectrumServer
  <2>. QED
    BY <1>2, <1>6, <1>9, <2>1, <2>2
<1>14. CASE LaunchCoordinator \/ UserStep
  <2>1. queue'[SpectrumServerTypeCmd] = queue[SpectrumServerTypeCmd]
    BY <1>5, <1>14 DEF LaunchCoordinator, UserStep, UserMeasure, UserExit, UserEndOfInput
  <2>2. coordPc' \notin {"gainAck", "sendPower"} /\ announced' = announced
    BY <1>14 DEF LaunchCoordinator, LoopEntry, UserStep, UserMeasure, UserExit, UserEndOfInput
  <2>. QED
    BY <1>2, <1>4, <1>6, <1>9, <2>1, <2>2
<1>15. CASE DestroyQueue
  <2>1. CASE RemoveQueue
    <3>1. queue'[SpectrumServerTypeCmd] = << >>
      <4>1. qid' = NoQueue /\ \A type \in MessageType : queue'[type] = << >>
        BY <1>0, <2>1, RemoveQueueEffect
      <4>. QED
        BY <4>1
    <3>2. InQueue(t)' = 0
      BY <3>1, OccurrencesInNothing DEF InQueue
    <3>3. InQueue(t)' <= InQueue(t)
      BY <3>2, CountsAreTyped
    <3>. QED
      BY <1>6, <1>9, <1>15, <3>3 DEF DestroyQueue
  <2>2. CASE UNCHANGED queueVars
    BY <1>2, <1>4, <1>5, <1>6, <1>9, <1>15, <2>2 DEF DestroyQueue
  <2>. QED
    BY <1>15, <2>1, <2>2 DEF DestroyQueue, Destroy
<1>16. CASE SendPower
  BY <1>8, <1>10, <1>16 DEF SendPower
<1>. QED
  BY <1>7, <1>11, <1>12, <1>13, <1>14, <1>15, <1>16 DEF Coordinating, UserActs, CoordinatorStep

(* The console and what the coordinator is about to send are as they were.  *)
LEMMA CoordinatorUnchanged ==
  ASSUME NEW t \in Int, UNCHANGED <<logbook, announced, coordPc, tag>>
  PROVE  Announcements(t)' = Announcements(t) /\ Prepared(t)' = Prepared(t)
BY DEF Announcements, Prepared, console

(* The spectrum server makes a capture of a command, and a record of a      *)
(* capture.                                                                 *)
LEMMA CalledForSpectrumServer ==
  ASSUME RestartTypeOK, RestartTypeOK', NEW t \in Int, CalledFor(t),
         SpectrumServing, UNCHANGED restartVars
  PROVE  CalledFor(t)'
<1>. USE MessagesAreTyped, DistinctTypes
<1>0. /\ QueueTypeOK /\ spectrumTag \in Int /\ samples \subseteq Int /\ results \in Seq(OutputRecord)
      /\ queue[SpectrumServerTypeCmd] \in Seq(Body)
  BY DEF RestartTypeOK, TypeOK, QueueTypeOK, SpectrumTypeOK
<1>1. UNCHANGED <<logbook, announced, coordPc, tag, orphans>>
  BY DEF SpectrumServing, restartVars, coordVars
<1>2. /\ Announcements(t)' = Announcements(t) /\ Prepared(t)' = Prepared(t)
      /\ LeftRunning(t)' = LeftRunning(t)
  BY <1>1, CoordinatorUnchanged DEF LeftRunning
<1>3. /\ Announcements(t) \in Nat /\ Written(t) \in Nat /\ LeftRunning(t) \in Nat /\ InQueue(t) \in Nat
      /\ Capturing(t) \in 0 .. 1 /\ Prepared(t) \in 0 .. 1 /\ Capturing(t)' \in 0 .. 1
  BY CountsAreTyped
<1>14. /\ Announcements(t) \in Int /\ Written(t) \in Int /\ LeftRunning(t) \in Int
       /\ Capturing(t) \in Int /\ InQueue(t) \in Int /\ Prepared(t) \in Int
  BY <1>3
<1>4. results' = results => Written(t)' = Written(t)
  BY DEF Written
<1>5. queue'[SpectrumServerTypeCmd] = queue[SpectrumServerTypeCmd] => InQueue(t)' = InQueue(t)
  BY DEF InQueue
<1>6. ASSUME results' = results, InQueue(t)' = InQueue(t),
             specPc' # "capture" \/ (specPc' = specPc /\ spectrumTag' = spectrumTag)
      PROVE  CalledFor(t)'
  <2>1. Capturing(t)' <= Capturing(t)
    BY <1>3, <1>6 DEF Capturing, One
  <2>2. /\ Announcements(t) <= Announcements(t)' /\ Written(t)' <= Written(t)
        /\ LeftRunning(t)' <= LeftRunning(t) /\ InQueue(t)' <= InQueue(t) /\ Prepared(t)' <= Prepared(t)
    BY <1>2, <1>3, <1>4, <1>6
  <2>. QED
    BY <2>1, <2>2, CalledForStays
<1>7. CASE LaunchSpectrumServer
  <2>1. queue'[SpectrumServerTypeCmd] = queue[SpectrumServerTypeCmd]
    BY <1>0, <1>7, OpenQueueEffect DEF LaunchSpectrumServer, OpenFails, queueVars
  <2>2. results' = results /\ specPc' # "capture"
    BY <1>7 DEF LaunchSpectrumServer
  <2>. QED
    BY <1>5, <1>6, <2>1, <2>2
<1>8. CASE StreamSamples \/ PipelineFails
  BY <1>5, <1>6, <1>8 DEF StreamSamples, PipelineFails, queueVars
<1>9. CASE SpectrumAck
  <2>1. queue'[SpectrumServerTypeCmd] = queue[SpectrumServerTypeCmd]
    <3>1. CASE SendData(specQid, SpectrumServerTypeAck, Ack)
      BY <1>0, <3>1, SendDataEffect
    <3>. QED
      BY <1>9, <3>1 DEF SpectrumAck, SendDataFails, queueVars
  <2>2. results' = results /\ specPc' # "capture"
    BY <1>9 DEF SpectrumAck
  <2>. QED
    BY <1>5, <1>6, <2>1, <2>2
<1>10. CASE Measure
  <2>. DEFINE record == [tag |-> spectrumTag, gains |-> samples]
  <2>1. /\ record \in OutputRecord /\ (record \in RecordsWith(t) <=> spectrumTag = t)
        /\ results' = Append(results, record)
    BY <1>0, <1>10 DEF Measure, OutputRecord, RecordsWith
  <2>. HIDE DEF record
  <2>2. specPc = "capture" /\ specPc' = "ack" /\ spectrumTag' = spectrumTag
    BY <1>10 DEF Measure
  <2>3. InQueue(t)' = InQueue(t)
    BY <1>5, <1>10 DEF Measure, queueVars
  <2>4. CASE spectrumTag = t
    <3>1. Written(t)' = Written(t) + 1
      BY <1>0, <2>1, <2>4, OccurrencesAppend DEF Written
    <3>2. Capturing(t) = 1 /\ Capturing(t)' = 0
      BY <2>2, <2>4 DEF Capturing, One
    <3>3. Covers(Announcements(t), Written(t) + 1, LeftRunning(t), Capturing(t) - 1, InQueue(t), Prepared(t))
      BY <1>14, CoversAlong DEF CalledFor
    <3>. QED
      BY <1>2, <1>3, <2>3, <3>1, <3>2, <3>3 DEF CalledFor
  <2>5. CASE spectrumTag # t
    <3>1. Written(t)' = Written(t)
      BY <1>0, <2>1, <2>5, OccurrencesAppend DEF Written
    <3>2. Capturing(t)' = Capturing(t)
      BY <2>2, <2>5 DEF Capturing, One
    <3>. QED
      BY <1>2, <2>3, <3>1, <3>2 DEF CalledFor
  <2>. QED
    BY <2>4, <2>5
<1>11. CASE ReceiveData(specQid, SpectrumServerTypeCmd) /\ SpectrumReceive
  <2>. DEFINE body == Received(SpectrumServerTypeCmd)
  <2>1. /\ queue[SpectrumServerTypeCmd] # << >> /\ body \in Body
        /\ queue'[SpectrumServerTypeCmd] = Tail(queue[SpectrumServerTypeCmd])
    BY <1>0, <1>11, ReceiveDataEffect
  <2>2. specPc = "wait" /\ results' = results
    BY <1>11 DEF SpectrumReceive
  <2>3. body = Head(queue[SpectrumServerTypeCmd])
    BY DEF Received
  <2>4. /\ specPc' = SpectrumDecode(body) \/ specPc' = "exited"
        /\ specPc' = "capture" => spectrumTag' = body[2] /\ SpectrumDecode(body) = "capture"
    BY <1>11 DEF SpectrumReceive
  <2>. HIDE DEF body
  <2>5. /\ body = PowerCommand(t) => InQueue(t)' = InQueue(t) - 1
        /\ body # PowerCommand(t) => InQueue(t)' = InQueue(t)
    BY <1>0, <2>1, <2>3, OccurrencesTail DEF InQueue
  <2>6. Capturing(t) = 0
    BY <2>2 DEF Capturing, One
  <2>7. CASE specPc' = "capture" /\ spectrumTag' = t
    <3>1. body = PowerCommand(t)
      BY <2>1, <2>4, <2>7, CaptureOfCommand
    <3>2. Capturing(t)' = 1
      BY <2>7 DEF Capturing, One
    <3>3. Covers(Announcements(t), Written(t), LeftRunning(t), Capturing(t) + 1, InQueue(t) - 1, Prepared(t))
      BY <1>14, CoversAlong DEF CalledFor
    <3>. QED
      BY <1>2, <1>3, <1>4, <2>2, <2>5, <2>6, <3>1, <3>2, <3>3 DEF CalledFor
  <2>8. CASE ~(specPc' = "capture" /\ spectrumTag' = t)
    <3>1. Capturing(t)' = 0
      BY <2>8 DEF Capturing, One
    <3>2. InQueue(t)' <= InQueue(t)
      BY <1>3, <2>5
    <3>3. /\ Announcements(t) <= Announcements(t)' /\ Written(t)' <= Written(t)
          /\ LeftRunning(t)' <= LeftRunning(t) /\ Capturing(t)' <= Capturing(t) /\ Prepared(t)' <= Prepared(t)
      BY <1>2, <1>3, <1>4, <2>2, <2>6, <3>1
    <3>. QED
      BY <3>2, <3>3, CalledForStays
  <2>. QED
    BY <2>7, <2>8
<1>12. CASE ReceiveDataFails(specQid) /\ specPc' = "exited" /\ SpectrumReceive
  BY <1>5, <1>6, <1>12 DEF SpectrumReceive, ReceiveDataFails, queueVars
<1>13. CASE SpectrumReceive
  BY <1>11, <1>12, <1>13 DEF SpectrumReceive
<1>. QED
  BY <1>7, <1>8, <1>9, <1>10, <1>13 DEF SpectrumServing, SpectrumServerStep

(* The radio server, radio diags and what fails add nothing.                *)
LEMMA CalledForElsewhere ==
  ASSUME RestartTypeOK, RestartTypeOK', NEW t \in Int, CalledFor(t), UNCHANGED restartVars,
         RadioServing \/ DiagsServing \/ LinkBreaks \/ QueueVanishes \/ UNCHANGED vars
  PROVE  CalledFor(t)'
<1>. USE MessagesAreTyped, DistinctTypes
<1>0. QueueTypeOK
  BY DEF RestartTypeOK, TypeOK
<1>1. UNCHANGED <<logbook, announced, coordPc, tag, results, orphans, specPc, spectrumTag>>
  BY DEF RadioServing, DiagsServing, LinkBreaks, QueueVanishes, vars, restartVars,
     spectrumVars, coordVars
<1>2. /\ Announcements(t)' = Announcements(t) /\ Prepared(t)' = Prepared(t)
      /\ Written(t)' = Written(t) /\ LeftRunning(t)' = LeftRunning(t) /\ Capturing(t)' = Capturing(t)
  BY <1>1, CoordinatorUnchanged, MeasuringUnchanged
<1>3. CASE queue'[SpectrumServerTypeCmd] = queue[SpectrumServerTypeCmd]
  <2>1. InQueue(t)' = InQueue(t)
    BY <1>3 DEF InQueue
  <2>. QED
    BY <1>2, <2>1 DEF CalledFor
<1>4. CASE QueueVanishes
  <2>1. qid' = NoQueue /\ \A type \in MessageType : queue'[type] = << >>
    BY <1>0, <1>4, RemoveQueueEffect DEF QueueVanishes, QueueRemovedByOther
  <2>2. InQueue(t)' = 0
    BY <2>1, OccurrencesInNothing DEF InQueue
  <2>3. InQueue(t)' <= InQueue(t)
    BY <2>2, CountsAreTyped
  <2>4. /\ Announcements(t) <= Announcements(t)' /\ Written(t)' <= Written(t)
        /\ LeftRunning(t)' <= LeftRunning(t) /\ Capturing(t)' <= Capturing(t) /\ Prepared(t)' <= Prepared(t)
    <3>1. /\ Announcements(t) \in Nat /\ Written(t) \in Nat /\ LeftRunning(t) \in Nat
          /\ Capturing(t) \in 0 .. 1 /\ Prepared(t) \in 0 .. 1
      BY CountsAreTyped
    <3>. QED
      BY <1>2, <3>1
  <2>. QED
    BY <2>3, <2>4, CalledForStays
<1>5. CASE DiagsServing \/ LinkBreaks \/ UNCHANGED vars
  BY <1>3, <1>5 DEF DiagsServing, LinkBreaks, vars, queueVars
<1>6. CASE RadioServing
  <2>1. CASE SendData(radioQid, RadioServerTypeAck, Ack)
    BY <1>0, <1>3, <2>1, SendDataEffect
  <2>2. CASE ReceiveData(radioQid, RadioServerTypeCmd)
    BY <1>0, <1>3, <2>2, ReceiveDataEffect
  <2>3. CASE OpenQueue
    BY <1>0, <1>3, <2>3, OpenQueueEffect
  <2>4. CASE UNCHANGED queueVars
    BY <1>3, <2>4 DEF queueVars
  <2>. QED
    BY <1>6, <2>1, <2>2, <2>3, <2>4
       DEF RadioServing, RadioServerStep, LaunchRadioServer, RadioSend, RadioRead, RadioQuiet,
           RadioOpensQueue, RadioReceive, RadioAck, OpenFails, ReceiveDataFails, SendDataFails
<1>. QED
  BY <1>4, <1>5, <1>6

(* A kill leaves a capture as an orphan, and the orphan makes its record.   *)
LEMMA CalledForRestarts ==
  ASSUME RestartTypeOK, RestartTypeOK', NEW t \in Int, CalledFor(t),
         \/ RelaunchCoordinator \/ RelaunchRadioServer \/ RelaunchSpectrumServer
         \/ KillCoordinator \/ KillRadioServer \/ KillSpectrumServer
         \/ OrphanStreams \/ OrphanMeasures \/ OrphanHoldsPort
  PROVE  CalledFor(t)'
<1>0. /\ spectrumTag \in Int /\ samples \subseteq Int /\ radioGain \in Int
      /\ results \in Seq(OutputRecord) /\ orphans \in Seq(OutputRecord)
      /\ console \in Seq([tag : Int, gain : Int])
  BY ConcatProperties DEF RestartTypeOK, TypeOK, CoordTypeOK, SpectrumTypeOK, LinkTypeOK, console
<1>1. /\ Announcements(t) \in Nat /\ Written(t) \in Nat /\ LeftRunning(t) \in Nat /\ InQueue(t) \in Nat
      /\ Capturing(t) \in 0 .. 1 /\ Prepared(t) \in 0 .. 1 /\ Capturing(t)' \in 0 .. 1
  BY CountsAreTyped
<1>2. /\ Announcements(t) \in Int /\ Written(t) \in Int /\ LeftRunning(t) \in Int
      /\ Capturing(t) \in Int /\ InQueue(t) \in Int /\ Prepared(t) \in Int
  BY <1>1
<1>3. UNCHANGED queueVars
  BY DEF RelaunchCoordinator, RelaunchRadioServer, RelaunchSpectrumServer, KillCoordinator,
     KillRadioServer, KillSpectrumServer, OrphanStreams, OrphanMeasures, OrphanHoldsPort, vars
<1>4. InQueue(t)' = InQueue(t)
  BY <1>3 DEF queueVars, InQueue
<1>5. CASE RelaunchCoordinator \/ KillCoordinator
  <2>1. UNCHANGED <<results, orphans, specPc, spectrumTag>> /\ coordPc' \in {"off", "exited"}
    BY <1>5 DEF RelaunchCoordinator, KillCoordinator, spectrumVars
  <2>2. /\ Written(t)' = Written(t) /\ LeftRunning(t)' = LeftRunning(t) /\ Capturing(t)' = Capturing(t)
    BY <2>1, MeasuringUnchanged
  <2>3. Prepared(t)' = 0
    BY <2>1 DEF Prepared, One
  <2>4. console' = console
    <3>1. CASE RelaunchCoordinator
      BY <1>0, <3>1 DEF RelaunchCoordinator, console
    <3>2. CASE KillCoordinator
      BY <3>2 DEF KillCoordinator, Killed, console
    <3>. QED
      BY <1>5, <3>1, <3>2
  <2>5. Announcements(t)' = Announcements(t)
    BY <2>4 DEF Announcements
  <2>6. /\ Announcements(t) <= Announcements(t)' /\ Written(t)' <= Written(t)
        /\ LeftRunning(t)' <= LeftRunning(t) /\ Capturing(t)' <= Capturing(t)
        /\ InQueue(t)' <= InQueue(t) /\ Prepared(t)' <= Prepared(t)
    BY <1>1, <1>4, <2>2, <2>3, <2>5
  <2>. QED
    BY <2>6, CalledForStays
<1>6. CASE ~(RelaunchCoordinator \/ KillCoordinator)
  <2>1. UNCHANGED <<logbook, announced, coordPc, tag>>
    BY <1>6 DEF RelaunchRadioServer, RelaunchSpectrumServer, KillRadioServer,
       KillSpectrumServer, Killed,
       OrphanStreams, OrphanMeasures, OrphanHoldsPort, vars, restartVars, coordVars
  <2>2. Announcements(t)' = Announcements(t) /\ Prepared(t)' = Prepared(t)
    BY <2>1, CoordinatorUnchanged
  <2>3. CASE RelaunchRadioServer \/ KillRadioServer
    <3>1. UNCHANGED <<results, orphans, specPc, spectrumTag>>
      BY <2>3 DEF RelaunchRadioServer, KillRadioServer, restartVars, spectrumVars
    <3>. QED
      BY <1>4, <2>2, <3>1, MeasuringUnchanged DEF CalledFor
  <2>4. CASE \/ RelaunchSpectrumServer \/ OrphanHoldsPort
             \/ KillSpectrumServer /\ ~(specPc = "capture" /\ spectrumTag = t)
    <3>1. results' = results /\ specPc' # "capture"
      BY <2>4 DEF RelaunchSpectrumServer, OrphanHoldsPort, KillSpectrumServer
    <3>2. Written(t)' = Written(t) /\ Capturing(t)' = 0
      BY <3>1 DEF Written, Capturing, One
    <3>3. LeftRunning(t)' = LeftRunning(t)
      <4>1. CASE orphans' = orphans
        BY <4>1 DEF LeftRunning
      <4>2. CASE KillSpectrumServer /\ specPc = "capture" /\ spectrumTag # t
        <5>. DEFINE record == [tag |-> spectrumTag, gains |-> samples]
        <5>1. /\ record \in OutputRecord /\ record \notin RecordsWith(t)
              /\ orphans' = Append(orphans, record)
          BY <1>0, <4>2 DEF KillSpectrumServer, OutputRecord, RecordsWith
        <5>. HIDE DEF record
        <5>. QED
          BY <1>0, <5>1, OccurrencesAppend DEF LeftRunning
      <4>. QED
        BY <2>4, <4>1, <4>2 DEF RelaunchSpectrumServer, OrphanHoldsPort, KillSpectrumServer,
           restartVars
    <3>4. /\ Announcements(t) <= Announcements(t)' /\ Written(t)' <= Written(t)
          /\ LeftRunning(t)' <= LeftRunning(t) /\ Capturing(t)' <= Capturing(t)
          /\ InQueue(t)' <= InQueue(t) /\ Prepared(t)' <= Prepared(t)
      BY <1>1, <1>4, <2>2, <3>2, <3>3
    <3>. QED
      BY <3>4, CalledForStays
  <2>5. CASE KillSpectrumServer /\ specPc = "capture" /\ spectrumTag = t
    <3>. DEFINE record == [tag |-> spectrumTag, gains |-> samples]
    <3>1. /\ record \in OutputRecord /\ record \in RecordsWith(t)
          /\ orphans' = Append(orphans, record)
      BY <1>0, <2>5 DEF KillSpectrumServer, OutputRecord, RecordsWith
    <3>. HIDE DEF record
    <3>2. LeftRunning(t)' = LeftRunning(t) + 1
      BY <1>0, <3>1, OccurrencesAppend DEF LeftRunning
    <3>3. Capturing(t) = 1 /\ Capturing(t)' = 0
      BY <2>5 DEF KillSpectrumServer, Capturing, One
    <3>4. Written(t)' = Written(t)
      BY <2>5 DEF KillSpectrumServer, Written
    <3>5. Covers(Announcements(t), Written(t), LeftRunning(t) + 1, Capturing(t) - 1, InQueue(t), Prepared(t))
      BY <1>2, CoversAlong DEF CalledFor
    <3>. QED
      BY <1>2, <1>4, <2>2, <3>2, <3>3, <3>4, <3>5 DEF CalledFor
  <2>6. CASE OrphanStreams
    <3>1. PICK i \in DOMAIN orphans : orphans' = [orphans EXCEPT ![i].gains = @ \cup {radioGain}]
      BY <2>6 DEF OrphanStreams
    <3>2. /\ DOMAIN orphans' = DOMAIN orphans
          /\ \A k \in DOMAIN orphans : orphans'[k] \in RecordsWith(t) <=> orphans[k] \in RecordsWith(t)
      <4>1. orphans' \in Seq(OutputRecord) /\ DOMAIN orphans' = DOMAIN orphans
        BY <1>0, <3>1, OrphansAreRecords
      <4>2. \A k \in DOMAIN orphans : orphans[k] \in OutputRecord /\ orphans'[k] \in OutputRecord
        BY <1>0, <4>1
      <4>3. \A k \in DOMAIN orphans : orphans'[k].tag = orphans[k].tag
        BY <1>0, <3>1, <4>2 DEF OutputRecord
      <4>. QED
        BY <4>1, <4>2, <4>3 DEF RecordsWith
    <3>3. LeftRunning(t)' = LeftRunning(t)
      BY <3>2, OccurrencesAlike DEF LeftRunning
    <3>4. Written(t)' = Written(t) /\ Capturing(t)' = Capturing(t)
      BY <2>6 DEF OrphanStreams, vars, spectrumVars, Written, Capturing
    <3>. QED
      BY <1>4, <2>2, <3>3, <3>4 DEF CalledFor
  <2>7. CASE OrphanMeasures
    <3>1. PICK i \in DOMAIN orphans : results' = Append(results, orphans[i]) /\ orphans' = RemoveAt(orphans, i)
      BY <2>7 DEF OrphanMeasures
    <3>2. orphans[i] \in OutputRecord
      BY <1>0
    <3>3. Capturing(t)' = Capturing(t)
      BY <2>7 DEF OrphanMeasures, Capturing
    <3>4. CASE orphans[i] \in RecordsWith(t)
      <4>1. Written(t)' = Written(t) + 1
        BY <1>0, <3>1, <3>2, <3>4, OccurrencesAppend DEF Written
      <4>2. LeftRunning(t)' = LeftRunning(t) - 1
        BY <1>0, <3>1, <3>4, OccurrencesRemoveAt DEF LeftRunning
      <4>3. Covers(Announcements(t), Written(t) + 1, LeftRunning(t) - 1, Capturing(t), InQueue(t), Prepared(t))
        BY <1>2, CoversAlong DEF CalledFor
      <4>. QED
        BY <1>2, <1>4, <2>2, <3>3, <4>1, <4>2, <4>3 DEF CalledFor
    <3>5. CASE orphans[i] \notin RecordsWith(t)
      <4>1. Written(t)' = Written(t)
        BY <1>0, <3>1, <3>2, <3>5, OccurrencesAppend DEF Written
      <4>2. LeftRunning(t)' = LeftRunning(t)
        BY <1>0, <3>1, <3>5, OccurrencesRemoveAt DEF LeftRunning
      <4>. QED
        BY <1>4, <2>2, <3>3, <4>1, <4>2 DEF CalledFor
    <3>. QED
      BY <3>4, <3>5
  <2>. QED
    BY <1>6, <2>3, <2>4, <2>5, <2>6, <2>7
<1>. QED
  BY <1>5, <1>6

(* At the start nothing was announced, and nothing is called for.           *)
LEMMA CalledForInit == RestartInit => CalledForInv
<1>. SUFFICES ASSUME RestartInit, NEW t \in Int PROVE CalledFor(t)
  BY DEF CalledForInv
<1>1. /\ console = << >> /\ results = << >> /\ orphans = << >>
      /\ queue[SpectrumServerTypeCmd] = << >> /\ specPc = "off" /\ coordPc = "off"
  BY MessagesAreTyped DEF RestartInit, Init, QueueInit, EmptyQueue, CoordInit, SpectrumInit, console
<1>2. /\ Announcements(t) = 0 /\ Written(t) = 0 /\ LeftRunning(t) = 0 /\ InQueue(t) = 0
      /\ Capturing(t) = 0 /\ Prepared(t) = 0
  BY <1>1, OccurrencesInNothing
     DEF Announcements, Written, LeftRunning, InQueue, Capturing, Prepared, One
<1>. QED
  BY <1>2 DEF CalledFor, Covers

(* Every step keeps a line for each measurement.                            *)
LEMMA CalledForStep ==
  RestartTypeOK /\ CalledForInv /\ [RestartNext]_allVars => CalledForInv'
<1>. SUFFICES ASSUME RestartTypeOK, CalledForInv, [RestartNext]_allVars, NEW t \in Int
     PROVE  CalledFor(t)'
  BY DEF CalledForInv
<1>1. RestartTypeOK' /\ CalledFor(t)
  BY RestartTypeStep DEF CalledForInv
<1>2. CASE [Next]_vars /\ UNCHANGED restartVars
  <2>1. CASE Coordinating \/ UserActs
    BY <1>1, <1>2, <2>1, CalledForCoordinator
  <2>2. CASE SpectrumServing
    BY <1>1, <1>2, <2>2, CalledForSpectrumServer
  <2>3. CASE RadioServing \/ DiagsServing \/ LinkBreaks \/ QueueVanishes \/ UNCHANGED vars
    BY <1>1, <1>2, <2>3, CalledForElsewhere
  <2>. QED
    BY <1>2, <2>1, <2>2, <2>3 DEF Next, AllExited
<1>. QED
  BY <1>1, <1>2, RestartCases, CalledForRestarts

(* Whatever fails, whoever is killed and launched again: a tag has no more  *)
(* records than announcements, no command is measured twice.                *)
THEOREM NoRecordUncalledForHolds == RestartSpec => []NoRecordUncalledFor
<1>1. RestartTypeOK /\ CalledForInv => NoRecordUncalledFor
  <2>. SUFFICES ASSUME RestartTypeOK, CalledForInv, NEW i \in DOMAIN results
       PROVE  LinesOfTag(results, results[i].tag) <= LinesOfTag(console, results[i].tag)
    BY DEF NoRecordUncalledFor
  <2>0. /\ results \in Seq(OutputRecord) /\ console \in Seq([tag : Int, gain : Int])
    BY ConcatProperties DEF RestartTypeOK, TypeOK, CoordTypeOK, SpectrumTypeOK, console
  <2>. DEFINE t == results[i].tag
  <2>1. t \in Int
    <3>1. results[i] \in OutputRecord
      BY <2>0
    <3>. QED
      BY <3>1 DEF OutputRecord
  <2>. HIDE DEF t
  <2>2. LinesOfTag(results, t) = Written(t)
    <3>1. Places(results, RecordsWith(t)) = {k \in DOMAIN results : results[k].tag = t}
      BY <2>0 DEF Places, RecordsWith
    <3>. QED
      BY <3>1 DEF LinesOfTag, Written, Occurrences
  <2>3. LinesOfTag(console, t) = Announcements(t)
    <3>1. \A k \in DOMAIN console : console[k] \in LinesWith(t) <=> console[k].tag = t
      <4>. DEFINE L == [tag : Int, gain : Int]
      <4>1. console \in Seq(L)
        BY <2>0
      <4>. HIDE DEF L
      <4>2. \A k \in DOMAIN console : console[k] \in L
        BY <4>1
      <4>. QED
        BY <4>2 DEF LinesWith, L
    <3>2. Places(console, LinesWith(t)) = {k \in DOMAIN console : console[k].tag = t}
      BY <3>1 DEF Places
    <3>. QED
      BY <3>2 DEF LinesOfTag, Announcements, Occurrences
  <2>4. /\ Announcements(t) \in Nat /\ Written(t) \in Nat /\ LeftRunning(t) \in Nat /\ InQueue(t) \in Nat
        /\ Capturing(t) \in 0 .. 1 /\ Prepared(t) \in 0 .. 1
    BY <2>1, CountsAreTyped
  <2>5. Written(t) <= Announcements(t)
    BY <2>1, <2>4 DEF CalledForInv, CalledFor, Covers
  <2>. QED
    BY <2>2, <2>3, <2>5 DEF t
<1>. QED
  BY <1>1, RestartTypeInit, RestartTypeStep, CalledForInit, CalledForStep, PTL DEF RestartSpec

-----------------------------------------------------------------------------
(* The file follows the console.                                           *)

(* At the start nothing is on the console or in the file.                   *)
LEMMA FollowInit == RestartInit => FollowInv
<1>. SUFFICES ASSUME RestartInit PROVE FollowInv
  OBVIOUS
<1>1. RestartTypeOK /\ ProtocolInv /\ GainInv
  BY RestartTypeInit, MeasurementInit DEF RestartInit, MeasurementInv
<1>2. /\ radioPc = "off" /\ radioQid = NoQueue /\ specPc = "off" /\ coordPc = "off" /\ peerUp
      /\ queue = EmptyQueue /\ results = << >> /\ announced = << >>
      /\ logbook = << >> /\ orphans = << >>
  BY DEF RestartInit, Init, RadioInit, SpectrumInit, CoordInit, QueueInit, LinkInit
<1>3. queue[RadioServerTypeAck] = << >>
  BY <1>2, MessagesAreTyped DEF EmptyQueue
<1>4. console = << >>
  BY <1>2 DEF console
<1>5. OnOurQueue
  BY <1>2 DEF OnOurQueue
<1>6. RadioStays
  BY <1>2, <1>3 DEF RadioStays, MeasurementAhead, RadioAckWaits, PowerLegAhead
<1>7. OrphanInv /\ CaptureOfRound
  BY <1>2 DEF OrphanInv, CaptureOfRound
<1>8. LinesInStep
  BY <1>2, <1>4 DEF LinesInStep, One, Commanded
<1>9. FileFollowsConsole
  BY <1>2, <1>4 DEF FileFollowsConsole
<1>. QED
  BY <1>1, <1>5, <1>6, <1>7, <1>8, <1>9 DEF FollowInv

(* Nobody loses the queue before the coordinator ends.                      *)
LEMMA OnOurQueueStep ==
  ASSUME NoFaults, ProtocolInv, OnOurQueue, [Next]_vars
  PROVE  OnOurQueue'
<1>. USE CommandsAreTyped, DistinctTypes
<1>0. /\ QueueTypeOK /\ lastId \in Nat /\ RadioPhase /\ RadioLeg /\ SpectrumLeg
      /\ coordQid \in 0 .. lastId /\ radioQid \in 0 .. lastId /\ specQid \in 0 .. lastId
  BY DEF ProtocolInv, TypeOK, QueueTypeOK, CoordTypeOK, RadioTypeOK, SpectrumTypeOK
<1>1. CASE Coordinating \/ UserActs
  <2>0. UNCHANGED <<peerUp, radioQid, radioPc, specQid, specPc>>
    BY <1>1 DEF Coordinating, UserActs, linkVars, radioVars, spectrumVars
  <2>1. CASE LaunchCoordinator
    <3>1. /\ OpenQueue /\ coordQid' = OpenedId
      BY <2>1, CallsSucceed DEF LaunchCoordinator
    <3>2. Attached(coordQid)' /\ (qid # NoQueue => qid' = qid)
      BY <1>0, <3>1, OpenQueueEffect DEF Attached, NoQueue
    <3>. QED
      BY <2>0, <3>2 DEF OnOurQueue, Attached
  <2>2. CASE DestroyQueue
    <3>1. coordPc' = "exited" /\ coordPc = "destroy"
      BY <2>2 DEF DestroyQueue
    <3>2. ~RadioBusy /\ ~SpectrumBusy
      BY <1>0, <3>1 DEF RadioLeg, SpectrumLeg
    <3>. QED
      BY <2>0, <3>1, <3>2 DEF OnOurQueue, RadioBusy, SpectrumBusy
  <2>3. CASE ~LaunchCoordinator /\ ~DestroyQueue
    <3>1. qid' = qid /\ coordQid' = coordQid
      BY <1>1, <2>3 DEF Coordinating, UserActs, CoordinatorStep, UserStep, UserMeasure,
         UserExit, UserEndOfInput,
         SendIfGain, RadioAckArrives, SendPower, SpectrumAckArrives, GainLegDone, PowerLegDone,
         TerminateRadioServer, TerminateSpectrumServer, SendTerminate,
         SendData, SendDataFails, ReceiveData, ReceiveDataFails, queueVars
    <3>2. coordPc \notin {"off", "exited"}
      BY <1>1, <2>3 DEF Coordinating, UserActs, CoordinatorStep, UserStep, UserMeasure,
         UserExit, UserEndOfInput,
         SendIfGain, RadioAckArrives, SendPower, SpectrumAckArrives,
         TerminateRadioServer, TerminateSpectrumServer
    <3>. QED
      BY <2>0, <3>1, <3>2 DEF OnOurQueue, Attached
  <2>. QED
    BY <2>1, <2>2, <2>3
<1>2. CASE RadioServing
  <2>0. UNCHANGED <<specQid, specPc, coordQid, coordPc>>
    BY <1>2 DEF RadioServing, coordVars, spectrumVars
  <2>1. UNCHANGED peerUp
    BY <1>2 DEF RadioServing, RadioServerStep, LaunchRadioServer, RadioSend, RadioRead,
       RadioQuiet, RadioOpensQueue,
       RadioReceive, RadioAck, Connect, ConnectFails, SendOctets, SendRaisesSigpipe, ReadAvailable,
       ReadEndOfFile, SelectTimesOut, ReleasesConnection, Disconnect, linkVars
  <2>2. CASE RadioOpensQueue
    <3>1. OpenQueue /\ radioPc' = "wait"
      BY <2>2, CallsSucceed DEF RadioOpensQueue
    <3>2. qid # NoQueue => qid' = qid
      BY <1>0, <3>1, OpenQueueEffect
    <3>. QED
      BY <2>0, <2>1, <3>1, <3>2 DEF OnOurQueue, Attached
  <2>3. CASE ~RadioOpensQueue
    <3>1. qid' = qid /\ radioQid' = radioQid
      BY <1>2, <2>3 DEF RadioServing, RadioServerStep, LaunchRadioServer, RadioSend,
         RadioRead, RadioQuiet,
         RadioReceive, RadioAck, SendData, SendDataFails, ReceiveData, ReceiveDataFails,
         queueVars, radioVars
    <3>2. ASSUME radioQid # NoQueue, radioPc' \in {"send", "receive", "ack"} PROVE Attached(radioQid)
      <4>1. CASE LaunchRadioServer
        BY <1>0, <3>2, <4>1 DEF LaunchRadioServer, RadioPhase
      <4>2. CASE RadioReceive
        BY <3>2, <4>2 DEF RadioReceive, ReceiveData
      <4>3. CASE radioPc \in {"send", "receive", "ack"}
        BY <3>2, <4>3 DEF OnOurQueue
      <4>. QED
        BY <1>2, <2>3, <4>1, <4>2, <4>3 DEF RadioServing, RadioServerStep, RadioSend,
           RadioRead, RadioQuiet, RadioAck
    <3>. QED
      BY <2>0, <2>1, <3>1, <3>2 DEF OnOurQueue, Attached
  <2>. QED
    BY <2>2, <2>3
<1>3. CASE SpectrumServing
  <2>0. UNCHANGED <<peerUp, radioQid, radioPc, coordQid, coordPc>>
    BY <1>3 DEF SpectrumServing, coordVars, radioVars, linkVars
  <2>1. CASE LaunchSpectrumServer
    <3>1. OpenQueue /\ specPc' = "wait"
      BY <2>1, CallsSucceed DEF LaunchSpectrumServer
    <3>2. qid # NoQueue => qid' = qid
      BY <1>0, <3>1, OpenQueueEffect
    <3>. QED
      BY <2>0, <3>1, <3>2 DEF OnOurQueue, Attached
  <2>2. CASE ~LaunchSpectrumServer
    <3>1. qid' = qid /\ specQid' = specQid
      BY <1>3, <2>2 DEF SpectrumServing, SpectrumServerStep, SpectrumReceive, StreamSamples,
         Measure, PipelineFails,
         SpectrumAck, SendData, SendDataFails, ReceiveData, ReceiveDataFails, queueVars
    <3>2. specPc' \in {"capture", "ack"} => specPc \in {"capture", "ack"} \/ Attached(specQid)
      BY <1>3, <2>2 DEF SpectrumServing, SpectrumServerStep, SpectrumReceive, StreamSamples,
         Measure, PipelineFails,
         SpectrumAck, ReceiveData
    <3>. QED
      BY <2>0, <3>1, <3>2 DEF OnOurQueue, Attached
  <2>. QED
    BY <2>1, <2>2
<1>4. CASE DiagsServing
  BY <1>4 DEF DiagsServing, DiagsExecute, OnOurQueue, Attached, queueVars, radioVars,
     spectrumVars, coordVars
<1>5. CASE UNCHANGED vars
  BY <1>5 DEF vars, OnOurQueue, Attached, queueVars, linkVars, radioVars, spectrumVars, coordVars
<1>. QED
  BY <1>1, <1>2, <1>3, <1>4, <1>5, CallsSucceed DEF Next, AllExited

(* While a measurement is ahead the radio server has nothing to do.         *)
LEMMA RadioServerIsIdle ==
  ASSUME ProtocolInv, OnOurQueue, RadioStays, OrphanInv, MeasurementAhead
  PROVE  /\ radioPc = "wait" /\ Attached(radioQid) /\ queue[RadioServerTypeCmd] = << >>
         /\ coordPc \in {"gainAck", "sendPower", "powerAck"}
         /\ ~RadioServing
<1>1. RadioLeg /\ SpectrumLeg
  BY DEF ProtocolInv
<1>2. radioPc = "wait" /\ Attached(radioQid)
  BY DEF RadioStays
<1>3. /\ coordPc \in {"gainAck", "sendPower", "powerAck"}
      /\ queue[RadioServerTypeCmd] = << >>
  <2>1. CASE RadioAckWaits
    BY <1>1, <2>1 DEF RadioLeg
  <2>2. CASE PowerLegAhead \/ orphans # << >>
    BY <1>1, <2>2 DEF RadioLeg, PowerLegAhead, OrphanInv
  <2>3. CASE specPc = "capture"
    <3>1. SpectrumBusy
      BY <2>3 DEF OnOurQueue, SpectrumBusy
    <3>. QED
      BY <1>1, <3>1 DEF RadioLeg, SpectrumLeg
  <2>. QED
    BY <2>1, <2>2, <2>3 DEF MeasurementAhead
<1>4. ~RadioServing
  BY <1>2, <1>3 DEF RadioServing, RadioServerStep, LaunchRadioServer, RadioSend, RadioRead,
     RadioQuiet,
     RadioOpensQueue, RadioReceive, RadioAck, ReceiveData, ReceiveDataFails
<1>. QED
  BY <1>2, <1>3, <1>4

(* Without faults the key goes on to name the same queue, until the         *)
(* coordinator removes it.                                                  *)
LEMMA QueueStays ==
  ASSUME NoFaults, ProtocolInv, [Next]_vars, qid # NoQueue
  PROVE  qid' = qid \/ (DestroyQueue /\ UNCHANGED spectrumVars)
<1>0. QueueTypeOK
  BY DEF ProtocolInv, TypeOK
<1>1. OpenQueue => qid' = qid
  BY <1>0, OpenQueueEffect
<1>2. CASE Coordinating \/ UserActs
  BY <1>1, <1>2 DEF Coordinating, UserActs, CoordinatorStep, UserStep, UserMeasure,
     UserExit, UserEndOfInput,
     LaunchCoordinator, OpenFails, SendIfGain, RadioAckArrives, SendPower, SpectrumAckArrives,
     TerminateRadioServer, TerminateSpectrumServer, SendTerminate,
     SendData, SendDataFails, ReceiveData, ReceiveDataFails, queueVars
<1>3. CASE RadioServing
  BY <1>1, <1>3 DEF RadioServing, RadioServerStep, LaunchRadioServer, RadioSend, RadioRead,
     RadioQuiet,
     RadioOpensQueue, OpenFails, RadioReceive, RadioAck,
     SendData, SendDataFails, ReceiveData, ReceiveDataFails, queueVars, radioVars
<1>4. CASE SpectrumServing
  BY <1>1, <1>4 DEF SpectrumServing, SpectrumServerStep, LaunchSpectrumServer, OpenFails,
     SpectrumReceive,
     StreamSamples, Measure, PipelineFails,
     SpectrumAck, SendData, SendDataFails, ReceiveData, ReceiveDataFails, queueVars
<1>5. CASE DiagsServing \/ UNCHANGED vars
  BY <1>5 DEF DiagsServing, vars, queueVars
<1>. QED
  BY <1>2, <1>3, <1>4, <1>5, CallsSucceed DEF Next, AllExited

(* Only the radio server acknowledges a gain.                               *)
LEMMA RadioAcknowledges ==
  ASSUME ProtocolInv, [Next]_vars, RadioAckWaits'
  PROVE  \/ RadioAckWaits
         \/ radioPc' = "wait" /\ Attached(radioQid)'
<1>. USE CommandsAreTyped, DistinctTypes
<1>0. QueueTypeOK /\ tag \in Int /\ ifGain \in Int
  BY DEF ProtocolInv, TypeOK, CoordTypeOK
<1>. SUFFICES ASSUME ~RadioAckWaits PROVE radioPc' = "wait" /\ Attached(radioQid)'
  OBVIOUS
<1>1. queue[RadioServerTypeAck] = << >> /\ queue'[RadioServerTypeAck] # << >>
  BY DEF RadioAckWaits
<1>2. \A id : \A type \in MessageType : ~ReceiveData(id, type)
  <2>. SUFFICES ASSUME NEW id, NEW type \in MessageType, ReceiveData(id, type) PROVE FALSE
    OBVIOUS
  <2>1. CASE type = RadioServerTypeAck
    BY <1>1, <2>1 DEF ReceiveData
  <2>2. CASE type # RadioServerTypeAck
    BY <1>0, <1>1, <2>2, ReceiveDataEffect
  <2>. QED
    BY <2>1, <2>2
<1>3. \A id : \A type \in MessageType \ {RadioServerTypeAck} : \A body \in Body : ~SendData(id, type, body)
  BY <1>0, <1>1, SendDataEffect
<1>4. ~RemoveQueue
  BY <1>0, <1>1, RemoveQueueEffect
<1>5. queue' # queue
  BY <1>1
<1>6. ~(Coordinating \/ UserActs)
  BY <1>0, <1>2, <1>3, <1>4, <1>5
     DEF Coordinating, UserActs, CoordinatorStep, UserStep, UserMeasure, UserExit, UserEndOfInput,
         LaunchCoordinator, OpenQueue, OpenFails, SendIfGain, RadioAckArrives, SendPower,
         SpectrumAckArrives,
         TerminateRadioServer, TerminateSpectrumServer, SendTerminate, DestroyQueue, Destroy,
         SendDataFails, ReceiveDataFails, queueVars
<1>7. ~SpectrumServing
  BY <1>0, <1>2, <1>3, <1>5
     DEF SpectrumServing, SpectrumServerStep, LaunchSpectrumServer, OpenQueue, OpenFails, SpectrumReceive,
         StreamSamples, Measure, PipelineFails, SpectrumAck, SendDataFails,
         ReceiveDataFails, queueVars
<1>8. RadioServing /\ RadioAck
  BY <1>0, <1>2, <1>4, <1>5, <1>6, <1>7
     DEF Next, vars, AllExited, DiagsServing, LinkBreaks, QueueVanishes, QueueRemovedByOther,
         RadioServing, RadioServerStep, LaunchRadioServer, RadioSend, RadioRead, RadioQuiet,
         RadioOpensQueue, OpenQueue, OpenFails, RadioReceive, ReceiveDataFails, queueVars, radioVars
<1>9. SendData(radioQid, RadioServerTypeAck, Ack) /\ radioPc' = "wait" /\ radioQid' = radioQid
  BY <1>5, <1>8 DEF RadioAck, SendDataFails, queueVars
<1>. QED
  BY <1>9 DEF SendData, Attached

(* A measurement that is ahead was ahead, or has been acknowledged just now.*)
LEMMA AheadBefore ==
  ASSUME NoFaults, ProtocolInv, OnOurQueue, [Next]_vars, UNCHANGED orphans, MeasurementAhead'
  PROVE  \/ MeasurementAhead
         \/ radioPc' = "wait" /\ Attached(radioQid)'
<1>1. CASE RadioAckWaits'
  BY <1>1, RadioAcknowledges DEF MeasurementAhead
<1>2. CASE ~RadioAckWaits' /\ (Coordinating \/ UserActs) /\ UNCHANGED spectrumVars
  <2>0. /\ RoundAnnounced \/ RoundGoesOn \/ RoundOver \/ OutsideRounds
        /\ specPc' = specPc
    BY <1>2, CoordinatorMoves DEF spectrumVars
  <2>1. coordPc \notin {"off", "exited"} => Attached(coordQid)
    BY DEF OnOurQueue
  <2>2. ASSUME PowerLegAhead' PROVE MeasurementAhead
    <3>1. Commanded' /\ coordPc' \in {"sendPower", "powerAck"}
      BY <2>2 DEF PowerLegAhead, Commanded
    <3>2. ~RoundOver
      BY <1>2, <2>1, <3>1, RoundWithoutFaults
    <3>3. ~RoundAnnounced
      BY <1>2, <2>1, <3>1, RoundWithoutFaults
    <3>4. ~OutsideRounds
      BY <3>1 DEF OutsideRounds, LoopEntry
    <3>5. RadioAckWaits \/ coordPc = "sendPower"
      BY <1>2, <2>0, <2>1, <3>2, <3>3, <3>4, RoundWithoutFaults
    <3>. QED
      BY <3>5 DEF MeasurementAhead, PowerLegAhead
  <2>. QED
    BY <1>2, <2>0, <2>2 DEF MeasurementAhead
<1>3. CASE PowerCommandRead
  BY <1>3 DEF PowerCommandRead, Commanded, MeasurementAhead, PowerLegAhead
<1>4. CASE ~RadioAckWaits' /\ RecordWritten
  BY <1>4 DEF RecordWritten, MeasurementAhead
<1>5. CASE ~RadioAckWaits' /\ FileQuiet
  <2>1. /\ coordPc' = coordPc /\ (Commanded' => Commanded)
        /\ specPc' = "capture" => specPc = "capture"
    BY <1>5 DEF FileQuiet, coordVars
  <2>2. PowerLegAhead' => PowerLegAhead
    BY <2>1 DEF PowerLegAhead, Commanded
  <2>. QED
    BY <1>5, <2>1, <2>2 DEF MeasurementAhead
<1>. QED
  BY <1>1, <1>2, <1>3, <1>4, <1>5, FileSteps

(* The radio server that acknowledged stays on the queue for the power leg. *)
LEMMA RadioStaysStep ==
  ASSUME NoFaults, ProtocolInv, OnOurQueue, RadioStays, OrphanInv, [Next]_vars, UNCHANGED orphans
  PROVE  RadioStays'
<1>. SUFFICES ASSUME MeasurementAhead' PROVE (radioPc = "wait" /\ Attached(radioQid))'
  BY DEF RadioStays
<1>1. CASE MeasurementAhead
  <2>1. /\ radioPc = "wait" /\ Attached(radioQid) /\ ~RadioServing
        /\ coordPc \in {"gainAck", "sendPower", "powerAck"}
    BY <1>1, RadioServerIsIdle
  <2>2. qid' = qid
    BY <2>1, QueueStays DEF Attached, DestroyQueue
  <2>3. UNCHANGED <<radioPc, radioQid>>
    BY <2>1 DEF Next, vars, Coordinating, UserActs, SpectrumServing, DiagsServing,
       LinkBreaks, QueueVanishes,
       AllExited, radioVars
  <2>. QED
    BY <2>1, <2>2, <2>3 DEF Attached
<1>. QED
  BY <1>1, AheadBefore

(* Only the spectrum server, after a capture, acknowledges a measurement.   *)
LEMMA SpectrumAcknowledges ==
  ASSUME ProtocolInv, [Next]_vars, SpectrumAckWaits'
  PROVE  SpectrumAckWaits \/ specPc = "ack"
<1>. USE CommandsAreTyped, DistinctTypes
<1>0. QueueTypeOK /\ tag \in Int /\ ifGain \in Int
  BY DEF ProtocolInv, TypeOK, CoordTypeOK
<1>. SUFFICES ASSUME ~SpectrumAckWaits PROVE specPc = "ack"
  OBVIOUS
<1>1. queue[SpectrumServerTypeAck] = << >> /\ queue'[SpectrumServerTypeAck] # << >>
  BY DEF SpectrumAckWaits
<1>2. \A id : \A type \in MessageType : ~ReceiveData(id, type)
  <2>. SUFFICES ASSUME NEW id, NEW type \in MessageType, ReceiveData(id, type) PROVE FALSE
    OBVIOUS
  <2>1. CASE type = SpectrumServerTypeAck
    BY <1>1, <2>1 DEF ReceiveData
  <2>2. CASE type # SpectrumServerTypeAck
    BY <1>0, <1>1, <2>2, ReceiveDataEffect
  <2>. QED
    BY <2>1, <2>2
<1>3. \A id : \A type \in MessageType \ {SpectrumServerTypeAck} : \A body \in Body : ~SendData(id, type, body)
  BY <1>0, <1>1, SendDataEffect
<1>4. ~RemoveQueue
  BY <1>0, <1>1, RemoveQueueEffect
<1>5. queue' # queue
  BY <1>1
<1>6. ~(Coordinating \/ UserActs)
  BY <1>0, <1>2, <1>3, <1>4, <1>5
     DEF Coordinating, UserActs, CoordinatorStep, UserStep, UserMeasure, UserExit, UserEndOfInput,
         LaunchCoordinator, OpenQueue, OpenFails, SendIfGain, RadioAckArrives, SendPower,
         SpectrumAckArrives,
         TerminateRadioServer, TerminateSpectrumServer, SendTerminate, DestroyQueue, Destroy,
         SendDataFails, ReceiveDataFails, queueVars
<1>7. ~RadioServing
  BY <1>0, <1>2, <1>3, <1>5
     DEF RadioServing, RadioServerStep, LaunchRadioServer, RadioSend, RadioRead, RadioQuiet,
         RadioOpensQueue, OpenQueue, OpenFails, RadioReceive, RadioAck, SendDataFails,
         ReceiveDataFails,
         queueVars, radioVars
<1>8. SpectrumServing
  BY <1>4, <1>5, <1>6, <1>7
     DEF Next, vars, AllExited, DiagsServing, LinkBreaks, QueueVanishes, QueueRemovedByOther, queueVars
<1>. QED
  BY <1>2, <1>5, <1>8
     DEF SpectrumServing, SpectrumServerStep, LaunchSpectrumServer, OpenQueue, OpenFails, SpectrumReceive,
         StreamSamples, Measure, PipelineFails, SpectrumAck, ReceiveDataFails, queueVars

(* A radio that is settled stays so while its server does nothing.          *)
LEMMA SettledWhileIdle ==
  ASSUME NoFaults, AtGainOfLastRound, ~RadioServing, [Next]_vars, UNCHANGED <<announced, tag>>
  PROVE  AtGainOfLastRound'
<1>1. toRadio = << >> /\ RadioSettled
  BY DEF AtGainOfLastRound, RadioSettled
<1>2. radioGain' = radioGain
  BY <1>1, GainStays
<1>3. UNCHANGED <<setupStep, toRadio, radioPc>>
  BY <1>1, CallsSucceed
     DEF Next, vars, AllExited, Coordinating, UserActs, SpectrumServing, DiagsServing, DiagsExecute,
         radioVars, linkVars
<1>. QED
  BY <1>1, <1>2, <1>3 DEF AtGainOfLastRound, RadioSettled

(* Nothing but its orphan happens to a round whose server was killed.       *)
LEMMA OrphanInvStep ==
  ASSUME NoFaults, ProtocolInv, OnOurQueue, RadioStays, OrphanInv, [Next]_vars, UNCHANGED orphans
  PROVE  OrphanInv'
<1>. SUFFICES ASSUME orphans # << >> PROVE OrphanInv'
  BY DEF OrphanInv
<1>0. /\ Len(orphans) = 1 /\ coordPc = "powerAck" /\ specPc \notin {"capture", "ack"}
      /\ queue[SpectrumServerTypeCmd] = << >> /\ queue[SpectrumServerTypeAck] = << >>
      /\ AtGainOfLastRound /\ orphans[1].tag = tag /\ orphans[1].gains \subseteq {radioGain}
  BY DEF OrphanInv
<1>1. ~Commanded /\ ~SpectrumAckWaits
  BY <1>0 DEF Commanded, SpectrumAckWaits
<1>2. FileQuiet
  <2>1. ~((Coordinating \/ UserActs) /\ UNCHANGED spectrumVars)
    <3>. SUFFICES ASSUME Coordinating \/ UserActs PROVE FALSE
      OBVIOUS
    <3>1. coordPc \notin {"off", "exited"} => Attached(coordQid)
      BY DEF OnOurQueue
    <3>2. RoundOver
      BY <1>0, CoordinatorMoves DEF RoundAnnounced, RoundGoesOn, OutsideRounds
    <3>. QED
      BY <1>1, <3>1, <3>2, RoundWithoutFaults
  <2>2. ~PowerCommandRead /\ ~RecordWritten
    BY <1>0, <1>1 DEF PowerCommandRead, RecordWritten
  <2>. QED
    BY <2>1, <2>2, FileSteps
<1>3. /\ UNCHANGED <<coordPc, tag, announced>> /\ specPc' \notin {"capture", "ack"} /\ ~Commanded'
  BY <1>0, <1>1, <1>2 DEF FileQuiet, coordVars
<1>4. queue'[SpectrumServerTypeCmd] = << >>
  BY <1>0, <1>3 DEF Commanded
<1>5. queue'[SpectrumServerTypeAck] = << >>
  BY <1>0, <1>1, SpectrumAcknowledges DEF SpectrumAckWaits
<1>6. ~RadioServing
  BY RadioServerIsIdle DEF MeasurementAhead
<1>7. AtGainOfLastRound' /\ radioGain' = radioGain
  BY <1>0, <1>3, <1>6, SettledWhileIdle, GainStays DEF AtGainOfLastRound, RadioSettled
<1>. QED
  BY <1>0, <1>3, <1>4, <1>5, <1>7 DEF OrphanInv

(* A capture that the spectrum server runs is that of the round.            *)
LEMMA CaptureOfRoundStep ==
  ASSUME NoFaults, ProtocolInv, RoundInv, OnOurQueue, RadioStays, OrphanInv, CaptureOfRound, [Next]_vars
  PROVE  CaptureOfRound'
<1>. SUFFICES ASSUME specPc' = "capture" PROVE spectrumTag' = tag' /\ AtGainOfLastRound'
  BY DEF CaptureOfRound
<1>1. CASE PowerCommandRead
  <2>1. spectrumTag' = tag /\ UNCHANGED <<announced, tag>> /\ PowerLegAhead
    BY <1>1 DEF PowerCommandRead, coordVars, Commanded, PowerLegAhead
  <2>2. AtGainOfLastRound
    BY <1>1 DEF PowerCommandRead, Commanded, RoundInv
  <2>3. ~RadioServing
    BY <2>1, RadioServerIsIdle DEF MeasurementAhead
  <2>. QED
    BY <2>1, <2>2, <2>3, SettledWhileIdle
<1>2. CASE ~PowerCommandRead
  <2>1. specPc = "capture"
    BY <1>2, FileSteps DEF RecordWritten, FileQuiet, spectrumVars
  <2>2. spectrumTag = tag /\ AtGainOfLastRound
    BY <2>1 DEF CaptureOfRound
  <2>3. SpectrumBusy
    BY <2>1 DEF OnOurQueue, SpectrumBusy
  <2>4. coordPc = "powerAck" /\ ~SpectrumAckWaits
    BY <2>3 DEF ProtocolInv, SpectrumLeg, SpectrumAckWaits
  <2>5. ~((Coordinating \/ UserActs) /\ UNCHANGED spectrumVars)
    <3>. SUFFICES ASSUME Coordinating \/ UserActs PROVE FALSE
      OBVIOUS
    <3>1. coordPc \notin {"off", "exited"} => Attached(coordQid)
      BY DEF OnOurQueue
    <3>2. RoundOver
      BY <2>4, CoordinatorMoves DEF RoundAnnounced, RoundGoesOn, OutsideRounds
    <3>. QED
      BY <2>4, <3>1, <3>2, RoundWithoutFaults
  <2>6. FileQuiet
    BY <1>2, <2>5, FileSteps DEF RecordWritten
  <2>7. spectrumTag' = spectrumTag /\ UNCHANGED <<announced, tag>>
    BY <2>6 DEF FileQuiet, coordVars
  <2>8. ~RadioServing
    BY <2>1, RadioServerIsIdle DEF MeasurementAhead
  <2>. QED
    BY <2>2, <2>7, <2>8, SettledWhileIdle
<1>. QED
  BY <1>1, <1>2

-----------------------------------------------------------------------------
(* The console of several lives, and the file.                              *)

(* The console of the lives so far and of this one.                         *)
LEMMA ConsoleOfLives ==
  ASSUME NEW S, NEW before \in Seq(S), NEW now \in Seq(S)
  PROVE  /\ before \o now \in Seq(S)
         /\ Len(before \o now) = Len(before) + Len(now)
         /\ now # << >> => (before \o now)[Len(before \o now)] = now[Len(now)]
         /\ \A line \in S : before \o Append(now, line) = Append(before \o now, line)
<1>1. /\ before \o now \in Seq(S) /\ Len(before \o now) = Len(before) + Len(now)
  BY ConcatProperties
<1>2. ASSUME now # << >> PROVE (before \o now)[Len(before \o now)] = now[Len(now)]
  <2>1. Len(before) \in Nat /\ Len(now) \in Nat \ {0}
    BY <1>2
  <2>2. Len(before) + Len(now) \in 1 .. Len(before) + Len(now) /\ Len(before) + Len(now) > Len(before)
        /\ (Len(before) + Len(now)) - Len(before) = Len(now)
    BY <2>1
  <2>. QED
    BY <1>1, <2>2, ConcatProperties
<1>3. ASSUME NEW line \in S PROVE before \o Append(now, line) = Append(before \o now, line)
  OBVIOUS
<1>. QED
  BY <1>1, <1>2, <1>3

(* The record of the last line goes where the line is.                      *)
LEMMA RecordOfLastLine ==
  ASSUME FileFollowsConsole, results \in Seq(OutputRecord), NEW t \in Int, NEW g \in Int,
         console \in Seq([tag : Int, gain : Int]),
         Len(console) = Len(results) + 1, console[Len(console)] = [tag |-> t, gain |-> g],
         results' = Append(results, [tag |-> t, gains |-> {g}]), console' = console
  PROVE  FileFollowsConsole'
<1>1. [tag |-> t, gains |-> {g}] \in OutputRecord
  BY DEF OutputRecord
<1>. DEFINE n == Len(results)
            r == [tag |-> t, gains |-> {g}]
<1>2. n \in Nat /\ DOMAIN results = 1 .. n /\ r \in OutputRecord
  BY <1>1
<1>3. r = [tag |-> console[n + 1].tag, gains |-> {console[n + 1].gain}]
  OBVIOUS
<1>4. \A k \in 1 .. n : results[k] = [tag |-> console[k].tag, gains |-> {console[k].gain}]
  BY <1>2 DEF FileFollowsConsole
<1>5. results' = Append(results, r)
  OBVIOUS
<1>. HIDE DEF r
<1>6. /\ DOMAIN results' = 1 .. n + 1 /\ Len(results') = n + 1
      /\ results'[n + 1] = r /\ \A k \in 1 .. n : results'[k] = results[k]
  BY <1>2, <1>5
<1>. HIDE DEF n
<1>7. \A k \in DOMAIN results' : results'[k] = [tag |-> console[k].tag, gains |-> {console[k].gain}]
  <2>. SUFFICES ASSUME NEW k \in 1 .. n + 1
                PROVE  results'[k] = [tag |-> console[k].tag, gains |-> {console[k].gain}]
    BY <1>6
  <2>1. CASE k = n + 1
    BY <1>3, <1>6, <2>1
  <2>2. CASE k # n + 1
    <3>1. k \in 1 .. n
      BY <1>2, <2>2
    <3>. QED
      BY <1>4, <1>6, <3>1
  <2>. QED
    BY <2>1, <2>2
<1>8. Len(results') <= Len(console')
  BY <1>2, <1>6 DEF n
<1>. QED
  BY <1>7, <1>8 DEF FileFollowsConsole

(* A file that follows the console still does when there are more lines.    *)
LEMMA FollowsLongerConsole ==
  ASSUME FileFollowsConsole, results' = results, results \in Seq(OutputRecord),
         console \in Seq([tag : Int, gain : Int]),
         \/ console' = console
         \/ \E line \in [tag : Int, gain : Int] : console' = Append(console, line)
  PROVE  FileFollowsConsole'
<1>1. CASE console' = console
  BY <1>1 DEF FileFollowsConsole
<1>2. ASSUME NEW line \in [tag : Int, gain : Int], console' = Append(console, line)
      PROVE  FileFollowsConsole'
  <2>. DEFINE n == Len(results)
              m == Len(console)
              L == [tag : Int, gain : Int]
  <2>1. console \in Seq(L) /\ line \in L
    OBVIOUS
  <2>. HIDE DEF L
  <2>2. /\ m \in Nat /\ n \in Nat /\ n <= m
        /\ DOMAIN results = 1 .. n
    BY DEF FileFollowsConsole
  <2>3. Len(console') = m + 1 /\ \A k \in 1 .. m : console'[k] = console[k]
    BY <1>2, <2>1
  <2>. HIDE DEF n, m
  <2>4. \A k \in 1 .. n : console'[k] = console[k]
    BY <2>2, <2>3
  <2>5. Len(results') <= Len(console')
    BY <2>2, <2>3 DEF n
  <2>. QED
    BY <2>2, <2>4, <2>5 DEF FileFollowsConsole
<1>. QED
  BY <1>1, <1>2

(* What a step of the programs does to the file and the console.            *)
LEMMA LinesAndFileStep ==
  ASSUME NoFaults, FollowInv, [Next]_vars, UNCHANGED restartVars
  PROVE  LinesInStep' /\ FileFollowsConsole'
<1>. DEFINE L == [tag : Int, gain : Int]
<1>0. /\ RestartTypeOK /\ ProtocolInv /\ GainInv /\ OnOurQueue /\ OrphanInv /\ CaptureOfRound
      /\ LinesInStep /\ FileFollowsConsole
  BY DEF FollowInv
<1>1. /\ logbook \in Seq(L) /\ announced \in Seq(L) /\ results \in Seq(OutputRecord)
      /\ tag \in Int /\ ifGain \in Int /\ radioGain \in Int
      /\ orphans \in Seq(OutputRecord)
  BY <1>0 DEF RestartTypeOK, TypeOK, CoordTypeOK, SpectrumTypeOK, LinkTypeOK
<1>2. UNCHANGED <<orphans, logbook>>
  BY DEF restartVars
<1>3. [tag |-> tag, gain |-> ifGain] \in L
  BY <1>1
<1>4. /\ Len(results) + One(specPc = "capture") + Len(orphans) + One(Commanded) = Len(console)
      /\ console = logbook \o announced /\ console' = logbook \o announced'
  BY <1>0, <1>2 DEF LinesInStep, console
<1>. HIDE DEF L
<1>5. console \in Seq(L) /\ Len(console) \in Nat /\ Len(results) \in Nat /\ Len(orphans) \in Nat
  BY <1>1, <1>4, ConsoleOfLives
<1>6. CASE (Coordinating \/ UserActs) /\ UNCHANGED spectrumVars
  <2>0. /\ RoundAnnounced \/ RoundGoesOn \/ RoundOver \/ OutsideRounds
        /\ UNCHANGED <<specPc, results>>
    BY <1>6, CoordinatorMoves DEF spectrumVars
  <2>1. coordPc \notin {"off", "exited"} => Attached(coordQid)
    BY <1>0 DEF OnOurQueue
  <2>2. CASE RoundAnnounced
    <3>1. ~Commanded /\ Commanded'
      BY <2>2 DEF RoundAnnounced, Commanded
    <3>2. console' = Append(console, [tag |-> tag, gain |-> ifGain])
      BY <1>1, <1>3, <1>4, <2>2, ConsoleOfLives DEF RoundAnnounced
    <3>3. Len(console') = Len(console) + 1
      BY <1>3, <1>5, <3>2
    <3>4. LinesInStep'
      <4>1. One(Commanded) = 0 /\ One(Commanded)' = 1
        BY <3>1 DEF One
      <4>2. One(specPc = "capture")' = One(specPc = "capture") /\ One(specPc = "capture") \in 0 .. 1
        BY <2>0 DEF One
      <4>. QED
        BY <1>2, <1>4, <1>5, <2>0, <3>3, <4>1, <4>2 DEF LinesInStep
    <3>5. FileFollowsConsole'
      BY <1>0, <1>1, <1>3, <1>5, <2>0, <3>2, FollowsLongerConsole DEF L
    <3>. QED
      BY <3>4, <3>5
  <2>3. CASE ~RoundAnnounced
    <3>1. announced' = announced
      BY <2>0, <2>3 DEF RoundGoesOn, RoundOver, OutsideRounds
    <3>2. Commanded' = Commanded
      <4>1. RoundGoesOn => Commanded /\ Commanded'
        BY <1>0, <1>6, <2>1, RoundWithoutFaults
      <4>2. RoundOver => ~Commanded /\ ~Commanded'
        BY <1>0, <1>6, <2>1, RoundWithoutFaults
      <4>3. OutsideRounds => ~Commanded /\ ~Commanded'
        BY DEF OutsideRounds, Commanded, LoopEntry
      <4>4. Commanded' \in BOOLEAN /\ Commanded \in BOOLEAN
        BY DEF Commanded
      <4>. QED
        BY <2>0, <2>3, <4>1, <4>2, <4>3, <4>4
    <3>3. console' = console
      BY <1>4, <3>1
    <3>4. LinesInStep'
      BY <1>2, <1>4, <2>0, <3>2, <3>3 DEF LinesInStep, One
    <3>. QED
      BY <1>0, <1>1, <1>5, <2>0, <3>3, <3>4, FollowsLongerConsole DEF L
  <2>. QED
    BY <2>2, <2>3
<1>7. CASE PowerCommandRead
  <2>1. /\ specPc # "capture" /\ specPc' = "capture" /\ Commanded /\ ~Commanded'
        /\ UNCHANGED <<results, announced>>
    BY <1>7 DEF PowerCommandRead, coordVars
  <2>2. console' = console
    BY <1>4, <2>1
  <2>3. LinesInStep'
    BY <1>2, <1>4, <1>5, <2>1, <2>2 DEF LinesInStep, One
  <2>. QED
    BY <1>0, <1>1, <1>5, <2>1, <2>2, <2>3, FollowsLongerConsole DEF L
<1>8. CASE RecordWritten
  <2>1. /\ specPc = "capture" /\ specPc' = "ack" /\ Commanded' = Commanded /\ announced' = announced
        /\ samples # {} /\ results' = Append(results, [tag |-> spectrumTag, gains |-> samples])
    BY <1>8 DEF RecordWritten, coordVars
  <2>2. samples = {radioGain} /\ spectrumTag = tag /\ AtGainOfLastRound
    BY <1>0, <2>1 DEF GainInv, CaptureInv, CaptureOfRound
  <2>3. SpectrumBusy
    BY <1>0, <2>1 DEF OnOurQueue, SpectrumBusy
  <2>4. ~Commanded /\ orphans = << >>
    BY <1>0, <2>1, <2>3 DEF ProtocolInv, SpectrumLeg, Commanded, OrphanInv
  <2>5. console' = console
    BY <1>4, <2>1
  <2>6. Len(console) = Len(results) + 1
    BY <1>4, <1>5, <2>1, <2>4 DEF One
  <2>7. console[Len(console)] = [tag |-> tag, gain |-> radioGain]
    BY <1>1, <1>4, <2>2, ConsoleOfLives DEF AtGainOfLastRound
  <2>8. Len(results') = Len(results) + 1
    <3>1. [tag |-> spectrumTag, gains |-> samples] \in OutputRecord
      BY <1>1, <2>2 DEF OutputRecord
    <3>. QED
      BY <1>1, <2>1, <3>1
  <2>9. LinesInStep'
    BY <1>2, <1>4, <1>5, <2>1, <2>4, <2>5, <2>6, <2>8 DEF LinesInStep, One
  <2>10. FileFollowsConsole'
    BY <1>0, <1>1, <1>5, <2>1, <2>2, <2>5, <2>6, <2>7, RecordOfLastLine DEF L
  <2>. QED
    BY <2>9, <2>10
<1>9. CASE FileQuiet
  <2>1. /\ UNCHANGED <<results, announced>> /\ (specPc = "capture") = (specPc' = "capture")
        /\ Commanded' = Commanded
    BY <1>9 DEF FileQuiet, coordVars, NoFaults, Commanded
  <2>2. console' = console
    BY <1>4, <2>1
  <2>3. LinesInStep'
    BY <1>2, <1>4, <2>1, <2>2 DEF LinesInStep, One
  <2>. QED
    BY <1>0, <1>1, <1>5, <2>1, <2>2, <2>3, FollowsLongerConsole DEF L
<1>. QED
  BY <1>0, <1>6, <1>7, <1>8, <1>9, FileSteps

-----------------------------------------------------------------------------
(* Killed and launched again.                                               *)

(* A step of the programs.                                                  *)
LEMMA FollowOrdinary ==
  ASSUME NoFaults, FollowInv, [Next]_vars, UNCHANGED restartVars
  PROVE  FollowInv'
<1>1. /\ RestartTypeOK /\ ProtocolInv /\ GainInv /\ OnOurQueue /\ RadioStays /\ OrphanInv /\ CaptureOfRound
      /\ RoundInv /\ UNCHANGED orphans
  BY DEF FollowInv, GainInv, restartVars
<1>2. TypeOK /\ kills \in 0 .. MaxKills /\ launches \in 1 .. MaxLaunches
  BY <1>1 DEF RestartTypeOK
<1>3. RestartTypeOK'
  BY <1>1, TypeStep DEF RestartTypeOK, restartVars
<1>4. ProtocolInv' /\ GainInv'
  BY <1>1, WeakerConditions, GainStep
<1>5. OnOurQueue'
  BY <1>1, OnOurQueueStep
<1>6. RadioStays' /\ OrphanInv' /\ CaptureOfRound'
  BY <1>1, RadioStaysStep, OrphanInvStep, CaptureOfRoundStep
<1>. QED
  BY <1>3, <1>4, <1>5, <1>6, LinesAndFileStep DEF FollowInv

(* The coordinator is killed at its prompt, or launched again: nothing is   *)
(* under way then.                                                          *)
LEMMA FollowCoordinatorLives ==
  ASSUME FollowInv, RestartTypeOK', RadioPhase',
         coordPc \in {"prompt", "exited"}, coordPc' \in {"off", "exited"}, console' = console,
         UNCHANGED <<queueVars, linkVars, diagsVars, radioVars, spectrumVars, orphans>>
  PROVE  FollowInv'
<1>1. /\ ProtocolInv /\ GainInv /\ OnOurQueue /\ RadioStays /\ OrphanInv /\ LinesInStep
      /\ FileFollowsConsole /\ LinkInv /\ ServedGainInv /\ RadioLeg /\ SpectrumLeg
      /\ UNCHANGED <<qid, lastId, queue, connected, peerUp, toRadio, fromRadio, radioGain, configured,
                     radioPc, radioQid, setupStep, radioCommand,
                     specPc, specQid, spectrumTag, samples, results>>
  BY DEF FollowInv, GainInv, ProtocolInv, queueVars, linkVars, diagsVars, radioVars, spectrumVars
<1>2. RadioLegIdle /\ SpectrumLegIdle
  BY <1>1, IdleLegs
<1>3. ~RadioAckWaits /\ ~RadioBusy /\ specPc \notin {"capture", "ack"} /\ orphans = << >>
  BY <1>1, <1>2 DEF RadioLegIdle, SpectrumLegIdle, RadioAckWaits, SpectrumBusy, OnOurQueue,
     OrphanInv
<1>4. RadioLegIdle' /\ SpectrumLegIdle'
  BY <1>1, <1>2 DEF RadioLegIdle, SpectrumLegIdle, RadioBusy, SpectrumBusy, Attached
<1>5. ProtocolInv'
  BY <1>4 DEF ProtocolInv, RestartTypeOK, RadioLeg, SpectrumLeg, RadioLegIdle, SpectrumLegIdle,
     RadioAckWaits, SpectrumAckWaits
<1>6. ~RadioAckWaits' /\ ~RadioBusy'
  BY <1>4 DEF RadioLegIdle, RadioAckWaits
<1>7. GainInv'
  <2>1. LinkInv'
    BY <1>1 DEF LinkInv
  <2>2. ServedGainInv'
    BY <1>1, <1>6 DEF ServedGainInv, GainApplied
  <2>3. RoundInv' /\ CaptureInv'
    BY <1>1, <1>3, <1>6 DEF RoundInv, CaptureInv, NoRetuneDuringCapture
  <2>. QED
    BY <2>1, <2>2, <2>3 DEF GainInv
<1>8. OnOurQueue'
  BY <1>1 DEF OnOurQueue, Attached
<1>9. RadioStays' /\ OrphanInv' /\ CaptureOfRound'
  BY <1>1, <1>3, <1>6 DEF RadioStays, MeasurementAhead, PowerLegAhead, OrphanInv, CaptureOfRound
<1>10. LinesInStep' /\ FileFollowsConsole'
  BY <1>1, <1>3 DEF LinesInStep, One, Commanded, FileFollowsConsole
<1>. QED
  BY <1>5, <1>7, <1>8, <1>9, <1>10 DEF FollowInv

(* The radio server is killed while it is not idle, or launched again: no   *)
(* measurement is ahead.                                                    *)
LEMMA FollowRadioServerLives ==
  ASSUME FollowInv, RestartTypeOK', RadioPhase',
         radioPc # "wait", radioPc' \in {"off", "killed"}, toRadio' # << >> => radioPc' = "killed",
         UNCHANGED <<peerUp, queueVars, diagsVars, coordVars, spectrumVars, orphans, logbook>>
  PROVE  FollowInv'
<1>1. /\ ProtocolInv /\ GainInv /\ OnOurQueue /\ RadioStays /\ OrphanInv /\ LinesInStep
      /\ FileFollowsConsole /\ RadioLeg /\ SpectrumLeg /\ RoundInv /\ CaptureInv
      /\ UNCHANGED <<qid, lastId, queue, radioGain, coordPc, coordQid, tag, announced,
                     specPc, specQid, spectrumTag, samples, results>>
  BY DEF FollowInv, GainInv, ProtocolInv, queueVars, diagsVars, coordVars, spectrumVars
<1>2. ~MeasurementAhead
  BY <1>1 DEF RadioStays
<1>3. ~MeasurementAhead'
  BY <1>1, <1>2 DEF MeasurementAhead, RadioAckWaits, PowerLegAhead
<1>4. ProtocolInv'
  <2>1. ~RadioBusy'
    BY DEF RadioBusy
  <2>2. RadioLeg'
    BY <1>1, <2>1 DEF RadioLeg, RadioAckWaits, Attached
  <2>3. SpectrumLeg'
    BY <1>1 DEF SpectrumLeg, SpectrumBusy, SpectrumAckWaits, Attached
  <2>. QED
    BY <2>2, <2>3 DEF ProtocolInv, RestartTypeOK
<1>5. GainInv'
  <2>1. LinkInv' /\ ServedGainInv'
    BY DEF LinkInv, ServedGainInv
  <2>2. RoundInv'
    BY <1>1, <1>3 DEF RoundInv, MeasurementAhead, PowerLegAhead
  <2>3. CaptureInv'
    BY <1>1, <1>3 DEF CaptureInv, NoRetuneDuringCapture, MeasurementAhead
  <2>. QED
    BY <2>1, <2>2, <2>3 DEF GainInv
<1>6. OnOurQueue'
  BY <1>1 DEF OnOurQueue, Attached
<1>7. RadioStays' /\ OrphanInv' /\ CaptureOfRound'
  BY <1>3 DEF RadioStays, MeasurementAhead, OrphanInv, CaptureOfRound
<1>8. LinesInStep' /\ FileFollowsConsole'
  <2>1. console' = console
    BY <1>1 DEF console
  <2>. QED
    BY <1>1, <2>1 DEF LinesInStep, One, Commanded, FileFollowsConsole
<1>. QED
  BY <1>4, <1>5, <1>6, <1>7, <1>8 DEF FollowInv

(* The spectrum server is killed or launched again, or an orphan goes on:   *)
(* the round is as before.                                                  *)
LEMMA RoundAround ==
  ASSUME RestartTypeOK', RadioPhase',
         ProtocolInv, GainInv, OnOurQueue, RadioStays, CaptureOfRound,
         UNCHANGED <<queueVars, linkVars, diagsVars, radioVars, coordVars>>,
         specPc' \notin {"capture", "ack"} \/ UNCHANGED <<specPc, specQid, spectrumTag, samples>>,
         orphans' # << >> => orphans # << >> \/ specPc = "capture"
  PROVE  ProtocolInv' /\ GainInv' /\ OnOurQueue' /\ RadioStays' /\ CaptureOfRound'
<1>1. /\ RadioLeg /\ SpectrumLeg /\ LinkInv /\ ServedGainInv /\ RoundInv /\ CaptureInv
      /\ UNCHANGED <<qid, lastId, queue, connected, peerUp, toRadio, fromRadio, radioGain, configured,
                     radioPc, radioQid, setupStep, radioCommand, coordPc, coordQid, tag, announced>>
  BY DEF GainInv, ProtocolInv, queueVars, linkVars, diagsVars, radioVars, coordVars
<1>2. SpectrumBusy' => SpectrumBusy
  BY <1>1 DEF SpectrumBusy, Attached
<1>3. ProtocolInv'
  <2>1. RadioLeg'
    BY <1>1 DEF RadioLeg, RadioBusy, RadioAckWaits, Attached
  <2>2. SpectrumLeg'
    BY <1>1, <1>2 DEF SpectrumLeg, SpectrumAckWaits, Attached
  <2>. QED
    BY <2>1, <2>2 DEF ProtocolInv, RestartTypeOK
<1>4. GainInv'
  <2>1. LinkInv' /\ ServedGainInv'
    BY <1>1 DEF LinkInv, ServedGainInv, GainApplied, RadioBusy, Attached
  <2>2. RoundInv'
    BY <1>1 DEF RoundInv, RadioAckWaits, RadioSettled, AtGainOfLastRound, Attached
  <2>3. CaptureInv'
    BY <1>1 DEF CaptureInv, NoRetuneDuringCapture, RadioSettled
  <2>. QED
    BY <2>1, <2>2, <2>3 DEF GainInv
<1>5. OnOurQueue'
  BY <1>1 DEF OnOurQueue, Attached
<1>6. RadioStays'
  <2>1. MeasurementAhead' => MeasurementAhead
    BY <1>1 DEF MeasurementAhead, RadioAckWaits, PowerLegAhead
  <2>. QED
    BY <1>1, <2>1 DEF RadioStays, Attached
<1>7. CaptureOfRound'
  BY <1>1 DEF CaptureOfRound, AtGainOfLastRound, RadioSettled
<1>. QED
  BY <1>3, <1>4, <1>5, <1>6, <1>7

(* A spectrum server that is killed while it captures leaves the one        *)
(* orphan; elsewhere it leaves nothing, and nothing does the next one.      *)
LEMMA FollowSpectrumServerLives ==
  ASSUME FollowInv, RestartTypeOK', RadioPhase', KillSpectrumServer \/ RelaunchSpectrumServer
  PROVE  FollowInv'
<1>0. /\ RestartTypeOK /\ ProtocolInv /\ GainInv /\ OnOurQueue /\ RadioStays /\ OrphanInv
      /\ CaptureOfRound /\ LinesInStep /\ FileFollowsConsole /\ SpectrumLeg /\ CaptureInv
  BY DEF FollowInv, GainInv, ProtocolInv
<1>1. /\ UNCHANGED <<queueVars, linkVars, diagsVars, radioVars, coordVars, results, logbook>>
      /\ specPc' \in {"off", "exited"}
  BY DEF KillSpectrumServer, RelaunchSpectrumServer, Killed, restartVars
<1>2. /\ UNCHANGED <<queue, coordPc, coordQid, tag, announced, radioGain, setupStep, toRadio, radioPc>>
      /\ console' = console /\ Commanded' = Commanded
  BY <1>1 DEF queueVars, linkVars, diagsVars, radioVars, coordVars, console, Commanded
<1>3. CASE orphans' = orphans /\ specPc # "capture"
  <2>1. ProtocolInv' /\ GainInv' /\ OnOurQueue' /\ RadioStays' /\ CaptureOfRound'
    BY <1>0, <1>1, <1>3, RoundAround
  <2>2. OrphanInv'
    BY <1>0, <1>1, <1>2, <1>3 DEF OrphanInv, AtGainOfLastRound, RadioSettled
  <2>3. LinesInStep' /\ FileFollowsConsole'
    BY <1>0, <1>1, <1>2, <1>3 DEF LinesInStep, One, FileFollowsConsole
  <2>. QED
    BY <2>1, <2>2, <2>3 DEF FollowInv
<1>4. CASE /\ specPc = "capture"
           /\ orphans' = Append(orphans, [tag |-> spectrumTag, gains |-> samples])
  <2>1. ProtocolInv' /\ GainInv' /\ OnOurQueue' /\ RadioStays' /\ CaptureOfRound'
    BY <1>0, <1>1, <1>4, RoundAround
  <2>2. SpectrumBusy /\ orphans = << >> /\ spectrumTag = tag /\ AtGainOfLastRound /\ samples \subseteq {radioGain}
    BY <1>0, <1>4 DEF OnOurQueue, SpectrumBusy, OrphanInv, CaptureOfRound, CaptureInv
  <2>3. /\ coordPc = "powerAck" /\ queue[SpectrumServerTypeCmd] = << >> /\ queue[SpectrumServerTypeAck] = << >>
    BY <1>0, <2>2 DEF SpectrumLeg
  <2>4. orphans' = <<[tag |-> tag, gains |-> samples]>>
    BY <1>4, <2>2
  <2>5. /\ Len(orphans') = 1 /\ orphans'[1].tag = tag /\ orphans'[1].gains = samples
        /\ Len(orphans) = 0
    BY <2>2, <2>4
  <2>6. AtGainOfLastRound'
    BY <1>2, <2>2 DEF AtGainOfLastRound, RadioSettled
  <2>7. OrphanInv'
    BY <1>1, <1>2, <2>2, <2>3, <2>5, <2>6 DEF OrphanInv
  <2>8. LinesInStep'
    <3>1. /\ results \in Seq(OutputRecord) /\ Len(results) \in Nat
          /\ One(Commanded) \in 0 .. 1 /\ One(Commanded)' = One(Commanded)
      BY <1>0, <1>2 DEF RestartTypeOK, TypeOK, SpectrumTypeOK, One
    <3>2. One(specPc = "capture") = 1 /\ One(specPc = "capture")' = 0
      BY <1>1, <1>4 DEF One
    <3>. QED
      BY <1>0, <1>1, <1>2, <2>5, <3>1, <3>2 DEF LinesInStep
  <2>9. FileFollowsConsole'
    BY <1>0, <1>1, <1>2 DEF FileFollowsConsole
  <2>. QED
    BY <2>1, <2>7, <2>8, <2>9 DEF FollowInv
<1>. QED
  BY <1>3, <1>4 DEF KillSpectrumServer, RelaunchSpectrumServer, restartVars

(* An orphan sees the gain of the round.                                    *)
LEMMA FollowOrphanStreams ==
  ASSUME FollowInv, RestartTypeOK', RadioPhase', OrphanStreams
  PROVE  FollowInv'
<1>0. /\ RestartTypeOK /\ ProtocolInv /\ GainInv /\ OnOurQueue /\ RadioStays /\ OrphanInv
      /\ CaptureOfRound /\ LinesInStep /\ FileFollowsConsole
  BY DEF FollowInv
<1>1. PICK i \in DOMAIN orphans : orphans' = [orphans EXCEPT ![i].gains = @ \cup {radioGain}]
  BY DEF OrphanStreams
<1>2. orphans \in Seq(OutputRecord) /\ orphans # << >>
  BY <1>0, <1>1 DEF RestartTypeOK
<1>3. Len(orphans) = 1 /\ orphans[1].gains \subseteq {radioGain} /\ orphans[1].tag = tag
  BY <1>0, <1>2 DEF OrphanInv
<1>4. i = 1 /\ 1 \in DOMAIN orphans
  BY <1>1, <1>2, <1>3
<1>5. /\ Len(orphans') = 1 /\ orphans'[1].tag = tag /\ orphans'[1].gains = orphans[1].gains \cup {radioGain}
  <2>1. orphans[1] \in OutputRecord
    BY <1>2, <1>4
  <2>2. orphans' = [orphans EXCEPT ![1] = [orphans[1] EXCEPT !.gains = @ \cup {radioGain}]]
    BY <1>1, <1>4
  <2>3. orphans'[1] = [orphans[1] EXCEPT !.gains = @ \cup {radioGain}] /\ Len(orphans') = Len(orphans)
    BY <1>2, <1>4, <2>2
  <2>. QED
    BY <1>3, <2>1, <2>3 DEF OutputRecord
<1>6. /\ UNCHANGED <<queueVars, linkVars, diagsVars, radioVars, coordVars, specPc, specQid, spectrumTag,
                     samples, results, logbook>>
      /\ UNCHANGED <<queue, coordPc, coordQid, tag, announced, radioGain, setupStep, toRadio, radioPc>>
  BY DEF OrphanStreams, vars, queueVars, linkVars, diagsVars, radioVars, coordVars, spectrumVars
<1>7. ProtocolInv' /\ GainInv' /\ OnOurQueue' /\ RadioStays' /\ CaptureOfRound'
  BY <1>0, <1>2, <1>6, RoundAround
<1>8. OrphanInv'
  BY <1>0, <1>2, <1>3, <1>5, <1>6 DEF OrphanInv, AtGainOfLastRound, RadioSettled
<1>9. LinesInStep' /\ FileFollowsConsole'
  <2>1. console' = console /\ Commanded' = Commanded
    BY <1>6 DEF console, Commanded
  <2>. QED
    BY <1>0, <1>3, <1>5, <1>6, <2>1 DEF LinesInStep, One, FileFollowsConsole
<1>. QED
  BY <1>7, <1>8, <1>9 DEF FollowInv

(* An orphan writes the record of the last line of the console.             *)
LEMMA FollowOrphanMeasures ==
  ASSUME FollowInv, RestartTypeOK', RadioPhase', OrphanMeasures
  PROVE  FollowInv'
<1>0. /\ RestartTypeOK /\ ProtocolInv /\ GainInv /\ OnOurQueue /\ RadioStays /\ OrphanInv
      /\ CaptureOfRound /\ LinesInStep /\ FileFollowsConsole
  BY DEF FollowInv
<1>1. PICK i \in DOMAIN orphans : /\ orphans[i].gains # {} /\ results' = Append(results, orphans[i])
                                  /\ orphans' = RemoveAt(orphans, i)
  BY DEF OrphanMeasures
<1>2. /\ orphans \in Seq(OutputRecord) /\ results \in Seq(OutputRecord) /\ orphans # << >>
      /\ logbook \in Seq([tag : Int, gain : Int]) /\ announced \in Seq([tag : Int, gain : Int])
      /\ tag \in Int /\ radioGain \in Int
  <2>1. orphans \in Seq(OutputRecord) /\ logbook \in Seq([tag : Int, gain : Int])
    BY <1>0 DEF RestartTypeOK
  <2>2. results \in Seq(OutputRecord)
    BY <1>0 DEF RestartTypeOK, TypeOK, SpectrumTypeOK
  <2>3. announced \in Seq([tag : Int, gain : Int]) /\ tag \in Int
    BY <1>0 DEF RestartTypeOK, TypeOK, CoordTypeOK
  <2>4. radioGain \in Int
    BY <1>0 DEF RestartTypeOK, TypeOK, LinkTypeOK
  <2>. QED
    BY <1>1, <2>1, <2>2, <2>3, <2>4
<1>3. /\ Len(orphans) = 1 /\ orphans[1].gains \subseteq {radioGain} /\ orphans[1].tag = tag
      /\ AtGainOfLastRound /\ coordPc = "powerAck" /\ specPc \notin {"capture", "ack"}
      /\ queue[SpectrumServerTypeCmd] = << >>
  BY <1>0, <1>2 DEF OrphanInv
<1>4. i = 1 /\ 1 \in DOMAIN orphans
  BY <1>1, <1>2, <1>3
<1>5. orphans[1] = [tag |-> tag, gains |-> {radioGain}]
  <2>1. orphans[1] \in OutputRecord
    BY <1>2, <1>4
  <2>2. orphans[1].gains = {radioGain}
    BY <1>1, <1>3, <1>4
  <2>. QED
    BY <1>3, <2>1, <2>2 DEF OutputRecord
<1>6. orphans' = << >>
  <2>1. RemoveAt(orphans, 1) = SubSeq(orphans, 1, 0) \o SubSeq(orphans, 2, Len(orphans))
    BY DEF RemoveAt
  <2>2. SubSeq(orphans, 1, 0) = << >> /\ SubSeq(orphans, 2, 1) = << >>
    BY <1>2
  <2>. QED
    BY <1>1, <1>3, <1>4, <2>1, <2>2
<1>7. /\ UNCHANGED <<queueVars, linkVars, diagsVars, radioVars, coordVars, specPc, specQid, spectrumTag,
                     samples, logbook>>
      /\ UNCHANGED <<queue, coordPc, announced>>
  BY DEF OrphanMeasures, queueVars, coordVars
<1>8. ProtocolInv' /\ GainInv' /\ OnOurQueue' /\ RadioStays' /\ CaptureOfRound'
  BY <1>0, <1>6, <1>7, RoundAround
<1>9. OrphanInv'
  BY <1>6 DEF OrphanInv
<1>10. console' = console /\ ~Commanded /\ ~Commanded'
  BY <1>3, <1>7 DEF console, Commanded
<1>11. Len(console) = Len(results) + 1
  <2>1. One(specPc = "capture") = 0 /\ One(Commanded) = 0 /\ Len(results) \in Nat
    BY <1>2, <1>3, <1>10 DEF One
  <2>. QED
    BY <1>0, <1>3, <2>1 DEF LinesInStep
<1>12. console[Len(console)] = [tag |-> tag, gain |-> radioGain] /\ console \in Seq([tag : Int, gain : Int])
  BY <1>2, <1>3, ConsoleOfLives DEF console, AtGainOfLastRound
<1>13. FileFollowsConsole'
  BY <1>0, <1>1, <1>2, <1>4, <1>5, <1>10, <1>11, <1>12, RecordOfLastLine
<1>14. LinesInStep'
  <2>1. Len(results') = Len(results) + 1 /\ Len(results) \in Nat
    BY <1>1, <1>2, <1>4
  <2>2. One(specPc = "capture")' = 0 /\ One(Commanded)' = 0 /\ Len(orphans') = 0
    BY <1>3, <1>6, <1>7, <1>10 DEF One
  <2>. QED
    BY <1>10, <1>11, <2>1, <2>2 DEF LinesInStep
<1>. QED
  BY <1>8, <1>9, <1>13, <1>14 DEF FollowInv

(* Every step, with whatever is killed gently and launched again.           *)
LEMMA FollowStep ==
  ASSUME NoFaults, GentleKills
  PROVE  FollowInv /\ [RestartNext]_allVars => FollowInv'
<1>. SUFFICES ASSUME FollowInv, [RestartNext]_allVars PROVE FollowInv'
  OBVIOUS
<1>1. /\ RestartTypeOK /\ RadioPhase /\ OnOurQueue /\ OrphanInv
  BY DEF FollowInv, ProtocolInv
<1>2. RestartTypeOK' /\ RadioPhase'
  BY <1>1, RestartTypeStep, RestartRadioPhase
<1>3. CASE [Next]_vars /\ UNCHANGED restartVars
  BY <1>3, FollowOrdinary
<1>4. CASE KillCoordinator
  <2>1. coordPc = "prompt"
    <3>1. <<"coordinator", coordPc>> \in KillPoints
      BY <1>4 DEF KillCoordinator, Killed
    <3>. QED
      BY <3>1 DEF GentleKills
  <2>2. coordPc' = "exited" /\ console' = console
    BY <1>4 DEF KillCoordinator, Killed, console
  <2>. QED
    BY <1>2, <1>4, <2>1, <2>2, FollowCoordinatorLives DEF KillCoordinator
<1>5. CASE RelaunchCoordinator
  <2>1. console' = console
    <3>1. logbook' = console /\ announced' = << >> /\ console \in Seq([tag : Int, gain : Int])
      BY <1>1, <1>5, ConsoleOfLives DEF RelaunchCoordinator, RestartTypeOK, TypeOK,
         CoordTypeOK, console
    <3>2. console' = logbook' \o << >>
      BY <3>1 DEF console
    <3>. QED
      BY <3>1, <3>2
  <2>. QED
    BY <1>2, <1>5, <2>1, FollowCoordinatorLives DEF RelaunchCoordinator
<1>6. CASE KillRadioServer
  <2>1. radioPc # "wait"
    <3>1. <<"radioServer", radioPc>> \in KillPoints
      BY <1>6 DEF KillRadioServer, Killed
    <3>. QED
      BY <3>1 DEF GentleKills
  <2>. QED
    BY <1>2, <1>6, <2>1, FollowRadioServerLives DEF KillRadioServer, Killed, Disconnect
<1>7. CASE RelaunchRadioServer
  BY <1>2, <1>7, FollowRadioServerLives DEF RelaunchRadioServer, restartVars
<1>8. CASE KillSpectrumServer \/ RelaunchSpectrumServer
  BY <1>2, <1>8, FollowSpectrumServerLives
<1>9. CASE OrphanStreams \/ OrphanMeasures
  BY <1>2, <1>9, FollowOrphanStreams, FollowOrphanMeasures
<1>10. ~OrphanHoldsPort
  BY <1>1 DEF OrphanHoldsPort, OrphanInv
<1>. QED
  BY <1>3, <1>4, <1>5, <1>6, <1>7, <1>8, <1>9, <1>10, RestartCases

(* Without faults, and when the coordinator is killed only at its prompt,   *)
(* the radio server only while it is not idle, and the spectrum server      *)
(* anywhere: over all campaigns, however many programs are killed and       *)
(* launched again, the k-th record of the file is that of the k-th line of  *)
(* the console.                                                             *)
THEOREM FileFollowsConsoleHolds ==
  ASSUME NoFaults, GentleKills
  PROVE  RestartSpec => []FileFollowsConsole
<1>1. FollowInv => FileFollowsConsole
  BY DEF FollowInv
<1>2. FollowInv /\ [RestartNext]_allVars => FollowInv'
  BY FollowStep
<1>. QED
  BY <1>1, <1>2, FollowInit, PTL DEF RestartSpec

=============================================================================
