# A TLA+ model of R82xxTunerTester

The tuner tester measures how the gain of an rtl-sdr radio follows its IF gain
setting. Three programs cooperate over one System V message queue: the
*coordinator* commands, for every measurement, an IF gain from the *radio
server* and a power measurement from the *spectrum server*. This directory
holds TLA+ models of the programs and of the classes they are built on, TLC
configurations that check them on small instances, and theorems about them that
TLAPS has checked.

## 1. The system

| part | state it keeps | operations |
|---|---|---|
| message definitions (`include/R82xxTunerTester.h`) | none | four message types, three opcodes |
| `IpcMessageQueue` | the kernel's queue and each object's `queueIdentifier` | constructor (`msgget`), destructor (`IPC_RMID` if asked to), `sendData`, `receiveData`, both blocking |
| `TcpClient` | the socket, `connected` | constructor (`connect`), `sendData`, `receiveData` (reads until 200 ms of silence) |
| radio server (`radioServer.cc`) | its position, the command it serves | connect, set up script, open queue, receive, decode, command the radio, acknowledge, terminate |
| spectrum server (`spectrumServer.cc`) | its position, the output file | open queue, receive, decode, run `netcat \| spectrumProcessor >> file`, acknowledge, terminate |
| coordinator (`coordinator.cc`) | `ifGain`, `tag`, `success`, `done` | manual mode (`m`, `e`, end of input), automatic mode, terminate both servers, remove the queue |
| spectrum processor (`spectrumProcessor.cc`, `SpectrumProcessor.cc`) | FFT buffers, shift table | read a block, convert it, add the power of the band `-n` times, one record out |
| `getUserArguments` of the four programs | the settings | one `getopt` loop each |
| test clients (`test/`) | as the coordinator, one server each | `r` or `m`, `e`, end of input; open the same queue, and remove it at exit |
| prototypes (`rapidPrototype/`) | one message each | request, response, remove the queue; with the queue class and without it |
| radio diags (not in this repository) | the radio | executes and answers text commands over TCP, streams IQ samples over UDP |

Interaction: coordinator and servers only by messages of the queue (one type
for the commands to and one for the acknowledgements of each server); radio
server and radio diags by TCP; radio and pipeline by UDP; coordinator and user
by the terminal. Nothing outlives its program but the queue, the output file, the
gain of the radio and the pipeline of a spectrum server that was killed.

What is hard here: the programs start in any order; an acknowledgement carries
no number that says what it answers; calls on the queue block, and fail when
somebody removes it; `receiveData` of the TCP client takes silence for the end
of a response, and both of its loops meet a network that cuts what they send
and read anywhere; the coordinator overwrites or ignores the results of its
steps; it removes the queue without waiting for anybody, and a test client does
so in the middle of other programs' work; a program that is killed leaves the
queue, and messages, to the next one; the spectrum processor turns bandwidths
into bin indices and permutes an FFT. `PROJECT.json` lists each hazard at its
line.

What makes each part correct:

- queue: an identifier never comes back to life; a message is read once, in
  order within its type; a removed queue releases everybody who waits on it.
- TCP client: `receiveData` returns, and not before the response is complete.
- radio server: acknowledges a gain only when the radio has it.
- spectrum server: one record per command, of samples from one gain.
- coordinator: gain and tag follow their ranges, one step per round; it ends.
- spectrum processor: the record is the mean power of exactly the bins within
  the bandwidth.
- command lines: an option has the value it was given, whatever else is there.
- the whole: the output file is that of the abstract campaign, and all programs
  return, also campaign after campaign.

## 2. The modules

| module | models | notes |
|---|---|---|
| `R82xxTunerTester` | the header | also the constant `Faults`, see below |
| `IpcMessageQueue` | the class and the kernel's queue | `qid` is the identifier the key names now, `queue` one FIFO per type (enough, as every `msgrcv` names a type) |
| `TcpClient` | the class and radio diags | whole commands and responses instead of octets |
| `RadioServer`, `SpectrumServer`, `Coordinator` | the three programs | a program counter per program; one action per system call, with the computation that follows it |
| `TunerTester` | their composition, all properties | |
| `TestCampaign` | what the tester promises, abstractly | no processes, no messages: the k-th record has the k-th tag and the k-th gain |
| `TunerTesterInvariant` | the inductive invariants | |
| `ServerProofs` | lemmas | what each action of the queue and of the two servers does, whoever they serve; the theorems on the tester, on restarts and on the test clients build on them |
| `TunerTesterProofs` | theorems | about types and stop and wait; about gains; about the order of the file, whatever fails; about the campaign without faults |
| `MCTunerTester` | small campaigns for TLC | |
| `Restarts`, `MCRestarts` | `TunerTester` over several launches: campaign after campaign, killed programs | adds kills, the user who launches again, and orphaned pipelines |
| `RestartsInvariant`, `RestartsProofs` | their inductive invariants, and theorems | |
| `TestClients` | both test clients with both servers | one text for the two clients, which differ in the server they talk to |
| `TestClientsInvariant`, `TestClientsProofs` | their inductive invariants, and theorems | |
| `TcpStream` | `sendData` and `receiveData` on octets, radio diags at the other end | shown to implement `TcpExchange` |
| `TcpStreamProofs` | theorems | |
| `TcpExchange` | the exchange of commands and answers, in the actions of `TcpClient` | what `RadioServer` is built on |
| `SpectrumProcessor`, `MCSpectrumProcessor` | `spectrumProcessor.cc` and the class | everything around the FFT that decides which number ends up where |
| `SpectrumProcessorProofs` | theorems | |
| `UserArguments`, `MCUserArguments` | the four `getopt` loops as one | checked against a definition without a loop |
| `UserArgumentsProofs` | theorems | |
| `RapidPrototype` | the four message queue programs of `rapidPrototype/` | on their own queue (project 1) |
| `RapidPrototypeProofs` | theorems | |

`RadioServer` and `SpectrumServer` extend `IpcMessageQueue` and `TcpClient`,
`Coordinator` extends `IpcMessageQueue`, `TunerTester` extends all three,
`Restarts` extends `TunerTester`. `TestClients` extends the two servers,
`RapidPrototype` the queue, `TcpExchange` the TCP client. `SpectrumProcessor`,
`UserArguments` and `TcpStream` stand by themselves.

State and code:

- `coordPc`, `radioPc`, `specPc`: where a program is; the comment at each value
  names the call it is in. `coordQid`, `radioQid`, `specQid` are the
  `queueIdentifier` of each program's object. Comparing it with `qid`
  (`Attached`) decides whether a call on the queue works or fails.
- A message body is the sequence of numbers `sscanf` finds in it; its length
  plays the role of `sscanf`'s count.
- `setupStep` walks through the seven fixed commands and the frequency of
  `radioServer.cc:410-421`. `AfterResponse` is the return from
  `sendRadioCommand` to whoever called it.
- `fromRadio` counts the responses that wait in the socket. `receiveData`'s
  loop is three actions: `ReadAvailable`, `ReadEndOfFile` and `SelectTimesOut`,
  of which only the last leaves it.
- `ReleasesConnection` is the radio server's `delete` of its `TcpClient` at the
  exits of `main`, whose destructor closes the socket (`Disconnect`);
  `SendRaisesSigpipe` the send on a connection that radio diags has closed.
  `OpenFailsAndRemoves` is `ipcClient.cc` deleting the object of a failed
  constructor: after a failed `ftok()` its `queueIdentifier` was never assigned,
  and may name the queue.
- A sample is the gain of the radio when it was taken: `StreamSamples` collects
  gains while the pipeline runs and `Measure` writes the record. One record may
  therefore hold several gains, which is what must not happen.
- `announced` is the console: the lines `tag: %d    ifGain: %d` that a round
  followed. With it the properties can compare the file with what the
  coordinator meant.
- `Restarts`: a kill sets the program counter to its end and leaves the queue,
  the radio and, of a capturing spectrum server, the pipeline (`orphans`), which
  goes on to write its record and keeps port 8001 meanwhile. A relaunch resets
  what `main` initializes. `logbook` is the console of the earlier coordinators.
- `SpectrumProcessor`: `spectralPowerBuffer` holds at each index the number of
  the FFT bin whose power the code stores there, and `times` counts how often a
  bin's power was added; the record is right when `times` is. `Stale` is memory
  that nothing was stored in.
- `UserArguments`: a token is the letter after its dash, if any, and the number
  `atoi` finds in it. One action per kind of thing `getopt` returns.
- `TcpStream`: octet i of message k is `<<k, i>>`. `octetPtr`,
  `octetsRemaining` and `octetsSent` are `sendData`'s variables; `Unknown` is
  the octet before the buffer.
- `TestClients`: `Goes` moves a client through `main`; `asked` holds the values
  its server was sent.
- The mapping of every definition to its lines is in `PROJECT.json`, "map".

**Faults.** `Faults` names what may go wrong in a run: `openFails` (a
constructor), `sendFails` (`msgsnd` with the queue intact), `queueRemoved` (by
a test client), `linkClosed` (radio diags goes, or never was there),
`lateReply` (radio diags answers later than 200 ms), `pipelineFails` (no
record). The normal case `Faults = {}` assumes that radio diags answers within
200 ms. SIGPIPE, which nothing handles, kills the radio server when it sends on
a closed connection.

**Bounds.** `MaxMessages` is the capacity of the kernel queue (in the code
`msgmnb` octets). `MaxRounds` bounds only how often the user presses `m`.
`ArgSet` holds the command lines. `IntMax` is `INT_MAX`: 7 in the run
`normal`, whose highest tag is 6, the last one that works, and beyond all tags
elsewhere. What `++` does at `INT_MAX` is undefined; `Incremented` allows both
what wrapping and what a compiler that reasons without overflow gives.
`Restarts` adds `KillPoints` (where programs may be killed), `MaxKills` and
`MaxLaunches` (of the coordinator; the servers are launched as long as a
campaign needs them). `SpectrumProcessor` has `N` (8192 in the code, 8 in the
runs, any even number in the theorems) and `ByteSize` (256, 16 in the runs, any
even number in the theorems). `UserArguments` has `WordSize` (2^32; 16 in the
runs). `TcpStream` has the lengths of commands, answers and socket buffers in
octets, `Exchanges`, and `SendErrors`, how often `send()` returns -1.
`TestClients` has `MaxKeys`, how often each user presses `r` or `m`, and counters
below `INT_MAX`.
Queue identifiers are never reused in the model; Linux reuses one only after
all sequence numbers have been round.

## 3. Properties

The tester (`TunerTester.tla`): `TypeOK`; `StopAndWait` (per server at
most one thing under way, a command that waits, a command the server works on or
an acknowledgement, and no acknowledgement without its wait);
`NoRetuneDuringCapture`; `RecordsGenuine` (each record was measured at the gain
announced with its tag); `RecordsInOrder` (no record twice, tags of an
automatic campaign ascending); `LockStep` (console and file in step);
`LoopRunsAsSpecified` (an automatic campaign announces no tag past its last
one); `ServersStayUntilTold` (action property). Liveness: `CampaignCompletes`,
`ServersFollowCoordinator`, `ExitKeyTerminatesServers`, `ReceiveDataReturns`.
Refinement: `ImplementsCampaign`, that is `TestCampaign!FairSpec` with
`records <- results`: safety (the next record is always the right one) and
liveness (an automatic campaign goes on).

Over several launches (`Restarts.tla`): `FileFollowsConsole` (over all
campaigns the k-th record is the k-th announcement's), `NoRecordUncalledFor`
(no announcement is measured twice, whoever is killed), `OneLeftPerKill`
(`StopAndWait` again, with one thing more per leg for each program that was
killed, however many rounds follow);
`EveryCampaignCompletes` (also when servers are killed and launched again,
unless one of them was at work on a command), `QueueRemovalReleasesServers`.

Test clients (`TestClients.tla`): `PromptMeansGainSet`, `RecordsAsAsked`,
`AckIsAwaited`; `ExitReleasesTheOthers`, `EveryKeyAnswered`.

TCP client on octets (`TcpStream.tla`): `CommandArrivesWhole`,
`AnswerReceivedWhole`, `ExchangesComplete`, and the refinement
`ImplementsExchange`: a command counts when its last octet is sent, an answer
until its last octet is read. This justifies the granularity of `TcpClient`, and
with it of the whole tester. All of these hold until `send()` returns -1 for the
first time; what is left then is `NoOctetLost`.

Spectrum processor (`SpectrumProcessor.tla`): `RecordIsBandPower`,
`FftSeesBlock`, and `AveragesPowerLevels`, which the documentation promises and
the code breaks.

Command lines (`UserArguments.tla`): `AsGiven`, `PipelineGetsTagAndBandwidth`,
`Terminates`.

Prototypes (`RapidPrototype.tla`): `Synchronized`, `AnswerFollowsRequest`,
`PairsComplete`, `RemovalReleasesAll` (whoever has opened the queue that a
client removes comes to its end, in a crowd too, where the next server may have
opened it just before).

**Fairness** (`Fairness`): weak fairness of the coordinator, of each server and
of radio diags as a whole. The code justifies no more: each program is a single
thread that the operating system runs whenever its next call can return, and
the three programs are assumed to be started some day. There is no fairness for
the user, for faults, or between alternatives of one program. The pipeline is
part of the spectrum server's fairness: a radio that streams gives it enough
samples. (`StreamSamples` adds at most one gain when the radio is not retuned,
so `Measure` cannot be put off for ever.)

`RestartFairness` is the same, and the user launches again the programs that a
campaign to come needs; nobody need be killed. The clients of `TestClients` and
the prototypes are run like the programs of the tester, one weak fairness per
program; the prototypes are all launched some day. In `TcpStream` both ends of
the connection run when they can: `send()` returns once there is room in the
socket's buffer. `UserArguments` is one sequential loop.

## 4. The runs

| run | instance | result |
|---|---|---|
| `normal` | no faults; four automatic campaigns of 2 to 4 tags (the gain wraps within the campaign; it does not; one gain; an upside-down gain range) and three manual ones with 5 keys (gain and tag wrap at different rounds; upside-down ranges); a queue of two messages, so that it can be full | passes, 3,927 states |
| `faults` | an automatic and a manual campaign of 3 rounds; constructors fail, the queue is removed, the link closed, pipelines fail, at any time | passes, 38,754 states |
| `link_closed` | two tags, only `linkClosed` | `ReceiveDataReturns` violated |
| `early_exit` | manual mode, no faults | `ExitKeyTerminatesServers` violated |
| `campaigns` | two campaigns, automatic or manual; up to two kills, of the coordinator at its prompt, of the spectrum server anywhere and of the radio server at work | passes, 175,675 states |
| `any_kills` | two automatic campaigns, two kills of any program anywhere, and every send may fail | passes, 4,370,201 states |
| `test_clients` | both clients, 2 measuring keys each, constructors fail | passes, 28,702 states |
| `stream` | 3 commands of 6 octets, socket buffers of 4, up to 2 errors of `send()` | passes, 5,658 states |
| `spectrum` | FFT of 8 points, 18 bandwidths on, beside and past the edges of bins and the clip, four sample rates, signed and unsigned blocks of all lengths | passes, 13,896 states |
| `averaging` | `-n 2` and two blocks | `AveragesPowerLevels` violated |
| `arguments` | every command line of up to three tokens (four for the servers) of all four programs, and what the spectrum server builds | passes, 40,317 states |
| `prototypes` | two clients and two servers, in pairs and all at once, constructors fail | passes, 1,030 states |

Why the bounds suffice: a round returns all protocol state to where it was, so
hazards that span rounds need two, and wrapping needs one more than the range.
The longest campaigns here have four rounds (automatic) and five (manual), with
ranges of one to three values. At most two messages wait, one per server
(`StopAndWait`), so `MaxMessages = 4` is "never full"; `2` lets the two terminate
commands fill the queue and be removed with it, unread. (With `1` the second
terminate command has to wait for the first to be read; `normal` passes then, too.)
In `any_kills` two messages of a type may wait, and four altogether, but no send
finds the queue full (with a capacity of 8 the states are the same): it is not the
capacity that keeps what is left behind within `OneLeftPerKill`.

Two launches are enough to meet what the first left behind, and two kills to
meet one program's remains while another is killed. In `stream` a socket buffer
shorter than a command forces pieces, three exchanges let an answer shifted by
one be read as the next, and two errors let `octetPtr` leave the buffer. An FFT
of 8 points has two bins on each side that are neither the centre nor the edge.
A command line of three tokens holds an option, its argument and one more thing;
four let an argument that looks like an option stand in the middle. Two test
clients are all there are.

Deadlock is not checked: every program may rightly stop. In manual mode the user
stops pressing keys after `MaxRounds`, a server that starts late waits for ever
(the finding of `early_exit`), and a program that has lost its queue or its link
leaves another one waiting; the parts by themselves just end. That an automatic
campaign without faults never gets stuck is what `CampaignCompletes` says.

### What the violations say

- **`link_closed`** `TcpClient::receiveData` (lines 249-283): `recv()` returns 0
  at the end of the connection, `select()` keeps reporting the socket readable,
  `done` is never set. The radio server spins, and no terminate command reaches
  it. (A reset connection makes `recv()` return -1 first, which also moves the
  buffer pointer back; the model has only the end of the connection.)
- **`early_exit`** The coordinator removes the queue right after its terminate
  commands. A server still in its set up (the radio server sleeps 3 s
  there) then creates a new queue and waits on it for ever, although
  `README.txt:44-47` has `e` terminate both. Once a measurement was made both
  servers are on the queue and are always released (`ServersFollowCoordinator`).
- **`averaging`** `-n` adds the power of one block n times; it reads no other.

### What the models show besides

These behaviours are in the models, and other instances reach them. The first six
are what the conditions of the theorems leave out (section 5).

- *A late answer.* With `Faults = {"lateReply"}` `RecordsGenuine` fails: 200 ms
  of silence are taken for a complete response. If radio diags takes longer, the
  radio server acknowledges a gain that the radio has not got, and the power is
  measured at another gain. No run has late answers; the theorems on
  `StopAndWait`, `RecordsInOrder`, `OneLeftPerKill` and `NoRecordUncalledFor`
  allow them.
- *A lost send.* With `Faults = {"sendFails"}` `RecordsGenuine` fails too:
  `success` of the gain leg is overwritten by the power leg
  (`coordinator.cc:511`, `:585`), and the record is written at the gain of the
  round before.
- *The largest tag.* With `-E` at `IntMax` `LoopRunsAsSpecified` fails: the
  condition of the automatic loop cannot.
- *A killed coordinator.* Killed while it waits for the radio server (which
  `campaigns` leaves out), it leaves a queue in which the next one finds the
  acknowledgement of its predecessor's command: it measures before the gain is
  set.
- *A radio server launched again.* Its set up script sets IF gain 0, in the
  middle of a round after the gain was acknowledged. `campaigns` therefore kills
  the radio server only at work.
- *A pipeline that fails.* The result of `system()` is not looked at: the round is
  acknowledged and announced, and its tag has no record.
- *An error of `send()`.* It returns -1, which is subtracted and added like a
  count: octets go out twice, or the one before the buffer does, and `sendData`
  returns the full length.
- *A narrow bandwidth.* Below one bin no bin is summed, not even the centre;
  `RecordIsBandPower` counts whole bins, as the code does.
- *A short block.* The FFT runs over memory that nothing was stored in
  (`SpectrumProcessor.cc:249`); `FftSeesBlock` is about what was read.
- *The line of `README.txt:75`* gives `-B <bandwidthInHz> <fileName>`; the
  spectrum server's options are `-b` and `-f`, and it takes the defaults.

## 5. The proofs

Assumptions: only the named ones on the constants (`FaultsAssumption`,
`MaxMessagesAssumption`, `ArgSetAssumption`, `MaxRoundsAssumption`,
`IntMaxAssumption`; `NAssumption`, `ByteSizeAssumption` and `InputsAssumption`
of the spectrum processor; `StreamAssumption` of the TCP client;
`KillPointsAssumption` and `KillBoundsAssumption` of the launches,
`TestClientsAssumption` of the test clients; `WordSizeAssumption` and `CommandLinesAssumption` of the command lines, which are
sequences of tokens; `PrototypeAssumption` and `NoMessageAssumption` of the
prototypes), and seven conditions that single theorems state:

- `NoLostSendNoLateReply`: `Faults` without `sendFails` and `lateReply`. Neither
  can be dropped (section 4); all other faults are
  allowed.
- `NoTagOverflow`: no command line has its last tag at `IntMax`. With one that
  has, the condition of the loop cannot fail (section 4).
- `NoFaults`: `Faults = {}`, the condition of the run `normal`.
- `NoOverflow`: gains and tags of the command lines are below `IntMax`. The
  abstract campaign counts in integers that do not overflow.
- `GentleKills`: the coordinator is killed only at its prompt, the radio server
  not while it waits for a command. Other kills leave an acknowledgement, or a
  gain, that the next round takes for its own (section 4); the spectrum server may be killed anywhere.
- `NoLateReply`: `Faults` without `lateReply`, for the same reason as above. A
  lost send does no harm to a test client, which leaves its loop then.
- `PipelinesWrite`: `Faults` without `pipelineFails`, as the property speaks of the
  records of all measurements.

| theorem | statement |
|---|---|
| `TypeCorrectness` | `Spec => []TypeOK` |
| `StopAndWaitHolds` | `Spec => []StopAndWait` |
| `NoRetuneDuringCaptureHolds` | `Spec => []NoRetuneDuringCapture`, no lost send, no late reply |
| `RecordsGenuineHolds` | `Spec => []RecordsGenuine`, same conditions |
| `RecordIsBandPowerHolds` | `Spec => []RecordIsBandPower`, any even FFT size, any inputs |
| `FftSeesBlockHolds` | `Spec => []FftSeesBlock`, the same, any even range of an octet |
| `RecordsInOrderHolds` | `Spec => []RecordsInOrder`, any faults, `NoTagOverflow` |
| `LoopRunsAsSpecifiedHolds` | `Spec => []LoopRunsAsSpecified`, the same |
| `ServersStayUntilToldHolds` | `Spec => ServersStayUntilTold`, `NoFaults` |
| `LockStepHolds` | `Spec => []LockStep`, `NoFaults` |
| `ImplementsTestCampaign` | `Spec => Campaign!Spec`, `NoFaults`, `NoOverflow`: the programs implement the abstract campaign |
| `CommandArrivesWholeHolds` | `Spec => []CommandArrivesWhole` of `TcpStream`, any lengths and buffers |
| `AnswerReceivedWholeHolds` | `Spec => []AnswerReceivedWhole`, the same |
| `ImplementsExchangeHolds` | `Spec => ImplementsExchange`, the same: octets implement the exchange of whole commands and answers |
| `NoOctetLostHolds` | `Spec => []NoOctetLost`, the same, any number of errors of `send()` |
| `RestartTypeCorrectness` | `RestartSpec => []RestartTypeOK` |
| `OneLeftPerKillHolds` | `RestartSpec => []OneLeftPerKill`, any faults, any kills and launches |
| `NoRecordUncalledForHolds` | `RestartSpec => []NoRecordUncalledFor`, the same |
| `FileFollowsConsoleHolds` | `RestartSpec => []FileFollowsConsole`, `NoFaults`, `GentleKills`, any number of kills and launches |
| `ClientsTypeCorrectness` | `Spec => []ClientsTypeOK` of `TestClients` |
| `AckIsAwaitedHolds` | `Spec => []AckIsAwaited`, any faults |
| `PromptMeansGainSetHolds` | `Spec => []PromptMeansGainSet`, `NoLateReply` |
| `RecordsAsAskedHolds` | `Spec => []RecordsAsAsked`, `PipelinesWrite` |
| `AsGivenHolds` | `Spec => []AsGiven`, command lines of any length |
| `PipelineGetsTagAndBandwidthHolds` | `Spec => []PipelineGetsTagAndBandwidth`, any tags and bandwidths |
| `SynchronizedHolds` | `Spec => []Synchronized` of `RapidPrototype`, any number of clients and servers |
| `AnswerFollowsRequestHolds` | `Spec => []AnswerFollowsRequest`, the same |

*Stop and wait.* `StopAndWait` is not inductive: that no second acknowledgement
appears depends on whose queue a server holds and on where the coordinator is. `ProtocolInv` adds it: for each leg
the command in the queue, the server busy with it and the acknowledgement
exclude each other, exist only while the coordinator waits in the same queue
(or the command is the final terminate command), and have the one body that the
coordinator sent (`RadioLeg`, `SpectrumLeg`). A server that holds the identifier
of a removed queue is not busy in this sense: whatever it does can no longer
reach the coordinator. `RadioPhase` says that the radio server opens the queue
only after its set up. The proof has one step per action; `IdleLegs`,
`LegsWhenOpened` and `LegsWhenRemoved` say what opening and removing the queue
does to both legs.

*Measurements.* `MeasurementInv` follows one gain through a round: announced by
the coordinator (`RoundInv`), served by the radio server (`ServedGainInv`),
under way to radio diags only while the radio server reads the answer
(`LinkInv`), set in the radio when it is acknowledged, and from then until the
spectrum server's acknowledgement left alone (`AtGainOfLastRound`,
`CaptureInv`). The delicate case is the queue that vanishes during a capture:
the coordinator then runs through its remaining rounds, but `CaptureInv` keeps
`specQid = coordQid`, so that no send of the coordinator can succeed again
(`DeadStaysDead`).

*Order of the file.* Whatever fails, records cannot overtake one another, because
each is paid for: an announcement is used up by one power command, the command by
one capture, the capture by one record (`CountInv`). `LoopInv` ties the number of
announcements to the tag, and `OrderInv` bounds the tags of what has been
measured by the tag of the round: it is below that tag until the round's command
was read. The case to fear is a spectrum server on a removed queue that writes
its record late; `CaptureIsOurs` shows that the coordinator, on the same
queue, can then send nothing more.

*Campaign.* Without faults `AllOnQueue` keeps the link up and every server on the
coordinator's queue until the campaign ends; this needs `ProtocolInv`, as a server
exits when a call on the queue fails or when it reads a terminate command.
`FileInStep` turns the inequality of `CountInv` into an equation, and `LockStep`
is read off it. For the refinement
`CounterInv` says where gain and tag stand in each phase of a round, as the k-th
value of their cycle (in automatic mode the gain is past its end between the two
legs, and wrapped afterwards), and `ConsoleInv` that all announcements
are those of the abstract campaign. Then the step of the spectrum server that
writes a record is `TestCampaign`'s `Record`, and every other step stutters
(`RecordImplementsRecord`). `CycleSuccessor` is the arithmetic under it: adding one and
wrapping is the next value of the cycle, for upside-down ranges too.

*Octets.* `StreamInv` says where the octets of the current exchange are. Either the
command is `OnItsWay`, and radio diags has, in its buffer and in the network,
exactly what lies before `octetPtr`; or it is `Answered`, and what the client, the
network and radio diags hold is, in this order, the whole answer. Pieces join
(`SlicesJoin`, `JoinAssociates`), wherever they were cut. The refinement has one
lemma per program: the piece that leaves nothing to send is the `Send` of the
exchange, the one that leaves nothing to read its `Read`.

When `send()` returns -1, `octetPtr` moves back by one and `octetsRemaining` up by
one, so that their sum stays the length of the command and nothing between the two
is skipped: `OctetInv` says that each octet before `octetPtr` was handed to the
network, whatever went there twice or came from before the buffer.

*Launches and kills.* What a dead program leaves behind can be anything, so the
invariants count. `OneLeftPerKill` is not inductive: that a coordinator which
sends finds its leg with room depends on where it is in its round. `SharesInv`
therefore bounds what waits and what is worked on, per leg, by the kills and the
*share* of the present coordinator, which is one from the moment it sends on that
leg until it has its acknowledgement (after a terminate command, until it has
removed the queue), and nothing otherwise. A kill of the
coordinator turns its share into a leftover; a server that is killed takes its
command along and leaves a coordinator waiting, which only another kill ends.
`NoRecordUncalledFor` is a
conservation law: for each tag, `CalledFor` bounds what is in the file, what an
orphaned pipeline or the spectrum server measures, the commands that wait and
the one the coordinator is about to send, by the lines of all consoles. No step
creates one of these but the announcement, and every kill loses some; the lemmas
on `Occurrences` say what `Append`, `Tail` and taking out an orphan do to the
count. `FileFollowsConsole` is about gains too and holds under conditions; its
`FollowInv` is that of the tester (`ProtocolInv`, `GainInv`), with the orphan as
one more place a measurement can be in (`OrphanInv`, `LinesInStep`), and with the
radio server that acknowledged the gain in its place until the measurement is over
(`RadioStays`), since another one would set gain 0.

*Test clients.* A client, its server and their two message types are one leg, and
the legs share nothing but the queue's identifier. `Leg` is stop and wait between
the two, but weaker than in the tester: the other client may remove the queue in
between, a server goes on working for a queue that is gone, and an identifier that
is not `Attached` never comes back. `GainFollows` takes the gain from the command
to the radio, `RecordsFollow` the tag into the file.

*Command lines.* `AsGiven` says where the options are by a definition without a
loop: the set of positions that no option before them takes for its argument.
`PlacesUpTo` says of a set that it is right up to `optind`, and `ParseInv` that
the loop has acted on exactly such a set. Two such sets are equal (`OnePlacing`): at
the least position where they differ they would agree on all positions before, and
these decide. The least position comes from the well-foundedness of `<`
(`LeastNumber`), so that no induction theorem is needed.

*Prototypes.* Whoever removes the queue, `AnswerInv` counts: an answer received or
under way was sent by a server that had a request and has exited. In pairs,
`InPairs` keeps at most one client and one server busy, and only in step, so that a
request, a server with it, and its answer exclude each other (`UnderWay`), and the
answer that is received is the one to the client's own request (`ExchangeInv`).

*Spectrum processor.* `RecordIsBandPower` says nothing before the record is
written. Its invariant counts instead: after j power levels every bin within
the band was added j times and no other was. A step keeps it because the bins
between the two indices, seen through the shift table, are those within the
bandwidth. That is the arithmetic heart of the proof: the shift table is its
own inverse, and division of `bandwidth * N` by the sample rate gives the
number of whole bins. For `FftSeesBlock` the invariant follows a sample from
the block into `inputBuffer`, through the subtraction modulo `ByteSize`, into
the FFT's input.

Every invariant was checked by TLC before it was proved: `ProtocolInv` and
`FileInv` on the instance of `faults` with all faults (2,348,195 states),
`MeasurementInv` on that of `faults`, `CampaignInv` on that of `normal`, `StreamInv` and
`OctetInv` on that of `stream`, `SharesInv` and `CalledForInv` (for the tags of the
campaign and their neighbours) on that of `any_kills`, `FollowInv` on that of `campaigns`, `LegsInv`, `GainInv` and
`RecordsInv` on that of `test_clients`, `ParseInv` on that of `arguments`, and
`AnswerInv`, `InPairs` and `ExchangeInv` on that of `prototypes`.

Every safety property of the passing runs is thus a theorem. Model-checked only is
liveness, with the fairness it rests on, which is out of TLAPS's reach:
`CampaignCompletes`, `ServersFollowCoordinator`, `ReceiveDataReturns`,
`EveryCampaignCompletes`, `QueueRemovalReleasesServers`, `ExitReleasesTheOthers`,
`EveryKeyAnswered`, `ExchangesComplete`, `Terminates`, `PairsComplete`,
`RemovalReleasesAll`, and of `ImplementsCampaign` the part that the campaign goes on.

## 6. Not modelled

- The FFT, its window and floating point, thus also the NaN that `-n 0` writes.
  A negative bandwidth, whose conversion to an index is undefined, is not among
  the inputs.
- That `netcat` ends only at its next write, and samples still in flight inside
  radio diags when a gain is set.
- `recv()` returning -1, and an answer longer than the buffer.
- Option letters glued together (`-AL4`); the option loops of the test clients,
  which are the coordinator's with two letters.
- A crash of radio diags other than the end of its connection, and of the
  machine.
- `keyPressed` in `coordinator.cc` and the test clients: never called.
- `rapidPrototype/test.c`, build scripts, `data/`: no state of a running system.

## 7. Plan

Done: the queue, the TCP client, the programs and their composition; runs
without and with faults; the abstract campaign; launches and kills; octets;
command lines; the spectrum processor; test clients and prototypes; theorems
about every safety property of the passing runs.

Left are a model of `recv()` returning -1 with its error of one octet, and, of the
proofs, the steps behind liveness that are not temporal: that without faults some
program of the campaign can always go on, and a measure that its steps lower.
