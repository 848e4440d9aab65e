------------------------------ MODULE TcpClient ------------------------------
(***************************************************************************)
(* src/TcpClient.cc as the radio server uses it, and the program at the    *)
(* other end: radio diags, which is not part of this repository and is     *)
(* modelled from what the radio server sends to it and expects back.       *)
(*                                                                         *)
(* Octets are abstracted to whole commands and responses: toRadio holds    *)
(* the commands radio diags has not executed, fromRadio counts the         *)
(* responses that wait in the client's socket.                             *)
(*                                                                         *)
(* receiveData() has no notion of a complete response.  It reads until     *)
(* select() reports 200 ms of silence.  The normal case of this model is   *)
(* that radio diags answers within those 200 ms: silence then means that   *)
(* no command is outstanding.  The fault "lateReply" drops that assumption.*)
(***************************************************************************)
EXTENDS R82xxTunerTester

VARIABLES
  peerUp,      \* radio diags has its end of the connection open
  connected,   \* TcpClient::connected
  toRadio,     \* commands under way to radio diags
  fromRadio,   \* responses that receiveData() has not read
  radioGain,   \* the IF gain the radio is set to
  configured   \* verbs of the other commands that radio diags has executed

linkVars == <<peerUp, connected, toRadio, fromRadio>>
diagsVars == <<radioGain, configured>>

Command(verb, value) == [verb |-> verb, value |-> value]

(* "set demodmode 0", "enable iqdump", ...: the word that tells the         *)
(* commands apart.                                                          *)
Verb == {"demodmode", "iqdump", "agclevel", "rxifgain", "rxgain", "receiver",
         "ringoscillator", "rxfrequency"}

RadioCommands == [verb : Verb, value : Int]

LinkTypeOK ==
  /\ peerUp \in BOOLEAN
  /\ connected \in BOOLEAN
  /\ toRadio \in Seq(RadioCommands)
  /\ fromRadio \in Nat
  /\ radioGain \in Int
  /\ configured \subseteq Verb

(* The radio may be at any gain when the tester starts, whatever an earlier *)
(* session left there: -1 stands for a gain no test asks for.               *)
LinkInit ==
  /\ peerUp = TRUE
  /\ connected = FALSE
  /\ toRadio = << >>
  /\ fromRadio = 0
  /\ radioGain = -1
  /\ configured = {}

-----------------------------------------------------------------------------
(* Constructor.  Radio diags greets a new client, so one response waits.    *)

Connect ==
  /\ peerUp
  /\ connected' = TRUE
  /\ fromRadio' = 1
  /\ UNCHANGED <<peerUp, toRadio>>

ConnectFails == ~peerUp /\ UNCHANGED linkVars

(* Destructor: the socket is closed, and whatever waits in it is lost.      *)
(* Radio diags still reads some of the commands sent, all unless answers    *)
(* that nobody reads reset the connection before.                           *)
Disconnect ==
  /\ connected' = FALSE
  /\ fromRadio' = 0
  /\ \E n \in 0 .. Len(toRadio) : toRadio' = SubSeq(toRadio, 1, n)
  /\ UNCHANGED peerUp

(* sendData() *)
SendOctets(command) ==
  /\ connected
  /\ toRadio' = IF peerUp THEN Append(toRadio, command) ELSE toRadio
  /\ UNCHANGED <<peerUp, connected, fromRadio>>

(* send() after the peer has reset the connection raises SIGPIPE, which     *)
(* nothing in the program handles: its end closes the socket.               *)
SendRaisesSigpipe == connected /\ ~peerUp /\ Disconnect

(* Mutation: what is read stays in the socket.                              *)
ReadAvailableLeaves == connected /\ fromRadio > 0 /\ UNCHANGED linkVars

(* receiveData(), one round of its loop: recv() takes what is there...      *)
ReadAvailable ==
  /\ connected
  /\ fromRadio > 0
  /\ fromRadio' = 0
  /\ UNCHANGED <<peerUp, connected, toRadio>>

(* ...recv() returns 0 because the peer closed: octetsRead is 0, done stays *)
(* false, and select() reports the socket readable again at once...         *)
ReadEndOfFile ==
  /\ connected
  /\ fromRadio = 0
  /\ ~peerUp
  /\ UNCHANGED linkVars

(* Mutation: receiveData leaves its loop as soon as nothing can be read.    *)
SelectReturnsAtOnce ==
  /\ connected
  /\ fromRadio = 0
  /\ peerUp
  /\ UNCHANGED linkVars

(* ...or select() times out, the one way out of the loop.                   *)
SelectTimesOut ==
  /\ connected
  /\ fromRadio = 0
  /\ peerUp
  /\ toRadio = << >> \/ "lateReply" \in Faults
  /\ UNCHANGED linkVars

-----------------------------------------------------------------------------
(* Radio diags executes a command and answers, if there is still somebody   *)
(* to answer to.                                                            *)

DiagsExecute ==
  /\ peerUp
  /\ toRadio # << >>
  /\ LET command == Head(toRadio) IN
       /\ radioGain' = IF command.verb = "rxifgain"
                       THEN command.value ELSE radioGain
       /\ configured' = configured \cup {command.verb}
  /\ toRadio' = Tail(toRadio)
  /\ fromRadio' = IF connected THEN fromRadio + 1 ELSE fromRadio
  /\ UNCHANGED <<peerUp, connected>>

DiagsCloses ==
  /\ "linkClosed" \in Faults
  /\ peerUp
  /\ peerUp' = FALSE
  /\ toRadio' = << >>
  /\ UNCHANGED <<connected, fromRadio, diagsVars>>

(* IQ samples leave the radio once the dump is enabled and it is receiving. *)
Streaming == {"iqdump", "receiver"} \subseteq configured

=============================================================================
