------------------------------ MODULE TcpExchange ------------------------------
(***************************************************************************)
(* What the radio server relies on TcpClient for, in TcpClient's own       *)
(* actions: it reads the greeting, then time and again it sends a command  *)
(* and reads the whole answer to it.  The commands are IF gains 1, 2, ...  *)
(***************************************************************************)
EXTENDS TcpClient

CONSTANT Exchanges   \* how many commands the client sends

VARIABLES
  call,       \* the call the client is in, or is about to make
  exchange    \* the number of the last command, 0 for the greeting

exchangeVars == <<linkVars, diagsVars, call, exchange>>

Init ==
  /\ peerUp = TRUE /\ connected = TRUE
  /\ toRadio = << >> /\ fromRadio = 1
  /\ radioGain = -1 /\ configured = {}
  /\ call = "receive" /\ exchange = 0

Send ==
  /\ call = "send"
  /\ exchange < Exchanges
  /\ SendOctets(Command("rxifgain", exchange + 1))
  /\ exchange' = exchange + 1
  /\ call' = "receive"
  /\ UNCHANGED diagsVars

Read == call = "receive" /\ ReadAvailable /\ UNCHANGED <<diagsVars, call, exchange>>

Return ==
  /\ call = "receive"
  /\ SelectTimesOut
  /\ call' = "send"
  /\ UNCHANGED <<diagsVars, exchange>>

Execute == DiagsExecute /\ UNCHANGED <<call, exchange>>

Next == Send \/ Read \/ Return \/ Execute

Spec == Init /\ [][Next]_exchangeVars

=============================================================================
