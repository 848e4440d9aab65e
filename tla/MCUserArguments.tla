--------------------------- MODULE MCUserArguments ---------------------------
(* All short command lines of the four programs.                            *)
EXTENDS UserArguments

SomeNumbers == {-5, 0, 7}

Tokens(p) ==
  {Opt(letter) : letter \in TakesArgument(p) \cup Flags(p) \cup {"h", "z"}}
    \cup {Number(-5), Number(7), EndOfOptions}

Lines(p, length) ==
  {[program |-> p, argv |-> line] : line \in [1 .. length -> Tokens(p)]}

(* Up to three tokens of every program, four of the servers, and what the   *)
(* spectrum server builds.                                                  *)
ShortLines ==
  UNION {Lines(p, length) : p \in Programs, length \in 0 .. 3}
    \cup Lines("radioServer", 4) \cup Lines("spectrumServer", 4)
    \cup {[program |-> "spectrumProcessor", argv |-> PipelineLine(b, t)] :
             b \in SomeNumbers, t \in SomeNumbers}

=============================================================================
