---------------------------- MODULE UserArguments ----------------------------
(***************************************************************************)
(* getUserArguments of the four programs: one loop over getopt(), which    *)
(* differs from program to program only in its option letters, defaults    *)
(* and conversions.                                                        *)
(*                                                                         *)
(* A token of the command line is abstracted to what the parsers tell      *)
(* apart: the letter after its dash, if it has one, and the number that    *)
(* atoi() or atof() finds in it.  ("-5" has both, "-L" and "file" have 0.) *)
(* An option that is a name (a file, an address) is set to the whole token.*)
(* Letters glued together ("-AL4") are left out.                           *)
(***************************************************************************)
EXTENDS Integers, Sequences, FiniteSets

CONSTANTS
  CommandLines,   \* the command lines to consider, each with its program
  Numbers,        \* the numbers the spectrum server puts on a line
  WordSize        \* 2^32: the range of a uint32_t

ASSUME WordSizeAssumption == WordSize \in Nat \ {0}

Token(letter, number) == [letter |-> letter, number |-> number]
Opt(letter) == Token(letter, 0)
(* A negative number has a dash, and a letter that is no option of any      *)
(* program.                                                                 *)
Number(n) == Token(IF n < 0 THEN "digit" ELSE "", n)
EndOfOptions == Opt("-")                     \* the token "--"

VARIABLES
  program, argv,   \* the program and what follows its name
  optind,          \* the next token getopt() looks at
  settings,        \* [option letter -> value]
  exitProgram, done

vars == <<program, argv, optind, settings, exitProgram, done>>

-----------------------------------------------------------------------------
(* What tells the four loops apart: the letters of the option string that   *)
(* have a colon, the others (in all four programs -h shows the usage), and  *)
(* the values before the loop.                                              *)

DefaultAddress == Token("address", 0)
DefaultFilename == Token("mySpectrumFile.txt", 0)
DEFAULT_FREQUENCY == 57600000

CoordinatorOptions ==          \* "L:U:S:E:Ah"
  [takesArgument |-> {"L", "U", "S", "E"},
   flags |-> {"A"},
   defaults |-> [L |-> 0, U |-> 4, S |-> 0, E |-> 4, A |-> FALSE]]

RadioServerOptions ==          \* "a:p:f:h"
  [takesArgument |-> {"a", "p", "f"},
   flags |-> {},
   defaults |-> [a |-> DefaultAddress, p |-> 8001, f |-> DEFAULT_FREQUENCY]]

SpectrumServerOptions ==       \* "f:b:h"
  [takesArgument |-> {"f", "b"},
   flags |-> {},
   defaults |-> [f |-> DefaultFilename, b |-> 500]]

SpectrumProcessorOptions ==    \* "t:n:r:B:Uh"
  [takesArgument |-> {"t", "n", "r", "B"},
   flags |-> {"U"},
   defaults |-> [t |-> 0, n |-> 1, r |-> 256000, B |-> 1000, U |-> FALSE]]

Options ==
  [coordinator       |-> CoordinatorOptions,
   radioServer       |-> RadioServerOptions,
   spectrumServer    |-> SpectrumServerOptions,
   spectrumProcessor |-> SpectrumProcessorOptions]

Programs == DOMAIN Options

ASSUME CommandLinesAssumption ==
  \A line \in CommandLines :
    line.program \in Programs /\ line.argv \in Seq([letter : STRING, number : Int])

TakesArgument(p) == Options[p].takesArgument
Flags(p) == Options[p].flags

(* What a program makes of the token that follows the option.               *)
Convert(p, letter, token) ==
  CASE <<p, letter>> \in {<<"radioServer", "a">>, <<"spectrumServer", "f">>} -> token
    [] <<p, letter>> = <<"radioServer", "f">> ->
         IF token.number <= 0 THEN DEFAULT_FREQUENCY ELSE token.number
    [] <<p, letter>> = <<"spectrumProcessor", "n">> -> token.number % WordSize
    [] OTHER -> token.number

(* The command line that decodeMessageQueueCommand of the spectrum server   *)
(* runs the spectrum processor with.                                        *)
(* Mutation: the bandwidth has lost its option.                             *)
PipelineLineWithoutOption(bandwidthInHz, tag) ==
  <<Number(bandwidthInHz), Opt("t"), Number(tag)>>

PipelineLine(bandwidthInHz, tag) ==
  <<Opt("B"), Number(bandwidthInHz), Opt("t"), Number(tag)>>

-----------------------------------------------------------------------------

Init ==
  /\ \E line \in CommandLines : program = line.program /\ argv = line.argv
  /\ optind = 1
  /\ settings = Options[program].defaults
  /\ exitProgram = FALSE
  /\ done = FALSE

AtToken == ~done /\ optind <= Len(argv) /\ argv[optind] # EndOfOptions
Letter == argv[optind].letter

(* case 'L': ... The token after the option is its argument, whatever it is.*)
OptionWithArgument ==
  /\ AtToken
  /\ Letter \in TakesArgument(program)
  /\ optind < Len(argv)
  /\ settings' = [settings EXCEPT ![Letter] = Convert(program, Letter, argv[optind + 1])]
  /\ optind' = optind + 2
  /\ UNCHANGED <<program, argv, exitProgram, done>>

Flag ==
  /\ AtToken
  /\ Letter \in Flags(program)
  /\ settings' = [settings EXCEPT ![Letter] = TRUE]
  /\ optind' = optind + 1
  /\ UNCHANGED <<program, argv, exitProgram, done>>

(* Mutation: the loop ends with the usage.                                  *)
HelpBailsOut ==
  /\ AtToken
  /\ Letter = "h"
  /\ exitProgram' = TRUE
  /\ optind' = Len(argv) + 1
  /\ UNCHANGED <<program, argv, settings, done>>

(* The usage is shown, and the loop goes on.                                *)
Help ==
  /\ AtToken
  /\ Letter = "h"
  /\ exitProgram' = TRUE
  /\ optind' = optind + 1
  /\ UNCHANGED <<program, argv, settings, done>>

(* getopt() returns '?', which no program has a case for.                   *)
Unknown ==
  /\ AtToken
  /\ Letter \notin TakesArgument(program) \cup Flags(program) \cup {"", "h"}
  /\ optind' = optind + 1
  /\ UNCHANGED <<program, argv, settings, exitProgram, done>>

(* Mutation: '?' is not skipped.                                            *)
MissingArgumentAgain ==
  /\ AtToken
  /\ Letter \in TakesArgument(program)
  /\ optind = Len(argv)
  /\ UNCHANGED vars

MissingArgument ==
  /\ AtToken
  /\ Letter \in TakesArgument(program)
  /\ optind = Len(argv)
  /\ optind' = optind + 1
  /\ UNCHANGED <<program, argv, settings, exitProgram, done>>

(* getopt() passes over what is not an option; no program looks at it.      *)
Operand ==
  /\ AtToken
  /\ Letter = ""
  /\ optind' = optind + 1
  /\ UNCHANGED <<program, argv, settings, exitProgram, done>>

(* case -1                                                                  *)
AllConsumed ==
  /\ ~done
  /\ optind <= Len(argv) => argv[optind] = EndOfOptions
  /\ done' = TRUE
  /\ UNCHANGED <<program, argv, optind, settings, exitProgram>>

Next ==
  \/ OptionWithArgument
  \/ Flag
  \/ Help
  \/ Unknown
  \/ MissingArgument
  \/ Operand
  \/ AllConsumed

Spec == Init /\ [][Next]_vars /\ WF_vars(Next)

-----------------------------------------------------------------------------
(* Where the options stand, without a loop: the one set of positions that   *)
(* holds every token with a dash but the arguments of options.              *)

IsDash(i) == argv[i].letter # ""

IsOption(i, S) ==
  /\ IsDash(i)
  /\ \A j \in S : j < i => argv[j] # EndOfOptions
  /\ ~ (i - 1 \in S /\ argv[i - 1].letter \in TakesArgument(program))

OptionPositions ==
  CHOOSE S \in SUBSET (DOMAIN argv) : \A i \in DOMAIN argv : i \in S <=> IsOption(i, S)

Given(S, letter) == {i \in S : argv[i].letter = letter}
Complete(S, letter) == {i \in Given(S, letter) : i < Len(argv)}

Last(S) == CHOOSE i \in S : \A j \in S : j <= i

ValueGiven(S, letter) ==
  IF Complete(S, letter) = {} THEN Options[program].defaults[letter]
  ELSE Convert(program, letter, argv[Last(Complete(S, letter)) + 1])

GivenAt(S) ==
  /\ exitProgram = (Given(S, "h") # {})
  /\ \A letter \in Flags(program) : settings[letter] = (Given(S, letter) # {})
  /\ \A letter \in TakesArgument(program) : settings[letter] = ValueGiven(S, letter)

(* An option has the value it was given last, converted once, and else its  *)
(* default: an option, an operand or an error elsewhere on the line, the    *)
(* usage included, does not touch it.                                       *)
AsGiven == done => GivenAt(OptionPositions)

(* The spectrum processor measures with the tag of the power command and    *)
(* the bandwidth of the spectrum server, a negative tag included            *)
(* (spectrumServer.cc:142-144, spectrumProcessor.cc:117-139).               *)
PipelineGetsTagAndBandwidth ==
  done /\ program = "spectrumProcessor" =>
    \A bandwidthInHz, tag \in Numbers :
      argv = PipelineLine(bandwidthInHz, tag) =>
        settings.B = bandwidthInHz /\ settings.t = tag /\ ~exitProgram

(* The loop ends, whatever is on the command line.                          *)
Terminates == <>done

=============================================================================
