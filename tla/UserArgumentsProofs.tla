-------------------------- MODULE UserArgumentsProofs --------------------------
(***************************************************************************)
(* What holds of getUserArguments for command lines of every length.       *)
(***************************************************************************)
EXTENDS UserArguments, WellFoundedInduction, TLAPS

-----------------------------------------------------------------------------
(* Where the options stand.                                                 *)

(* A set of numbers with an element has a least one.                        *)
LEMMA LeastNumber ==
  ASSUME NEW T \in SUBSET Nat, T # {}
  PROVE  \E m \in T : \A n \in T : m <= n
<1>. DEFINE R == OpToRel(<, Nat)
<1>1. \A x, y \in Nat : <<y, x>> \in R <=> y < x
  BY DEF OpToRel
<1>2. IsWellFoundedOn(R, Nat)
  BY NatLessThanWellFounded
<1>. HIDE DEF R
<1>3. \E x \in T : \A y \in T : ~ (<<y, x>> \in R)
  BY <1>2, WFMin
<1>4. PICK m \in T : \A y \in T : ~ (<<y, m>> \in R)
  BY <1>3
<1>5. ASSUME NEW n \in T PROVE m <= n
  <2>1. ~(<<n, m>> \in R) /\ m \in Nat /\ n \in Nat
    BY <1>4
  <2>2. ~(n < m)
    BY <1>1, <2>1
  <2>. QED
    BY <2>1, <2>2
<1>. QED
  BY <1>5

(* S holds the positions of the options among the tokens up to n.           *)
PlacesUpTo(S, n) == S \subseteq 1 .. n /\ \A i \in 1 .. n : i \in S <=> IsOption(i, S)

(* There is one placing at most: whether a token is an option is settled by *)
(* the tokens before it.                                                    *)
LEMMA OnePlacing ==
  ASSUME NEW n \in Nat, NEW P, NEW Q, PlacesUpTo(P, n), PlacesUpTo(Q, n)
  PROVE  P = Q
<1>. DEFINE T == {i \in 1 .. n : ~(i \in P <=> i \in Q)}
<1>1. SUFFICES ASSUME T # {} PROVE FALSE
  BY DEF PlacesUpTo
<1>2. PICK m \in T : \A i \in T : m <= i
  <2>1. T \in SUBSET Nat
    OBVIOUS
  <2>. HIDE DEF T
  <2>. QED
    BY <1>1, <2>1, LeastNumber
<1>3. \A j \in 1 .. n : j < m => (j \in P <=> j \in Q)
  BY <1>2
<1>4. m \in 1 .. n /\ ~(m \in P <=> m \in Q)
  OBVIOUS
<1>5. P \subseteq 1 .. n /\ Q \subseteq 1 .. n
  BY DEF PlacesUpTo
<1>6. (m - 1 \in P) <=> (m - 1 \in Q)
  <2>1. CASE m - 1 \in 1 .. n
    BY <1>3, <1>4, <2>1
  <2>2. CASE m - 1 \notin 1 .. n
    BY <1>5, <2>2
  <2>. QED
    BY <2>1, <2>2
<1>7. \A j : j \in P /\ j < m <=> j \in Q /\ j < m
  BY <1>3, <1>5
<1>8. IsOption(m, P) <=> IsOption(m, Q)
  BY <1>6, <1>7 DEF IsOption
<1>. QED
  BY <1>4, <1>8 DEF PlacesUpTo

(* A placing of the whole line is the one meant by the definition.          *)
LEMMA PlacingFound ==
  ASSUME NEW n \in Nat, DOMAIN argv = 1 .. n, NEW P, PlacesUpTo(P, n)
  PROVE  OptionPositions = P
<1>1. P \in SUBSET (DOMAIN argv) /\ \A i \in DOMAIN argv : i \in P <=> IsOption(i, P)
  BY DEF PlacesUpTo
<1>2. /\ OptionPositions \in SUBSET (DOMAIN argv)
      /\ \A i \in DOMAIN argv : i \in OptionPositions <=> IsOption(i, OptionPositions)
  BY <1>1 DEF OptionPositions
<1>3. PlacesUpTo(OptionPositions, n)
  BY <1>2 DEF PlacesUpTo
<1>. QED
  BY <1>3, OnePlacing

(* The greatest element of a set is its last.                               *)
LEMMA LastIsGreatest ==
  ASSUME NEW S \in SUBSET Int, NEW m \in S, \A j \in S : j <= m
  PROVE  Last(S) = m
<1>1. Last(S) \in S /\ \A j \in S : j <= Last(S)
  BY DEF Last
<1>2. Last(S) <= m /\ m <= Last(S) /\ Last(S) \in Int /\ m \in Int
  BY <1>1
<1>. QED
  BY <1>2

(* The letters of a program's options.                                      *)
LEMMA OptionLetters ==
  ASSUME NEW p \in Programs
  PROVE  /\ TakesArgument(p) \cap Flags(p) = {}
         /\ {"-", "h"} \cap (TakesArgument(p) \cup Flags(p)) = {}
         /\ DOMAIN Options[p].defaults = TakesArgument(p) \cup Flags(p)
         /\ \A letter \in Flags(p) : Options[p].defaults[letter] = FALSE
<1>1. p \in {"coordinator", "radioServer", "spectrumServer", "spectrumProcessor"}
  BY DEF Programs, Options
<1>2. CASE p = "coordinator"
  <2>1. Options[p] = CoordinatorOptions
    BY <1>2 DEF Options
  <2>2. TakesArgument(p) = {"L", "U", "S", "E"} /\ Flags(p) = {"A"}
    BY <2>1 DEF CoordinatorOptions, TakesArgument, Flags
  <2>3. DOMAIN Options[p].defaults = {"L", "U", "S", "E", "A"}
    BY <2>1 DEF CoordinatorOptions
  <2>4. Options[p].defaults.A = FALSE
    BY <2>1 DEF CoordinatorOptions
  <2>. QED
    BY <2>2, <2>3, <2>4
<1>3. CASE p = "radioServer"
  <2>1. Options[p] = RadioServerOptions
    BY <1>3 DEF Options
  <2>2. TakesArgument(p) = {"a", "p", "f"} /\ Flags(p) = {}
    BY <2>1 DEF RadioServerOptions, TakesArgument, Flags
  <2>3. DOMAIN Options[p].defaults = {"a", "p", "f"}
    BY <2>1 DEF RadioServerOptions
  <2>. QED
    BY <2>2, <2>3
<1>4. CASE p = "spectrumServer"
  <2>1. Options[p] = SpectrumServerOptions
    BY <1>4 DEF Options
  <2>2. TakesArgument(p) = {"f", "b"} /\ Flags(p) = {}
    BY <2>1 DEF SpectrumServerOptions, TakesArgument, Flags
  <2>3. DOMAIN Options[p].defaults = {"f", "b"}
    BY <2>1 DEF SpectrumServerOptions
  <2>. QED
    BY <2>2, <2>3
<1>5. CASE p = "spectrumProcessor"
  <2>1. Options[p] = SpectrumProcessorOptions
    BY <1>5 DEF Options
  <2>2. TakesArgument(p) = {"t", "n", "r", "B"} /\ Flags(p) = {"U"}
    BY <2>1 DEF SpectrumProcessorOptions, TakesArgument, Flags
  <2>3. DOMAIN Options[p].defaults = {"t", "n", "r", "B", "U"}
    BY <2>1 DEF SpectrumProcessorOptions
  <2>4. Options[p].defaults.U = FALSE
    BY <2>1 DEF SpectrumProcessorOptions
  <2>. QED
    BY <2>2, <2>3, <2>4
<1>. QED
  BY <1>1, <1>2, <1>3, <1>4, <1>5

-----------------------------------------------------------------------------
(* The loop.                                                                *)

(* P holds the positions of the options getopt() has returned, none of them *)
(* beyond "--", and the token it looks at next is no option's argument.     *)
Seen(P) ==
  /\ PlacesUpTo(P, optind - 1)
  /\ \A i \in P : argv[i] # EndOfOptions
  /\ optind <= Len(argv) =>
       ~(optind - 1 \in P /\ argv[optind - 1].letter \in TakesArgument(program))
  /\ GivenAt(P)

(* The options are as given so far; at the end, as given on the line.       *)
ParseInv ==
  /\ program \in Programs
  /\ argv \in Seq([letter : STRING, number : Int])
  /\ optind \in 1 .. Len(argv) + 1
  /\ DOMAIN settings = TakesArgument(program) \cup Flags(program)
  /\ IF done THEN \E P : PlacesUpTo(P, Len(argv)) /\ GivenAt(P)
             ELSE \E P \in SUBSET (1 .. optind - 1) : Seen(P)

(* Before the loop nothing is given.                                        *)
LEMMA ParseInit == Init => ParseInv
<1>. SUFFICES ASSUME Init PROVE ParseInv
  OBVIOUS
<1>1. /\ program \in Programs /\ argv \in Seq([letter : STRING, number : Int])
      /\ optind = 1 /\ settings = Options[program].defaults /\ exitProgram = FALSE /\ ~done
  BY CommandLinesAssumption DEF Init
<1>2. optind \in 1 .. Len(argv) + 1 /\ optind - 1 = 0 /\ Len(argv) \in Nat
  BY <1>1
<1>3. PlacesUpTo({}, optind - 1)
  BY <1>2 DEF PlacesUpTo
<1>4. \A letter : Given({}, letter) = {} /\ Complete({}, letter) = {}
  BY DEF Given, Complete
<1>5. GivenAt({})
  BY <1>1, <1>4, OptionLetters DEF GivenAt, ValueGiven
<1>6. Seen({})
  BY <1>2, <1>3, <1>5 DEF Seen
<1>. QED
  BY <1>1, <1>2, <1>6, OptionLetters DEF ParseInv

(* A number up to n + 1 is a number up to n or n + 1.                       *)
LEMMA UpToNext ==
  ASSUME NEW n \in Nat
  PROVE  1 .. n + 1 = (1 .. n) \cup {n + 1} /\ n + 1 \notin 1 .. n
OBVIOUS

(* Where the loop is on the line.                                           *)
LEMMA LineAhead ==
  ASSUME ParseInv
  PROVE  /\ Len(argv) \in Nat /\ DOMAIN argv = 1 .. Len(argv)
         /\ optind \in Nat \ {0} /\ optind - 1 \in Nat /\ optind <= Len(argv) + 1
<1>1. Len(argv) \in Nat /\ optind \in 1 .. Len(argv) + 1 /\ DOMAIN argv = 1 .. Len(argv)
  BY DEF ParseInv
<1>. QED
  BY <1>1

(* An option at optind finds its place after those before it; what it takes *)
(* as its argument is none.                                                 *)
LEMMA PlaceToken ==
  ASSUME ParseInv, NEW P, Seen(P), optind <= Len(argv), IsDash(optind),
         NEW Q, Q = P \cup {optind}
  PROVE  /\ PlacesUpTo(Q, optind)
         /\ Letter \in TakesArgument(program) => PlacesUpTo(Q, optind + 1)
<1>1. optind \in Nat \ {0} /\ optind - 1 \in Nat /\ optind <= Len(argv)
  BY LineAhead
<1>2. /\ P \subseteq 1 .. optind - 1
      /\ \A i \in 1 .. optind - 1 : i \in P <=> IsOption(i, P)
  BY DEF Seen, PlacesUpTo
<1>3. ~(optind - 1 \in P /\ argv[optind - 1].letter \in TakesArgument(program))
  BY <1>1 DEF Seen
<1>4. \A i \in P : argv[i] # EndOfOptions
  BY DEF Seen
<1>5. 1 .. optind = (1 .. optind - 1) \cup {optind} /\ optind \notin 1 .. optind - 1
  BY <1>1
<1>6. 1 .. optind + 1 = (1 .. optind) \cup {optind + 1} /\ optind + 1 \notin 1 .. optind
  BY <1>1, UpToNext
<1>7. Q \subseteq 1 .. optind /\ optind \in Q
  BY <1>2, <1>5
<1>8. ASSUME NEW i \in 1 .. optind
      PROVE  /\ i - 1 \in Q <=> i - 1 \in P
             /\ \A j : j \in Q /\ j < i <=> j \in P /\ j < i
  <2>1. i \in Int /\ i <= optind
    BY <1>1
  <2>. QED
    BY <1>1, <2>1
<1>9. ASSUME NEW i \in 1 .. optind - 1
      PROVE  i \in Q <=> IsOption(i, Q)
  <2>1. i \in 1 .. optind /\ i # optind
    BY <1>5
  <2>2. IsOption(i, Q) <=> IsOption(i, P)
    BY <1>8, <2>1 DEF IsOption
  <2>. QED
    BY <1>2, <2>1, <2>2
<1>10. IsOption(optind, Q)
  <2>1. optind \in 1 .. optind
    BY <1>5
  <2>. QED
    BY <1>3, <1>4, <1>8, <2>1 DEF IsOption
<1>11. \A i \in 1 .. optind : i \in Q <=> IsOption(i, Q)
  BY <1>5, <1>7, <1>9, <1>10
<1>12. ASSUME Letter \in TakesArgument(program)
       PROVE  PlacesUpTo(Q, optind + 1)
  <2>1. ~IsOption(optind + 1, Q)
    <3>1. (optind + 1) - 1 = optind
      BY <1>1
    <3>. QED
      BY <1>7, <1>12, <3>1 DEF IsOption, Letter
  <2>2. optind + 1 \notin Q /\ Q \subseteq 1 .. optind + 1
    BY <1>6, <1>7
  <2>. QED
    BY <1>6, <1>11, <2>1, <2>2 DEF PlacesUpTo
<1>. QED
  BY <1>7, <1>11, <1>12 DEF PlacesUpTo

(* A position added behind the others is the last.                          *)
LEMMA LastOfMore ==
  ASSUME NEW n \in Nat \ {0}, NEW S, S \subseteq 1 .. n - 1, NEW T, T = S \cup {n}
  PROVE  Last(T) = n
<1>1. \A j \in S : j \in Int /\ j <= n
  OBVIOUS
<1>2. T \in SUBSET Int /\ n \in T /\ \A j \in T : j <= n
  BY <1>1
<1>. QED
  BY <1>2, LastIsGreatest

(* What an option adds to what was given: itself.                           *)
LEMMA GivenWithToken ==
  ASSUME ParseInv, NEW P, Seen(P), optind <= Len(argv), NEW Q, Q = P \cup {optind}
  PROVE  /\ \A letter : letter # Letter => /\ Given(Q, letter) = Given(P, letter)
                                           /\ Complete(Q, letter) = Complete(P, letter)
                                           /\ ValueGiven(Q, letter) = ValueGiven(P, letter)
         /\ Given(Q, Letter) = Given(P, Letter) \cup {optind}
         /\ optind = Len(argv) => /\ Complete(Q, Letter) = Complete(P, Letter)
                                  /\ ValueGiven(Q, Letter) = ValueGiven(P, Letter)
         /\ optind < Len(argv) =>
              ValueGiven(Q, Letter) = Convert(program, Letter, argv[optind + 1])
<1>1. /\ optind \in Nat \ {0} /\ optind <= Len(argv) /\ Len(argv) \in Nat
      /\ P \subseteq 1 .. optind - 1
  BY LineAhead DEF Seen, PlacesUpTo
<1>2. ASSUME NEW letter, letter # Letter
      PROVE  Given(Q, letter) = Given(P, letter)
  BY <1>2 DEF Given, Letter
<1>3. Given(Q, Letter) = Given(P, Letter) \cup {optind}
  BY DEF Given, Letter
<1>4. ASSUME NEW letter, letter # Letter
      PROVE  Complete(Q, letter) = Complete(P, letter)
  BY <1>2, <1>4 DEF Complete
<1>5. ASSUME optind = Len(argv) PROVE Complete(Q, Letter) = Complete(P, Letter)
  <2>1. ~(optind < Len(argv))
    BY <1>1, <1>5
  <2>2. \A i : i \in Complete(Q, Letter) <=> i \in Complete(P, Letter)
    BY <1>3, <2>1 DEF Complete
  <2>. QED
    BY <2>2
<1>6. ASSUME optind < Len(argv)
      PROVE  ValueGiven(Q, Letter) = Convert(program, Letter, argv[optind + 1])
  <2>1. Complete(Q, Letter) = Complete(P, Letter) \cup {optind}
    BY <1>1, <1>3, <1>6 DEF Complete
  <2>2. Complete(P, Letter) \subseteq 1 .. optind - 1
    BY <1>1 DEF Complete, Given
  <2>3. Last(Complete(Q, Letter)) = optind
    BY <1>1, <2>1, <2>2, LastOfMore
  <2>4. Complete(Q, Letter) # {}
    BY <2>1
  <2>. QED
    BY <2>3, <2>4 DEF ValueGiven
<1>. QED
  BY <1>2, <1>3, <1>4, <1>5, <1>6 DEF ValueGiven

(* The letters of all programs.                                             *)
LEMMA LettersOfPrograms ==
  ASSUME NEW p \in Programs
  PROVE  TakesArgument(p) \cup Flags(p)
           \subseteq {"L", "U", "S", "E", "A", "a", "p", "f", "b", "t", "n", "r", "B"}
<1>1. p \in {"coordinator", "radioServer", "spectrumServer", "spectrumProcessor"}
  BY DEF Programs, Options
<1>2. CASE p = "coordinator"
  BY <1>2 DEF Options, TakesArgument, Flags, CoordinatorOptions
<1>3. CASE p = "radioServer"
  BY <1>3 DEF Options, TakesArgument, Flags, RadioServerOptions
<1>4. CASE p = "spectrumServer"
  BY <1>4 DEF Options, TakesArgument, Flags, SpectrumServerOptions
<1>5. CASE p = "spectrumProcessor"
  BY <1>5 DEF Options, TakesArgument, Flags, SpectrumProcessorOptions
<1>. QED
  BY <1>1, <1>2, <1>3, <1>4, <1>5

(* A token without a letter is no option of any program.                    *)
LEMMA NoLetterIsNoOption ==
  ASSUME NEW p \in Programs
  PROVE  "" \notin TakesArgument(p) \cup Flags(p)
<1>1. "" \notin {"L", "U", "S", "E", "A", "a", "p", "f", "b", "t", "n", "r", "B"}
  BY Zenon
<1>. QED
  BY <1>1, LettersOfPrograms, Zenon

(* The token of the usage has a letter.                                     *)
LEMMA HelpHasALetter == "h" # ""
BY Zenon

(* An option that was returned, with its argument if it takes one, is seen, *)
(* and the settings are as given if they were set for it.                   *)
LEMMA SeenWithToken ==
  ASSUME ParseInv, NEW P, Seen(P), AtToken, IsDash(optind), NEW Q, Q = P \cup {optind},
         UNCHANGED <<program, argv>>, GivenAt(Q)',
         \/ /\ optind' = optind + 1
            /\ Letter \in TakesArgument(program) => optind = Len(argv)
         \/ /\ optind' = optind + 2 /\ optind < Len(argv)
            /\ Letter \in TakesArgument(program)
  PROVE  Seen(Q)' /\ optind' \in 1 .. Len(argv) + 1 /\ Q \in SUBSET (1 .. optind' - 1)
<1>1. /\ Len(argv) \in Nat /\ optind \in Nat \ {0} /\ optind - 1 \in Nat
      /\ optind <= Len(argv) /\ argv[optind] # EndOfOptions
  BY LineAhead DEF AtToken
<1>2. /\ PlacesUpTo(Q, optind) /\ \A i \in Q : argv[i] # EndOfOptions
      /\ Letter \in TakesArgument(program) => PlacesUpTo(Q, optind + 1)
  BY <1>1, PlaceToken DEF Seen
<1>3. Q \subseteq 1 .. optind
  BY <1>2 DEF PlacesUpTo
<1>4. ASSUME NEW n, PlacesUpTo(Q, n), optind' - 1 = n
      PROVE  PlacesUpTo(Q, optind - 1)'
  BY <1>4 DEF PlacesUpTo, IsOption, IsDash, TakesArgument
<1>5. PlacesUpTo(Q, optind - 1)'
  <2>1. CASE optind' = optind + 1
    <3>1. optind' - 1 = optind
      BY <1>1, <2>1
    <3>. QED
      BY <1>2, <1>4, <3>1
  <2>2. CASE optind' = optind + 2 /\ Letter \in TakesArgument(program)
    <3>1. optind' - 1 = optind + 1
      BY <1>1, <2>2
    <3>. QED
      BY <1>2, <1>4, <2>2, <3>1
  <2>. QED
    BY <2>1, <2>2
<1>6. optind' <= Len(argv) =>
        ~(optind' - 1 \in Q /\ argv[optind' - 1].letter \in TakesArgument(program))
  <2>1. CASE optind' = optind + 1 /\ (Letter \in TakesArgument(program) => optind = Len(argv))
    <3>1. optind' - 1 = optind /\ (optind' <= Len(argv) => optind # Len(argv))
      BY <1>1, <2>1
    <3>. QED
      BY <2>1, <3>1 DEF Letter
  <2>2. CASE optind' = optind + 2
    <3>1. optind' - 1 \notin 1 .. optind
      BY <1>1, <2>2
    <3>. QED
      BY <1>3, <3>1
  <2>. QED
    BY <2>1, <2>2
<1>7. optind' \in 1 .. Len(argv) + 1
  BY <1>1
<1>8. Q \in SUBSET (1 .. optind' - 1)
  BY <1>5 DEF PlacesUpTo
<1>. QED
  BY <1>2, <1>5, <1>6, <1>7, <1>8 DEF Seen, TakesArgument

(* What was given depends on the line alone, and the value on the settings. *)
LEMMA GivenOnSameLine ==
  ASSUME UNCHANGED <<program, argv>>, NEW S, NEW letter
  PROVE  /\ Given(S, letter)' = Given(S, letter)
         /\ ValueGiven(S, letter)' = ValueGiven(S, letter)
BY DEF Given, Complete, ValueGiven

(* Each turn of the loop keeps the settings as given so far.                *)
LEMMA ParseTurn ==
  ASSUME ParseInv, NEW P, Seen(P),
         OptionWithArgument \/ Flag \/ Help \/ Unknown \/ MissingArgument \/ Operand
  PROVE  \E Q \in SUBSET (1 .. optind' - 1) : Seen(Q)' /\ optind' \in 1 .. Len(argv) + 1
<1>0. /\ AtToken /\ UNCHANGED <<program, argv>> /\ program \in Programs
      /\ DOMAIN settings = TakesArgument(program) \cup Flags(program)
      /\ exitProgram = (Given(P, "h") # {})
      /\ \A letter \in Flags(program) : settings[letter] = (Given(P, letter) # {})
      /\ \A letter \in TakesArgument(program) : settings[letter] = ValueGiven(P, letter)
  BY DEF ParseInv, Seen, GivenAt, OptionWithArgument, Flag, Help, Unknown, MissingArgument, Operand
<1>1. /\ Len(argv) \in Nat /\ optind \in Nat \ {0} /\ optind - 1 \in Nat
      /\ optind <= Len(argv)
  BY <1>0, LineAhead DEF AtToken
<1>2. \A letter : letter \in TakesArgument(program) => letter \notin Flags(program) /\ letter # "h"
  BY <1>0, OptionLetters
<1>3. "h" \notin Flags(program)
  BY <1>0, OptionLetters
<1>4. PICK Q : Q = P \cup {optind}
  OBVIOUS
<1>5. /\ \A letter : letter # Letter => /\ Given(Q, letter) = Given(P, letter)
                                        /\ ValueGiven(Q, letter) = ValueGiven(P, letter)
      /\ Given(Q, Letter) = Given(P, Letter) \cup {optind}
      /\ optind = Len(argv) => ValueGiven(Q, Letter) = ValueGiven(P, Letter)
      /\ optind < Len(argv) =>
           ValueGiven(Q, Letter) = Convert(program, Letter, argv[optind + 1])
  BY <1>1, <1>4, GivenWithToken
<1>6. ASSUME /\ exitProgram' = (Given(Q, "h") # {})
             /\ \A letter \in Flags(program) : settings'[letter] = (Given(Q, letter) # {})
             /\ \A letter \in TakesArgument(program) : settings'[letter] = ValueGiven(Q, letter)
      PROVE  GivenAt(Q)'
  BY <1>0, <1>6, GivenOnSameLine DEF GivenAt, TakesArgument, Flags
<1>7. ASSUME IsDash(optind), GivenAt(Q)',
             \/ /\ optind' = optind + 1
                /\ Letter \in TakesArgument(program) => optind = Len(argv)
             \/ /\ optind' = optind + 2 /\ optind < Len(argv)
                /\ Letter \in TakesArgument(program)
      PROVE  \E R \in SUBSET (1 .. optind' - 1) : Seen(R)' /\ optind' \in 1 .. Len(argv) + 1
  BY <1>0, <1>4, <1>7, SeenWithToken
<1>8. CASE OptionWithArgument
  <2>1. Letter \in TakesArgument(program) /\ optind < Len(argv) /\ exitProgram' = exitProgram
        /\ settings' = [settings EXCEPT ![Letter] = Convert(program, Letter, argv[optind + 1])]
        /\ optind' = optind + 2
    BY <1>8 DEF OptionWithArgument
  <2>2. GivenAt(Q)'
    <3>1. exitProgram' = (Given(Q, "h") # {})
      BY <1>0, <1>2, <1>5, <2>1
    <3>2. \A letter \in Flags(program) : settings'[letter] = (Given(Q, letter) # {})
      BY <1>0, <1>2, <1>5, <2>1
    <3>3. \A letter \in TakesArgument(program) : settings'[letter] = ValueGiven(Q, letter)
      BY <1>0, <1>2, <1>5, <2>1
    <3>. QED
      BY <1>6, <3>1, <3>2, <3>3
  <2>3. IsDash(optind)
    BY <1>0, <2>1, NoLetterIsNoOption DEF IsDash, Letter
  <2>. QED
    BY <1>7, <2>1, <2>2, <2>3
<1>9. CASE Flag
  <2>1. Letter \in Flags(program) /\ exitProgram' = exitProgram
        /\ settings' = [settings EXCEPT ![Letter] = TRUE] /\ optind' = optind + 1
    BY <1>9 DEF Flag
  <2>2. GivenAt(Q)'
    <3>1. exitProgram' = (Given(Q, "h") # {})
      BY <1>0, <1>3, <1>5, <2>1
    <3>2. \A letter \in Flags(program) : settings'[letter] = (Given(Q, letter) # {})
      BY <1>0, <1>2, <1>5, <2>1
    <3>3. \A letter \in TakesArgument(program) : settings'[letter] = ValueGiven(Q, letter)
      BY <1>0, <1>2, <1>5, <2>1
    <3>. QED
      BY <1>6, <3>1, <3>2, <3>3
  <2>3. IsDash(optind)
    BY <1>0, <2>1, NoLetterIsNoOption DEF IsDash, Letter
  <2>. QED
    BY <1>2, <1>7, <2>1, <2>2, <2>3
<1>10. CASE Help
  <2>1. Letter = "h" /\ exitProgram' = TRUE /\ settings' = settings /\ optind' = optind + 1
    BY <1>10 DEF Help
  <2>2. GivenAt(Q)'
    <3>1. exitProgram' = (Given(Q, "h") # {})
      BY <1>5, <2>1
    <3>2. \A letter \in Flags(program) : settings'[letter] = (Given(Q, letter) # {})
      BY <1>0, <1>3, <1>5, <2>1
    <3>3. \A letter \in TakesArgument(program) : settings'[letter] = ValueGiven(Q, letter)
      BY <1>0, <1>2, <1>5, <2>1
    <3>. QED
      BY <1>6, <3>1, <3>2, <3>3
  <2>3. IsDash(optind)
    BY <2>1, HelpHasALetter DEF IsDash, Letter
  <2>. QED
    BY <1>2, <1>7, <2>1, <2>2, <2>3
<1>11. CASE MissingArgument
  <2>1. /\ Letter \in TakesArgument(program) /\ optind = Len(argv)
        /\ UNCHANGED <<exitProgram, settings>> /\ optind' = optind + 1
    BY <1>11 DEF MissingArgument
  <2>2. GivenAt(Q)'
    <3>1. exitProgram' = (Given(Q, "h") # {})
      BY <1>0, <1>2, <1>5, <2>1
    <3>2. \A letter \in Flags(program) : settings'[letter] = (Given(Q, letter) # {})
      BY <1>0, <1>2, <1>5, <2>1
    <3>3. \A letter \in TakesArgument(program) : settings'[letter] = ValueGiven(Q, letter)
      BY <1>0, <1>5, <2>1
    <3>. QED
      BY <1>6, <3>1, <3>2, <3>3
  <2>3. IsDash(optind)
    BY <1>0, <2>1, NoLetterIsNoOption DEF IsDash, Letter
  <2>. QED
    BY <1>7, <2>1, <2>2, <2>3
<1>12. CASE Unknown
  <2>1. /\ Letter \notin TakesArgument(program) /\ Letter \notin Flags(program) /\ Letter # "h"
        /\ UNCHANGED <<exitProgram, settings>> /\ optind' = optind + 1
    <3>1. Letter \notin TakesArgument(program) \cup Flags(program) \cup {"", "h"}
      BY <1>12 DEF Unknown
    <3>2. UNCHANGED <<exitProgram, settings>> /\ optind' = optind + 1
      BY <1>12 DEF Unknown
    <3>. QED
      BY <3>1, <3>2, Zenon
  <2>2. GivenAt(Q)'
    <3>1. exitProgram' = (Given(Q, "h") # {})
      BY <1>0, <1>5, <2>1
    <3>2. \A letter \in Flags(program) : settings'[letter] = (Given(Q, letter) # {})
      BY <1>0, <1>5, <2>1
    <3>3. \A letter \in TakesArgument(program) : settings'[letter] = ValueGiven(Q, letter)
      BY <1>0, <1>5, <2>1
    <3>. QED
      BY <1>6, <3>1, <3>2, <3>3
  <2>3. IsDash(optind)
    BY <1>12, Zenon DEF Unknown, IsDash, Letter
  <2>. QED
    BY <1>7, <2>1, <2>2, <2>3
<1>13. CASE Operand
  <2>1. ~IsDash(optind)
    BY <1>13, Zenon DEF Operand, IsDash, Letter
  <2>2. UNCHANGED <<exitProgram, settings>> /\ optind' = optind + 1
    BY <1>13 DEF Operand
  <2>3. GivenAt(P)'
    BY <1>0, <2>2, GivenOnSameLine DEF GivenAt, TakesArgument, Flags
  <2>4. optind' - 1 = optind /\ optind' \in 1 .. Len(argv) + 1
    BY <1>1, <2>2
  <2>5. 1 .. optind = (1 .. optind - 1) \cup {optind} /\ optind \notin 1 .. optind - 1
    BY <1>1
  <2>6. P \subseteq 1 .. optind - 1 /\ \A i \in 1 .. optind - 1 : i \in P <=> IsOption(i, P)
    BY DEF Seen, PlacesUpTo
  <2>7. ~IsOption(optind, P)
    BY <2>1 DEF IsOption
  <2>8. PlacesUpTo(P, optind)
    BY <2>5, <2>6, <2>7 DEF PlacesUpTo
  <2>9. PlacesUpTo(P, optind - 1)'
    BY <1>0, <2>4, <2>8 DEF PlacesUpTo, IsOption, IsDash, TakesArgument
  <2>10. optind' - 1 \notin P
    BY <2>4, <2>5, <2>6
  <2>11. P \in SUBSET (1 .. optind' - 1)
    BY <2>9 DEF PlacesUpTo
  <2>. QED
    BY <1>0, <2>3, <2>4, <2>9, <2>10, <2>11 DEF Seen
<1>. QED
  BY <1>8, <1>9, <1>10, <1>11, <1>12, <1>13

(* The token "--" is placed like an option, and is one of no program.       *)
LEMMA EndIsPlaced ==
  ASSUME ParseInv, NEW P, Seen(P), optind <= Len(argv), argv[optind] = EndOfOptions
  PROVE  \E Q : PlacesUpTo(Q, Len(argv)) /\ GivenAt(Q)
<1>1. /\ Len(argv) \in Nat /\ optind \in Nat \ {0} /\ optind - 1 \in Nat
      /\ program \in Programs
  BY LineAhead DEF ParseInv
<1>2. Letter = "-"
  BY DEF Letter, EndOfOptions, Opt, Token
<1>3. IsDash(optind)
  <2>1. "-" # ""
    BY Zenon
  <2>. QED
    BY <1>2, <2>1, Zenon DEF IsDash, Letter
<1>4. PICK Q : Q = P \cup {optind}
  OBVIOUS
<1>5. PlacesUpTo(Q, optind)
  BY <1>3, <1>4, PlaceToken
<1>6. ASSUME NEW i \in 1 .. Len(argv), i \notin 1 .. optind
      PROVE  i \notin Q /\ ~IsOption(i, Q)
  <2>1. optind \in Q /\ optind < i
    BY <1>1, <1>4, <1>6
  <2>. QED
    BY <1>5, <1>6, <2>1 DEF PlacesUpTo, IsOption
<1>7. 1 .. optind \subseteq 1 .. Len(argv)
  BY <1>1
<1>8. PlacesUpTo(Q, Len(argv))
  BY <1>5, <1>6, <1>7 DEF PlacesUpTo
<1>9. /\ \A letter : letter # Letter => /\ Given(Q, letter) = Given(P, letter)
                                        /\ ValueGiven(Q, letter) = ValueGiven(P, letter)
      /\ Given(Q, Letter) = Given(P, Letter) \cup {optind}
      /\ optind = Len(argv) => ValueGiven(Q, Letter) = ValueGiven(P, Letter)
      /\ optind < Len(argv) =>
           ValueGiven(Q, Letter) = Convert(program, Letter, argv[optind + 1])
  BY <1>1, <1>4, GivenWithToken
<1>10. Letter \notin TakesArgument(program) /\ Letter \notin Flags(program) /\ Letter # "h"
  BY <1>1, <1>2, OptionLetters
<1>11. GivenAt(P)
  BY DEF Seen
<1>12. GivenAt(Q)
  BY <1>9, <1>10, <1>11 DEF GivenAt
<1>. QED
  BY <1>8, <1>12

(* When the loop ends the whole line is placed.                             *)
LEMMA ParseEnd ==
  ASSUME ParseInv, AllConsumed
  PROVE  ParseInv'
<1>1. /\ ~done /\ done' = TRUE
      /\ UNCHANGED <<program, argv, optind, settings, exitProgram>>
      /\ optind <= Len(argv) => argv[optind] = EndOfOptions
  BY DEF AllConsumed
<1>2. PICK P \in SUBSET (1 .. optind - 1) : Seen(P)
  BY <1>1 DEF ParseInv
<1>3. \E Q : PlacesUpTo(Q, Len(argv)) /\ GivenAt(Q)
  <2>1. CASE optind <= Len(argv)
    BY <1>1, <1>2, <2>1, EndIsPlaced
  <2>2. CASE ~(optind <= Len(argv))
    <3>1. optind - 1 = Len(argv)
      BY <2>2, LineAhead
    <3>. QED
      BY <1>2, <3>1 DEF Seen
  <2>. QED
    BY <2>1, <2>2
<1>4. PICK Q : PlacesUpTo(Q, Len(argv)) /\ GivenAt(Q)
  BY <1>3
<1>5. PlacesUpTo(Q, Len(argv))'
  BY <1>1, <1>4 DEF PlacesUpTo, IsOption, IsDash, TakesArgument
<1>6. GivenAt(Q)'
  BY <1>1, <1>4, GivenOnSameLine DEF GivenAt, TakesArgument, Flags
<1>. QED
  BY <1>1, <1>5, <1>6 DEF ParseInv, TakesArgument, Flags

(* Every step keeps the settings as given.                                  *)
LEMMA ParseStep == ParseInv /\ [Next]_vars => ParseInv'
<1>. SUFFICES ASSUME ParseInv, [Next]_vars PROVE ParseInv'
  OBVIOUS
<1>1. CASE OptionWithArgument \/ Flag \/ Help \/ Unknown \/ MissingArgument \/ Operand
  <2>1. /\ ~done /\ done' = done /\ UNCHANGED <<program, argv>>
        /\ DOMAIN settings' = DOMAIN settings
    BY <1>1 DEF OptionWithArgument, Flag, Help, Unknown, MissingArgument, Operand, AtToken
  <2>2. PICK P \in SUBSET (1 .. optind - 1) : Seen(P)
    BY <2>1 DEF ParseInv
  <2>3. \E Q \in SUBSET (1 .. optind' - 1) : Seen(Q)' /\ optind' \in 1 .. Len(argv) + 1
    BY <1>1, <2>2, ParseTurn
  <2>. QED
    BY <2>1, <2>3 DEF ParseInv, TakesArgument, Flags
<1>2. CASE AllConsumed
  BY <1>2, ParseEnd
<1>3. CASE UNCHANGED vars
  <2>1. UNCHANGED <<program, argv, optind, settings, exitProgram, done>>
    BY <1>3 DEF vars
  <2>2. ASSUME NEW Q, GivenAt(Q) PROVE GivenAt(Q)'
    BY <2>1, <2>2, GivenOnSameLine DEF GivenAt, TakesArgument, Flags
  <2>3. ASSUME NEW Q, PlacesUpTo(Q, Len(argv)) PROVE PlacesUpTo(Q, Len(argv))'
    BY <2>1, <2>3 DEF PlacesUpTo, IsOption, IsDash, TakesArgument
  <2>4. ASSUME NEW Q, PlacesUpTo(Q, optind - 1) PROVE PlacesUpTo(Q, optind - 1)'
    BY <2>1, <2>4 DEF PlacesUpTo, IsOption, IsDash, TakesArgument
  <2>5. ASSUME NEW Q, Seen(Q) PROVE Seen(Q)'
    BY <2>1, <2>2, <2>4, <2>5 DEF Seen, TakesArgument
  <2>6. CASE done
    BY <2>1, <2>2, <2>3, <2>6 DEF ParseInv, TakesArgument, Flags
  <2>7. CASE ~done
    BY <2>1, <2>5, <2>7 DEF ParseInv, TakesArgument, Flags
  <2>. QED
    BY <2>6, <2>7
<1>. QED
  BY <1>1, <1>2, <1>3 DEF Next

(* The loop keeps its invariant.                                            *)
LEMMA ParseInvariant == Spec => []ParseInv
BY ParseInit, ParseStep, PTL DEF Spec

(* At the end the options stand where the definition without a loop says.   *)
LEMMA WholeLinePlaced ==
  ASSUME ParseInv, done
  PROVE  GivenAt(OptionPositions)
<1>1. PICK P : PlacesUpTo(P, Len(argv)) /\ GivenAt(P)
  BY DEF ParseInv
<1>2. OptionPositions = P
  BY <1>1, LineAhead, PlacingFound
<1>. QED
  BY <1>1, <1>2

(* An option has the value it was given last on the command line, and else  *)
(* its default, in all four programs and for every command line             *)
(* (coordinator.cc:316-416, radioServer.cc:261-349,                         *)
(* spectrumServer.cc:200-270, spectrumProcessor.cc:78-176).                 *)
THEOREM AsGivenHolds == Spec => []AsGiven
<1>1. ParseInv => AsGiven
  BY WholeLinePlaced DEF AsGiven
<1>. QED
  BY <1>1, ParseInvariant, PTL

(* The number of a token is found in it, with or without a dash.            *)
LEMMA NumberFound == \A n : Number(n).number = n
BY Zenon DEF Number, Token

(* The letters of the pipeline's options are letters.                       *)
LEMMA PipelineLetters ==
  /\ Opt("B").letter = "B" /\ Opt("t").letter = "t"
  /\ Opt("B") # EndOfOptions /\ Opt("t") # EndOfOptions
BY DEF Opt, Token, EndOfOptions

(* A token with a letter of the pipeline has a dash.                        *)
LEMMA PipelineDash ==
  ASSUME NEW i, argv[i].letter = "B" \/ argv[i].letter = "t"
  PROVE  IsDash(i)
<1>1. "B" # "" /\ "t" # ""
  BY Zenon
<1>. QED
  BY <1>1, Zenon DEF IsDash

(* On the line of the pipeline the options are the first and third token.   *)
LEMMA PipelinePlaced ==
  ASSUME ParseInv, program = "spectrumProcessor", NEW b, NEW t, argv = PipelineLine(b, t)
  PROVE  OptionPositions = {1, 3} /\ Len(argv) = 4
<1>1. /\ argv[1] = Opt("B") /\ argv[2] = Number(b) /\ argv[3] = Opt("t") /\ argv[4] = Number(t)
      /\ Len(argv) = 4 /\ DOMAIN argv = 1 .. 4
  BY DEF PipelineLine
<1>2. TakesArgument(program) = {"t", "n", "r", "B"}
  BY DEF TakesArgument, Options, SpectrumProcessorOptions
<1>3. /\ argv[1].letter \in TakesArgument(program) /\ argv[3].letter \in TakesArgument(program)
      /\ argv[1] # EndOfOptions
  BY <1>1, <1>2, PipelineLetters
<1>4. IsDash(1) /\ IsDash(3)
  BY <1>1, PipelineDash, PipelineLetters
<1>5. IsOption(1, {1, 3})
  <2>1. ~(1 - 1 \in {1, 3}) /\ \A j \in {1, 3} : ~(j < 1)
    OBVIOUS
  <2>. QED
    BY <1>4, <2>1 DEF IsOption
<1>6. IsOption(3, {1, 3})
  <2>1. ~(3 - 1 \in {1, 3}) /\ \A j \in {1, 3} : j < 3 => j = 1
    OBVIOUS
  <2>. QED
    BY <1>3, <1>4, <2>1 DEF IsOption
<1>7. ~IsOption(2, {1, 3}) /\ ~IsOption(4, {1, 3})
  <2>1. 2 - 1 = 1 /\ 4 - 1 = 3 /\ 1 \in {1, 3} /\ 3 \in {1, 3}
    OBVIOUS
  <2>. QED
    BY <1>3, <2>1 DEF IsOption
<1>8. 1 .. 4 = {1, 2, 3, 4}
  OBVIOUS
<1>9. PlacesUpTo({1, 3}, 4)
  BY <1>5, <1>6, <1>7, <1>8 DEF PlacesUpTo
<1>. QED
  BY <1>1, <1>9, PlacingFound

(* What the spectrum processor makes of the pipeline's line.                *)
LEMMA PipelineSettings ==
  ASSUME ParseInv, done, program = "spectrumProcessor",
         NEW b, NEW t, argv = PipelineLine(b, t)
  PROVE  settings.B = b /\ settings.t = t /\ ~exitProgram
<1>1. OptionPositions = {1, 3} /\ Len(argv) = 4
  BY PipelinePlaced
<1>2. GivenAt({1, 3})
  BY <1>1, WholeLinePlaced
<1>3. /\ argv[1].letter = "B" /\ argv[2].number = b
      /\ argv[3].letter = "t" /\ argv[4].number = t
  <2>1. argv[1] = Opt("B") /\ argv[2] = Number(b) /\ argv[3] = Opt("t") /\ argv[4] = Number(t)
    BY DEF PipelineLine
  <2>. QED
    BY <2>1, NumberFound, PipelineLetters
<1>4. TakesArgument(program) = {"t", "n", "r", "B"}
  BY DEF TakesArgument, Options, SpectrumProcessorOptions
<1>5. Given({1, 3}, "h") = {} /\ Given({1, 3}, "B") = {1} /\ Given({1, 3}, "t") = {3}
  BY <1>3 DEF Given
<1>6. Complete({1, 3}, "B") = {1} /\ Complete({1, 3}, "t") = {3}
  BY <1>1, <1>5 DEF Complete
<1>7. Last({1}) = 1 /\ Last({3}) = 3
  BY LastIsGreatest
<1>8. /\ ValueGiven({1, 3}, "B") = Convert(program, "B", argv[2])
      /\ ValueGiven({1, 3}, "t") = Convert(program, "t", argv[4])
  BY <1>6, <1>7 DEF ValueGiven
<1>9. Convert(program, "B", argv[2]) = b /\ Convert(program, "t", argv[4]) = t
  BY <1>3 DEF Convert
<1>. QED
  BY <1>2, <1>4, <1>5, <1>8, <1>9 DEF GivenAt

(* Whatever the tag of the power command and the bandwidth, the spectrum    *)
(* processor measures with them (spectrumServer.cc:142-144,                 *)
(* spectrumProcessor.cc:117-139).                                           *)
THEOREM PipelineGetsTagAndBandwidthHolds == Spec => []PipelineGetsTagAndBandwidth
<1>1. ParseInv => PipelineGetsTagAndBandwidth
  BY PipelineSettings DEF PipelineGetsTagAndBandwidth
<1>. QED
  BY <1>1, ParseInvariant, PTL

=============================================================================
