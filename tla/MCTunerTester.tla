---------------------------- MODULE MCTunerTester ----------------------------
(* Small campaigns for TLC.                                                 *)
EXTENDS TunerTesterInvariant

CommandLine(fromGain, toGain, fromTag, toTag, isAutomatic) ==
  [startIfGain |-> fromGain, endIfGain |-> toGain,
   startTag |-> fromTag, endTag |-> toTag, automatic |-> isAutomatic]

(* More tags than gains (the gain wraps within the campaign), more gains    *)
(* than tags, one gain only, and a gain range that is upside down.          *)
AutomaticArgs ==
  {CommandLine(0, 1, 0, 3, TRUE), CommandLine(1, 3, 5, 6, TRUE),
   CommandLine(2, 2, 0, 1, TRUE), CommandLine(2, 1, 0, 1, TRUE)}

(* Tag and gain wrap at different rounds; one of each range upside down.    *)
ManualArgs ==
  {CommandLine(0, 2, 0, 1, FALSE), CommandLine(1, 0, 4, 5, FALSE),
   CommandLine(0, 1, 3, 2, FALSE)}

NormalArgs == AutomaticArgs \cup ManualArgs

(* One automatic and one manual campaign of a few rounds.                   *)
MixedArgs == {CommandLine(0, 1, 0, 2, TRUE), CommandLine(0, 1, 0, 1, FALSE)}

ShortAutomatic == {CommandLine(0, 1, 0, 1, TRUE)}
ShortManual == {CommandLine(0, 1, 0, 1, FALSE)}

NoFaults == {}
=============================================================================
