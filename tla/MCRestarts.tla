------------------------------ MODULE MCRestarts ------------------------------
(* Kill points and campaigns for Restarts.                                  *)
EXTENDS Restarts

Line(fromTag, toTag, isAutomatic) ==
  [startIfGain |-> 0, endIfGain |-> 1, startTag |-> fromTag, endTag |-> toTag,
   automatic |-> isAutomatic]

AutomaticOnly == {Line(0, 1, TRUE)}
AutomaticOrManual == {Line(0, 1, TRUE), Line(0, 1, FALSE)}

NoFaults == {}

(* The coordinator at its prompt, the spectrum server anywhere, the radio   *)
(* server unless it is idle.                                                *)
BetweenRoundsOrServing ==
  {<<"coordinator", "prompt">>}
    \cup ({"spectrumServer"} \X {"wait", "capture", "ack"})
    \cup ({"radioServer"} \X {"receive", "send", "open", "ack"})

Anywhere ==
  ({"coordinator"} \X (CoordPc \ {"off", "exited"}))
    \cup ({"radioServer"} \X (RadioPc \ {"off", "exited", "killed"}))
    \cup ({"spectrumServer"} \X (SpecPc \ {"off", "exited"}))
=============================================================================
