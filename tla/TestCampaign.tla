----------------------------- MODULE TestCampaign -----------------------------
(***************************************************************************)
(* What the tuner tester promises, with no processes and no messages: the  *)
(* output file receives one record per measurement, the k-th one tagged    *)
(* with the k-th tag and taken throughout at the k-th IF gain, both        *)
(* counted round and round their ranges.  An automatic campaign writes one *)
(* record for every tag and then stops.                                    *)
(***************************************************************************)
EXTENDS Integers, Sequences

VARIABLES args, records

(* The k-th value (from 0) of a counter that runs from lo to hi and wraps.  *)
(* A range that is upside down has its first value only.                    *)
Cycle(lo, hi, k) == IF hi < lo THEN lo ELSE lo + (k % (hi - lo + 1))

RecordAt(k) ==
  [tag |-> Cycle(args.startTag, args.endTag, k),
   gains |-> {Cycle(args.startIfGain, args.endIfGain, k)}]

Finished == args.automatic /\ Len(records) >= args.endTag - args.startTag + 1

Init == records = << >>

Record ==
  /\ ~Finished
  /\ records' = Append(records, RecordAt(Len(records)))
  /\ UNCHANGED args

Spec == Init /\ [][Record]_<<args, records>>

(* An automatic campaign goes on by itself.                                 *)
FairSpec == Spec /\ WF_<<args, records>>(Record /\ args.automatic)

=============================================================================
