------------------------------- MODULE Restarts -------------------------------
(***************************************************************************)
(* The tester over several launches of its programs: campaign after        *)
(* campaign on one output file, and programs that are killed and launched  *)
(* again.  None of them handles a signal, and all their state is lost, but *)
(* three things outlive them:                                              *)
(*                                                                         *)
(*   - the message queue with what waits in it: only the coordinator's     *)
(*     destructor removes it;                                              *)
(*   - the radio, and a command radio diags has read;                      *)
(*   - netcat | spectrumProcessor >> file, a process of its own that a     *)
(*     killed spectrum server leaves behind (an orphan).                   *)
(***************************************************************************)
EXTENDS TunerTester, SequencesExt

CONSTANTS
  KillPoints,   \* <<program, what it does>>: where programs may be killed
  MaxKills,     \* how many kills there are
  MaxLaunches   \* how often the coordinator is launched

ASSUME KillPointsAssumption ==
  KillPoints \subseteq ({"coordinator"} \X CoordPc)
                  \cup ({"radioServer"} \X RadioPc)
                  \cup ({"spectrumServer"} \X SpecPc)
ASSUME KillBoundsAssumption == MaxKills \in Nat /\ MaxLaunches \in Nat \ {0}

VARIABLES
  kills,        \* how many programs were killed so far
  launches,     \* how often the coordinator was launched
  logbook,      \* the announcements of the earlier coordinators
  orphans,      \* pipelines whose spectrum server was killed
  commandLost   \* a server was killed while it worked on a command

restartVars == <<kills, launches, logbook, orphans, commandLost>>
allVars == <<vars, restartVars>>

(* All lines of the console, of whatever coordinator.                       *)
console == logbook \o announced

RestartInit ==
  /\ Init
  /\ kills = 0
  /\ launches = 1
  /\ logbook = << >>
  /\ orphans = << >>
  /\ commandLost = FALSE

RestartTypeOK ==
  /\ TypeOK
  /\ kills \in 0 .. MaxKills
  /\ launches \in 1 .. MaxLaunches
  /\ logbook \in Seq([tag : Int, gain : Int])
  /\ orphans \in Seq(OutputRecord)
  /\ commandLost \in BOOLEAN

-----------------------------------------------------------------------------
(* A signal ends a program wherever it is.                                  *)

Killed(program, pc) ==
  /\ <<program, pc>> \in KillPoints
  /\ kills < MaxKills
  /\ kills' = kills + 1
  /\ UNCHANGED <<launches, logbook>>

(* The queue stays, and with it what waits in it.                           *)
KillCoordinator ==
  /\ Killed("coordinator", coordPc)
  /\ coordPc' = "exited"
  /\ UNCHANGED <<coordQid, args, ifGain, tag, success, announced, queueVars,
                 linkVars, diagsVars, radioVars, spectrumVars,
                 orphans, commandLost>>

ServingRadioCommand == radioQid # NoQueue /\ radioPc \in {"send", "receive", "ack"}

(* The connection goes; radio diags may have read the last command, or not. *)
KillRadioServer ==
  /\ Killed("radioServer", radioPc)
  /\ radioPc' = "killed"
  /\ Disconnect
  /\ commandLost' = (commandLost \/ ServingRadioCommand)
  /\ UNCHANGED <<radioQid, setupStep, radioCommand, diagsVars, queueVars, coordVars,
                 spectrumVars, orphans>>

(* The pipeline goes on by itself.                                          *)
KillSpectrumServer ==
  /\ Killed("spectrumServer", specPc)
  /\ specPc' = "exited"
  /\ orphans' = IF specPc = "capture"
                THEN Append(orphans, [tag |-> spectrumTag, gains |-> samples])
                ELSE orphans
  /\ commandLost' = (commandLost \/ specPc \in {"capture", "ack"})
  /\ UNCHANGED <<specQid, spectrumTag, samples, results, queueVars, linkVars,
                 diagsVars, radioVars, coordVars>>

Kill == KillCoordinator \/ KillRadioServer \/ KillSpectrumServer

-----------------------------------------------------------------------------
(* The user launches a program that has ended once more.                    *)

RelaunchCoordinator ==
  /\ coordPc = "exited"
  /\ launches < MaxLaunches
  /\ launches' = launches + 1
  /\ coordPc' = "off"
  /\ coordQid' = NoQueue
  /\ args' \in ArgSet
  /\ ifGain' = args'.startIfGain
  /\ tag' = args'.startTag
  /\ success' = TRUE
  /\ announced' = << >>
  /\ logbook' = console
  /\ UNCHANGED <<kills, orphans, commandLost, queueVars, linkVars, diagsVars,
                 radioVars, spectrumVars>>

(* A campaign needs the servers, one that runs or one that is to come.      *)
CampaignAhead == coordPc # "exited" \/ launches < MaxLaunches

(* Radio diags serves one connection to its end before it takes the next.   *)
RelaunchRadioServer ==
  /\ radioPc \in {"exited", "killed"}
  /\ CampaignAhead
  /\ toRadio = << >>
  /\ radioPc' = "off"
  /\ radioQid' = NoQueue
  /\ setupStep' = 0
  /\ radioCommand' = Command("demodmode", 0)
  /\ connected' = FALSE
  /\ fromRadio' = 0
  /\ UNCHANGED <<peerUp, toRadio, diagsVars, queueVars, coordVars, spectrumVars,
                 restartVars>>

(* Mutation: a new spectrum server wants a new queue and removes the one    *)
(* that is there.                                                           *)
RelaunchSpectrumServerClears ==
  /\ specPc = "exited"
  /\ CampaignAhead
  /\ RemoveQueue
  /\ specPc' = "off"
  /\ specQid' = NoQueue
  /\ spectrumTag' = 0
  /\ samples' = {}
  /\ UNCHANGED <<results, linkVars, diagsVars, radioVars, coordVars, restartVars>>

RelaunchSpectrumServer ==
  /\ specPc = "exited"
  /\ CampaignAhead
  /\ specPc' = "off"
  /\ specQid' = NoQueue
  /\ spectrumTag' = 0
  /\ samples' = {}
  /\ UNCHANGED <<results, queueVars, linkVars, diagsVars, radioVars, coordVars,
                 restartVars>>

-----------------------------------------------------------------------------
(* An orphan captures and writes like any pipeline; nobody waits for it.    *)

OrphanStreams ==
  /\ Streaming
  /\ \E i \in DOMAIN orphans :
       orphans' = [orphans EXCEPT ![i].gains = @ \cup {radioGain}]
  /\ UNCHANGED <<vars, kills, launches, logbook, commandLost>>

(* Mutation: the orphan does not end with its record.                       *)
OrphanMeasuresOnAndOn ==
  /\ \E i \in DOMAIN orphans :
       /\ orphans[i].gains # {}
       /\ results' = Append(results, orphans[i])
  /\ Len(results) < 5
  /\ UNCHANGED <<orphans, specPc, specQid, spectrumTag, samples, queueVars,
                 linkVars, diagsVars, radioVars, coordVars, kills, launches,
                 logbook, commandLost>>

OrphanMeasures ==
  /\ \E i \in DOMAIN orphans :
       /\ orphans[i].gains # {}
       /\ results' = Append(results, orphans[i])
       /\ orphans' = RemoveAt(orphans, i)
  /\ UNCHANGED <<specPc, specQid, spectrumTag, samples, queueVars, linkVars,
                 diagsVars, radioVars, coordVars, kills, launches, logbook,
                 commandLost>>

(* An orphan's netcat still listens on port 8001, so that the next one may  *)
(* fail; its pipeline ends without a record.                                *)
OrphanHoldsPort ==
  /\ orphans # << >>
  /\ specPc = "capture"
  /\ specPc' = "ack"
  /\ UNCHANGED <<specQid, spectrumTag, samples, results, queueVars, linkVars,
                 diagsVars, radioVars, coordVars, restartVars>>

-----------------------------------------------------------------------------

CoordinatorGoesOn ==
  \/ Coordinating /\ UNCHANGED restartVars
  \/ RelaunchCoordinator
RadioServerGoesOn ==
  \/ RadioServing /\ UNCHANGED restartVars
  \/ RelaunchRadioServer
SpectrumServerGoesOn ==
  \/ SpectrumServing /\ UNCHANGED restartVars
  \/ RelaunchSpectrumServer

RestartNext ==
  \/ CoordinatorGoesOn
  \/ RadioServerGoesOn
  \/ SpectrumServerGoesOn
  \/ UserActs /\ UNCHANGED restartVars
  \/ DiagsServing /\ UNCHANGED restartVars
  \/ Kill
  \/ OrphanStreams
  \/ OrphanMeasures
  \/ OrphanHoldsPort

RestartSpec == RestartInit /\ [][RestartNext]_allVars

(* As in TunerTester; and the user launches again what a campaign needs.    *)
RestartFairness ==
  /\ WF_allVars(CoordinatorGoesOn)
  /\ WF_allVars(RadioServerGoesOn)
  /\ WF_allVars(SpectrumServerGoesOn)
  /\ WF_allVars(DiagsServing /\ UNCHANGED restartVars)

FairRestartSpec == RestartSpec /\ RestartFairness

-----------------------------------------------------------------------------
(* The file is the console: over all campaigns, the k-th record is that of  *)
(* the k-th announcement.  No acknowledgement or command that one life of a *)
(* program left behind is taken for one of the next (coordinator.cc:283).   *)
FileFollowsConsole ==
  /\ Len(results) <= Len(console)
  /\ \A k \in DOMAIN results :
       results[k] = [tag |-> console[k].tag, gains |-> {console[k].gain}]

(* How many lines, or records, have tag t.                                  *)
LinesOfTag(lines, t) == Cardinality({k \in DOMAIN lines : lines[k].tag = t})

(* Whoever is killed and whatever is left behind, no announcement is        *)
(* measured twice: a tag has no more records than announcements.            *)
NoRecordUncalledFor ==
  \A i \in DOMAIN results :
    LET t == results[i].tag IN LinesOfTag(results, t) <= LinesOfTag(console, t)

(* Stop and wait over all launches: between the coordinators and a server   *)
(* there is one command or acknowledgement under way, and one more for each *)
(* program that was killed.  However many rounds and campaigns follow, they *)
(* add nothing to what a dead program left (which stays until a coordinator *)
(* removes the queue).                                                      *)
OneLeftPerKill ==
  RadioUnderWay <= 1 + kills /\ SpectrumUnderWay <= 1 + kills

(* The automatic campaigns go on one after the other to the last one, each  *)
(* announcement measured, although each campaign ends its servers, and      *)
(* servers are killed and launched again; unless one of them was at work on *)
(* a command, which the coordinator does not repeat (coordinator.cc:573-595)*)
CampaignDone ==
  /\ coordPc = "exited"
  /\ launches = MaxLaunches
  /\ Len(results) = Len(console)
  /\ tag > args.endTag

EveryCampaignCompletes ==
  args.automatic ~> CampaignDone \/ ~args.automatic \/ commandLost

(* Whoever was killed before: when a coordinator ends in order, the servers *)
(* that wait on its queue do not wait for ever.                             *)
QueueRemovalReleasesServers ==
  /\ (coordPc = "destroy" /\ radioPc = "wait" /\ Attached(radioQid)
        ~> radioPc \in {"exited", "killed"})
  /\ (coordPc = "destroy" /\ specPc = "wait" /\ Attached(specQid)
        ~> specPc = "exited")

=============================================================================
