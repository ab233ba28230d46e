--------------------------- MODULE MCImageRelease ---------------------------
(***************************************************************************)
(* The release of an image, its test machine and the policy it is checked   *)
(* with. The test machine boots the ISO there is, and the result extracted  *)
(* from its stream is a result of the release; where no machine is at work  *)
(* step by step, BootCandidate and ExtractGate stand for it. Each initial   *)
(* state puts one of the three to work, or the first two together, and the  *)
(* others aside.                                                            *)
(***************************************************************************)
EXTENDS ImageRelease, GuestEvidence, ImagePolicy

CONSTANTS Cases, WithPolicy

MCReleases == <<[stage |-> "alpha", iteration |-> 6], [stage |-> "alpha", iteration |-> 7],
                [stage |-> "alpha", iteration |-> 8], [stage |-> "rc", iteration |-> 1]>>

Work(careful, commands, gates, first, last, edits_, commits_, builds, crashes_, inventory) ==
  [careful |-> careful, commands |-> commands, gates |-> gates, first |-> first, last |-> last,
   edits |-> edits_, commits |-> commits_, builds |-> builds, crashes |-> crashes_,
   inventory |-> inventory, signed |-> TRUE]

NoInventory == [p \in {} |-> "complete"]
Vms == [p \in {"vms"} |-> "scheduled"]

Exports == Work({"quiet"}, {"render", "export", "verify"}, {}, 1, 2, 1, 3, 0, 1, NoInventory)
Renders == Work({"quiet", "script"}, {"render", "build", "artifacts"}, {"hardware-matrix", "installer"}, 1, 2, 0, 2, 1, 1, NoInventory)
Signed == Work({"quiet", "script", "sound", "fresh"}, {"build", "artifacts", "i18n"}, {"installer"}, 4, 4, 0, 1, 2, 1, Vms)
FreshOnes == Work({"quiet", "fresh"}, {"build", "artifacts", "i18n", "evidence"}, {"installer"}, 3, 3, 0, 1, 2, 1, Vms)
Noisy == Work({"script"}, {"build", "artifacts"}, {"hardware-matrix", "installer"}, 1, 1, 1, 2, 1, 0, NoInventory)
Rehearsed == Work({"quiet", "script"}, {"build", "artifacts"}, {"hardware-matrix"}, 1, 1, 0, 1, 2, 0, NoInventory)
NoRelease == Work({}, {}, {}, 1, 1, 0, 0, 0, 0, NoInventory)

NoMachine == [sections |-> {}, vms |-> 0, launches |-> 0, blocks |-> 0, trouble |-> 0]
Rollbacks == [sections |-> {"exercise"}, vms |-> 1, launches |-> 1, blocks |-> 8, trouble |-> 3]
Machines == [sections |-> {"exercise", "installer"}, vms |-> 2, launches |-> 2, blocks |-> 3, trouble |-> 1]
OneMachine == [sections |-> {"installer"}, vms |-> 1, launches |-> 1, blocks |-> 1, trouble |-> 0]

MCScenarios == {Exports, Renders, Signed, FreshOnes, Noisy, Rehearsed, NoRelease}
MCPlans == {NoMachine, Rollbacks, Machines, OneMachine}

\* What is put to work together.
CarefulCases ==
  ({Exports, Renders, Signed, FreshOnes, Noisy} \X {NoMachine}) \cup ({NoRelease} \X {Rollbacks, Machines})
  \cup {<<Rehearsed, OneMachine>>}
HastyCases == {<<Rehearsed, OneMachine>>}

MCAnyRelease == {[version |-> 1, stage |-> s, iteration |-> i] : s \in {"alpha", "beta", "release"}, i \in 0 .. 1}
Entry(alias, url, repoCheck, packageCheck) ==
  [alias |-> alias, url |-> url, repoCheck |-> repoCheck, packageCheck |-> packageCheck]
MCRepositories ==
  {Entry(alias, "https", TRUE, TRUE) : alias \in {"lyra", "vega", "other"}}
  \cup {Entry("lyra", "https", FALSE, TRUE), Entry("lyra", "https", TRUE, FALSE), Entry("vega", "staging", TRUE, TRUE)}
MCExpected == {"lyra", "vega"}

PolicyAside ==
  /\ toml = [version |-> 1, stage |-> "alpha", iteration |-> 1]
  /\ repositories = <<Entry("lyra", "https", TRUE, TRUE), Entry("vega", "https", TRUE, TRUE)>>

PolicyAtWork == scenario = NoRelease /\ plan = NoMachine

MCInit ==
  /\ Init /\ GuestInit /\ PolicyInit
  /\ \/ <<scenario, plan>> \in Cases /\ PolicyAside
     \/ WithPolicy /\ PolicyAtWork

Alone == UNCHANGED <<vars, policyVars>>

\* The ISO the machine boots: the one in the directory.
BootIso ==
  \/ \E r \in Names("iso") : /\ BootLive(dir["iso"][r].iso) /\ BootCandidate(r)
                             /\ UNCHANGED <<scenario, policyVars>>
  \/ scenario = NoRelease /\ BootLive(vm.number) /\ Alone

\* The result of the installer gate is the one of the machine that ran it.
InstallerGate ==
  /\ ExtractInstaller
  /\ IF scenario = NoRelease THEN UNCHANGED vars ELSE ExtractGate /\ UNCHANGED scenario
  /\ UNCHANGED policyVars

MCNext ==
  \/ Next /\ UNCHANGED <<guestVars, policyVars>>
  \/ BootIso
  \/ (Machine \/ Exercise \/ StreamInstaller \/ AssembleRollback) /\ Alone
  \/ InstallerGate
  \/ PolicyAtWork /\ (Edits \/ Commands) /\ UNCHANGED <<vars, guestVars>>

MCSpec == MCInit /\ [][MCNext]_<<vars, guestVars, policyVars>>
=============================================================================
