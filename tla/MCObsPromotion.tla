--------------------------- MODULE MCObsPromotion ---------------------------
(* obs-release.py as a whole: every command first loads and validates the   *)
(* manifest (main), and works on the packages it lists.  Scenarios of other *)
(* users and model constants.                                              *)
EXTENDS ObsPromotion, ObsManifest

\* "fina" was added after the baseline.
MCBaseline == [p \in AllPackages |-> IF p = "beam" THEN "old" ELSE None]

Users(packages, sources, commands, careful, bypass, staging, release, requests_) ==
  [packages |-> packages, sources |-> sources, commands |-> commands,
   careful |-> careful, bypass |-> bypass,
   revisions |-> [staging |-> staging, release |-> release], requests |-> requests_]

\* Enough revisions for a commit, a rollback and one in between.
Pinned == Users(<<"beam">>, {"old", "new", "bad"}, {"promote", "rollback"}, {"pin"}, {}, 3, 2, 2)
Quiet == Users(<<"beam", "fina">>, {"old", "bad"}, {"promote", "init-staging"}, {"quiet"}, {}, 2, 2, 1)
Frozen == Users(<<"beam">>, {"old", "new", "bad"}, {"promote", "health"}, {"pin", "freeze"},
                {"direct", "foreign"}, 2, 2, 2)
Unpinned == Users(<<"beam">>, {"old", "new", "bad"}, {"promote"}, {}, {}, 2, 2, 1)

CarefulUsers == {Pinned, Quiet, Frozen}
HastyUsers == {Unpinned}

-----------------------------------------------------------------------------
(* The manifest.                                                           *)

Lists == {<< >>, <<"beam">>, <<"beam", "beam">>, <<"beam", "fina">>, <<"fina">>}

Target == [name : {"leap", "retained"}, enabled : BOOLEAN, iso : BOOLEAN]

TargetLists == {<< >>} \cup {<<t>> : t \in Target} \cup (Target \X Target)

MCManifests ==
  [packages : Lists, legacy : {<< >>, <<"beam">>, <<"fina">>}, retired : Lists,
   candidates : Lists, targets : TargetLists, iso : BOOLEAN,
   release : {"lyra"}, staging : {"lyra", "lyra:staging"}]

Leap == [name |-> "leap", enabled |-> TRUE, iso |-> TRUE]

\* Those a scenario is played with.
Plain(packages) ==
  [packages |-> packages, legacy |-> << >>, retired |-> << >>, candidates |-> << >>,
   targets |-> <<Leap>>, iso |-> TRUE, release |-> "lyra", staging |-> "lyra:staging"]

FewManifests == {Plain(s.packages) : s \in HastyUsers}

RuleSets(n) == UNION {kSubset(k, Rule) : k \in 0 .. n}

MCMetas == [project : RuleSets(2), package : RuleSets(2)]

-----------------------------------------------------------------------------
\* The command runs, with the packages of a manifest that was accepted.
Runs ==
  /\ verdict = "accepted"
  /\ input.kind = "manifest"
  /\ input.value = Plain(scenario.packages)

MCInit ==
  /\ Init
  /\ GateInit
  /\ input # [kind |-> "manifest", value |-> Plain(scenario.packages)] =>
       /\ scenario = CHOOSE s \in Scenarios : TRUE
       /\ history["release"] = [p \in Package |-> << >>]

MCNext ==
  \/ GateNext /\ UNCHANGED vars
  \/ Runs /\ Next /\ UNCHANGED gateVars

MCSpec == MCInit /\ [][MCNext]_<<vars, gateVars>>
=============================================================================
