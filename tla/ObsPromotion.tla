---------------------------- MODULE ObsPromotion ----------------------------
(***************************************************************************)
(* scripts/obs-release.py against the build service: promote, rollback,     *)
(* init-staging and health of one project, each a list of requests, while   *)
(* contributors commit, the scheduler publishes and the maintainer accepts. *)
(* What one request answers may be stale when the next one is made.         *)
(***************************************************************************)
EXTENDS Naturals, Sequences, FiniteSets

CONSTANTS
  AllPackages,
  Sources,       \* source states (srcmd5)
  Broken,        \* those that do not build
  Baseline,      \* package -> approved source of the stable baseline
  None,
  Scenarios      \* who works with the service, see Scenario

\* packages: those of the project, in manifest order; commands: what the
\* maintainer runs; careful: what the others abstain from ("pin", "quiet",
\* "freeze"); bypass: ways into release around staging ("direct", "foreign");
\* revisions, requests: bounds on the histories and on the submit requests.
Scenario ==
  [packages : Seq(AllPackages),
   sources : SUBSET Sources,
   commands : SUBSET {"promote", "rollback", "init-staging", "health"},
   careful : SUBSET {"pin", "quiet", "freeze"},
   bypass : SUBSET {"direct", "foreign"},
   revisions : [{"staging", "release"} -> Nat],
   requests : Nat]

ASSUME ConstantsAssumption ==
  /\ Broken \subseteq Sources
  /\ Baseline \in [AllPackages -> Sources \cup {None}]
  /\ None \notin Sources
  /\ Scenarios \subseteq Scenario

VARIABLES
  history,   \* remote -> package -> revisions: [source, request]; request 0: a commit
  binary,    \* remote -> package -> source of the public RPM
  state,     \* remote -> package -> "succeeded", "failed" (last build)
  dirty,     \* remote -> a source is newer than what is published
  requests,  \* submit requests: [package, source, origin, state]
  cmd,       \* the running command
  report,    \* the last health report with status passed, or None
  green,     \* what was once published from staging, built: <<package, source>>
  scenario   \* never changes

remote == <<history, binary, state, dirty>>
vars == <<history, binary, state, dirty, requests, cmd, report, green, scenario>>

Package == {scenario.packages[i] : i \in DOMAIN scenario.packages}

Remotes == {"staging", "release"}

Idle == [name |-> "idle", steps |-> << >>]

Present(r, p) == history[r][p] # << >>
Latest(r, p) == history[r][p][Len(history[r][p])]

\* The source of each package, as one request tells it (view=info).
SourceRevisions(r) ==
  [p \in Package |-> IF Present(r, p)
                     THEN [source |-> Latest(r, p).source, revision |-> Len(history[r][p])]
                     ELSE None]

-----------------------------------------------------------------------------
(* The build service and its other users.                                  *)

Add(r, p, s, request) ==
  /\ Len(history[r][p]) < scenario.revisions[r]
  /\ history' = [history EXCEPT ![r][p] = Append(@, [source |-> s, request |-> request])]
  /\ dirty' = [dirty EXCEPT ![r] = TRUE]
  /\ UNCHANGED <<binary, state>>

\* A contributor commits to staging.
Commit(p, s) ==
  /\ "quiet" \in scenario.careful => cmd.name # "promote"
  /\ Add("staging", p, s, 0)
  /\ UNCHANGED <<requests, cmd, report, green>>

\* Somebody commits to release, past staging.
DirectCommit(p, s) ==
  /\ "direct" \in scenario.bypass
  /\ "freeze" \in scenario.careful => cmd.name # "health"
  /\ Add("release", p, s, 0)
  /\ UNCHANGED <<requests, cmd, report, green>>

\* All sources of a project are built and those that succeed published.
Publish(r) ==
  LET built == {p \in Package : Present(r, p) /\ Latest(r, p).source \notin Broken}
  IN  /\ dirty[r]
      /\ dirty' = [dirty EXCEPT ![r] = FALSE]
      /\ state' = [state EXCEPT ![r] =
                     [p \in Package |-> IF p \in built THEN "succeeded" ELSE "failed"]]
      /\ binary' = [binary EXCEPT ![r] =
                      [p \in Package |-> IF p \in built THEN Latest(r, p).source ELSE @[p]]]
      /\ green' = green \cup (IF r = "staging"
                              THEN {<<p, Latest(r, p).source>> : p \in built} ELSE {})
      /\ UNCHANGED <<history, requests, cmd, report>>

Submit(p, s, origin) ==
  /\ Len(requests) < scenario.requests
  /\ requests' = Append(requests, [package |-> p, source |-> s, origin |-> origin, state |-> "new"])

\* A submit request from another project than staging.
ForeignRequest(p, s) ==
  /\ "foreign" \in scenario.bypass
  /\ Submit(p, s, "elsewhere")
  /\ UNCHANGED <<history, binary, state, dirty, cmd, report, green>>

Accept(i) ==
  /\ requests[i].state = "new"
  /\ "freeze" \in scenario.careful => cmd.name # "health"
  /\ Add("release", requests[i].package, requests[i].source, i)
  /\ requests' = [requests EXCEPT ![i].state = "accepted"]
  /\ UNCHANGED <<cmd, report, green>>

Revoke(i) ==
  /\ requests[i].state = "new"
  /\ requests' = [requests EXCEPT ![i].state = "revoked"]
  /\ UNCHANGED <<history, binary, state, dirty, cmd, report, green>>

Service ==
  \/ \E p \in Package, s \in scenario.sources :
       Commit(p, s) \/ DirectCommit(p, s) \/ ForeignRequest(p, s)
  \/ \E r \in Remotes : Publish(r)
  \/ \E i \in DOMAIN requests : Accept(i) \/ Revoke(i)

-----------------------------------------------------------------------------
(* A command is the list of the requests it still has to make.              *)

AtStep(kind) == cmd.steps # << >> /\ Head(cmd.steps).kind = kind
Step(kind) == [kind |-> kind, package |-> None]
Of(kind) == [i \in DOMAIN scenario.packages |-> [kind |-> kind, package |-> scenario.packages[i]]]

\* The step's package.
Subject == Head(cmd.steps).package

Proceed(with) ==
  cmd' = IF Len(cmd.steps) = 1 THEN Idle
         ELSE [with EXCEPT !.steps = Tail(@)]

\* check_remote_project: metadata and overrides are ObsManifest's.
Gate == <<Step("inventory"), Step("result")>>

StartPromote(p, pinned, execute) ==
  /\ cmd = Idle
  /\ pinned # None => <<p, pinned>> \in green    \* what was tested was published
  /\ "pin" \in scenario.careful => pinned # None
  /\ cmd' = [name |-> "promote", remote |-> "staging", package |-> p, pinned |-> pinned,
             execute |-> execute, source |-> None,
             steps |-> Gate \o <<Step("revise"), Step("submit")>>]

StartRollback(p, s, execute) ==
  /\ cmd = Idle
  /\ cmd' = [name |-> "rollback", remote |-> "staging", package |-> p, execute |-> execute,
             source |-> s, steps |-> <<Step("copy")>>]

StartInit(execute) ==
  /\ cmd = Idle
  /\ cmd' = [name |-> "init-staging", remote |-> "release", execute |-> execute,
             seen |-> [p \in Package |-> None],
             steps |-> <<Step("read")>> \o Of("seed")]

StartHealth ==
  /\ cmd = Idle
  /\ cmd' = [name |-> "health", remote |-> "release", execute |-> FALSE,
             seen |-> [p \in Package |-> None], listed |-> [p \in Package |-> None],
             steps |-> <<Step("inventory")>> \o Of("provenance") \o <<Step("result"), Step("list")>>
                         \o Of("fetch") \o <<Step("write")>>]

Start ==
  /\ \/ \E p \in Package, s \in scenario.sources \cup {None}, execute \in BOOLEAN :
          "promote" \in scenario.commands /\ StartPromote(p, s, execute)
     \/ \E p \in Package, s \in scenario.sources, execute \in BOOLEAN :
          "rollback" \in scenario.commands /\ StartRollback(p, s, execute)
     \/ \E execute \in BOOLEAN : "init-staging" \in scenario.commands /\ StartInit(execute)
     \/ "health" \in scenario.commands /\ StartHealth
  /\ UNCHANGED <<history, binary, state, dirty, requests, report, green>>

Reads == UNCHANGED <<history, binary, state, dirty, requests, report, green>>

\* Every package of the manifest is there; the others are not looked at again.
Inventory ==
  /\ AtStep("inventory")
  /\ \A p \in Package : Present(cmd.remote, p)
  /\ Proceed(IF cmd.name = "health"
             THEN [cmd EXCEPT !.seen = SourceRevisions(cmd.remote)] ELSE cmd)
  /\ Reads

\* Mutant: published although a newer source waits.
TargetResultDirtyToo ==
  /\ AtStep("result")
  /\ \A p \in Package : state[cmd.remote][p] = "succeeded"
  /\ Proceed(cmd)
  /\ Reads

\* check_target_result: published, clean, every package built.
TargetResult ==
  /\ AtStep("result")
  /\ ~dirty[cmd.remote]
  /\ \A p \in Package : state[cmd.remote][p] = "succeeded"
  /\ Proceed(cmd)
  /\ Reads

\* Mutant: the pinned revision is not compared with the current one.
ReviseUnchecked ==
  /\ AtStep("revise")
  /\ Present("staging", cmd.package)
  /\ Proceed([cmd EXCEPT !.source = Latest("staging", cmd.package).source])
  /\ Reads

\* promote reads the revisions again and submits what it finds now.
Revise ==
  /\ AtStep("revise")
  /\ Present("staging", cmd.package)
  /\ cmd.pinned \in {None, Latest("staging", cmd.package).source}
  /\ Proceed([cmd EXCEPT !.source = Latest("staging", cmd.package).source])
  /\ Reads

\* osc submitrequest, which refuses what release already has.
SubmitRequest ==
  /\ AtStep("submit")
  /\ IF cmd.execute
     THEN /\ Present("release", cmd.package) => Latest("release", cmd.package).source # cmd.source
          /\ Submit(cmd.package, cmd.source, "staging")
     ELSE UNCHANGED requests
  /\ Proceed(cmd)
  /\ UNCHANGED <<history, binary, state, dirty, report, green>>

\* rollback: osc copypac -r of a revision of release into staging.
CopyRevision ==
  /\ AtStep("copy")
  /\ IF cmd.execute
     THEN /\ \E i \in DOMAIN history["release"][cmd.package] :
               history["release"][cmd.package][i].source = cmd.source
          /\ Add("staging", cmd.package, cmd.source, 0)
     ELSE UNCHANGED remote
  /\ Proceed(cmd)
  /\ UNCHANGED <<requests, report, green>>

ReadRelease ==
  /\ AtStep("read")
  /\ Proceed([cmd EXCEPT !.seen = SourceRevisions("release")])
  /\ Reads

\* A package release does not have yet ends the command (KeyError), with the
\* packages before it seeded.
Seed ==
  /\ AtStep("seed")
  /\ cmd.seen[Subject] # None
  /\ IF cmd.execute
     THEN Add("staging", Subject, cmd.seen[Subject].source, 0)
     ELSE UNCHANGED remote
  /\ Proceed(cmd)
  /\ UNCHANGED <<requests, report, green>>

\* Mutant: any accepted request proves the revision, wherever it came from.
ProvenAnyRequest(p) ==
  LET revision == Latest("release", p) IN
  IF revision.request # 0
  THEN requests[revision.request].state = "accepted"
  ELSE Baseline[p] = revision.source

\* release_provenance and validate_accepted_promotion.
Proven(p) ==
  LET revision == Latest("release", p) IN
  IF revision.request # 0
  THEN LET request == requests[revision.request] IN
       /\ request.state = "accepted"
       /\ request.origin = "staging"
       /\ request.package = p
       /\ request.source = revision.source
  ELSE Baseline[p] = revision.source

\* latest_source_revision: the history must agree with what was seen first.
Provenance ==
  /\ AtStep("provenance")
  /\ cmd.seen[Subject].revision = Len(history["release"][Subject])
  /\ Proven(Subject)
  /\ Proceed(cmd)
  /\ Reads

ListBinaries ==
  /\ AtStep("list")
  /\ \A p \in Package : binary["release"][p] # None
  /\ Proceed([cmd EXCEPT !.listed = binary["release"]])
  /\ Reads

\* A rebuilt package has another file name, and the listed one is gone (404);
\* a retry asks again, later.
Download(p) == binary["release"][p] = cmd.listed[p]

\* verify_repository.
Fetch ==
  /\ AtStep("fetch")
  /\ Download(Subject)
  /\ Proceed(cmd)
  /\ Reads

WriteReport ==
  /\ AtStep("write")
  /\ report' = [source |-> [p \in Package |-> cmd.seen[p].source], binary |-> cmd.listed]
  /\ Proceed(cmd)
  /\ UNCHANGED <<history, binary, state, dirty, requests, green>>

\* PolicyError, KeyError, a failed osc or download, an interrupted process:
\* nothing is written any more, and nothing is taken back.
Fail ==
  /\ cmd # Idle
  /\ cmd' = Idle
  /\ Reads

Cli ==
  \/ Inventory \/ TargetResult \/ Revise \/ SubmitRequest
  \/ CopyRevision \/ ReadRelease \/ Seed
  \/ Provenance \/ ListBinaries \/ Fetch \/ WriteReport
  \/ Fail

Init ==
  /\ scenario \in Scenarios
  /\ \E released \in SUBSET Package :
       /\ history = [r \in Remotes |-> [p \in Package |->
                       IF r = "release" /\ p \in released /\ Baseline[p] # None
                       THEN <<[source |-> Baseline[p], request |-> 0]>> ELSE << >>]]
       /\ binary = [r \in Remotes |-> [p \in Package |->
                       IF r = "release" /\ p \in released THEN Baseline[p] ELSE None]]
       /\ state = [r \in Remotes |-> [p \in Package |->
                       IF binary[r][p] = None THEN "failed" ELSE "succeeded"]]
  /\ dirty = [r \in Remotes |-> FALSE]
  /\ requests = << >>
  /\ cmd = Idle
  /\ report = None
  /\ green = {}

Next == (Service \/ Start \/ Cli) /\ UNCHANGED scenario

Spec == Init /\ [][Next]_vars

-----------------------------------------------------------------------------
TypeOK ==
  /\ history \in [Remotes -> [Package -> Seq([source : Sources, request : Nat])]]
  /\ binary \in [Remotes -> [Package -> Sources \cup {None}]]
  /\ state \in [Remotes -> [Package -> {"succeeded", "failed"}]]
  /\ dirty \in [Remotes -> BOOLEAN]
  /\ requests \in Seq([package : Package, source : Sources, origin : {"staging", "elsewhere"},
                       state : {"new", "accepted", "revoked"}])
  /\ green \subseteq Package \X Sources
  /\ \A p \in Package : \A i \in DOMAIN history["release"][p] :
       history["release"][p][i].request \in {0} \cup DOMAIN requests

\* Only a source that was built and published in staging is ever submitted,
\* whatever is committed while promote runs (docs/obs-release.md, promote).
SubmittedIsGreen ==
  \A i \in DOMAIN requests :
    requests[i].origin = "staging" => <<requests[i].package, requests[i].source>> \in green

\* It is so when revisions are pinned or nobody commits while promote runs.
CarefulSubmitIsGreen ==
  scenario.careful \cap {"pin", "quiet"} # {} => SubmittedIsGreen

\* A health report that passed names only sources of the approved baseline or
\* sources that were published in staging: commits past staging and requests
\* from elsewhere cannot hide (release_provenance).
ReportedIsPromoted ==
  report # None =>
    \A p \in Package : \/ report.source[p] = Baseline[p]
                       \/ <<p, report.source[p]>> \in green

\* The RPMs a passed report vouches for were built from the sources it names,
\* although sources, build results and downloads are asked for one after the
\* other (health_report), when nothing is accepted meanwhile.
ReportMatchesBinaries ==
  "freeze" \in scenario.careful /\ report # None => report.binary = report.source

=============================================================================
