---------------------------- MODULE ImageRelease ----------------------------
(***************************************************************************)
(* From release.toml to the evidence manifest of an ISO: release.py,        *)
(* image-build.py, release-artifacts.py and i18n-result.py, run one after   *)
(* the other by the release coordinator (scripts/build-desktop-alpha6.sh,   *)
(* kiwi/test/build-and-run-vm.sh) in a working tree that others may change  *)
(* meanwhile, with commands that fail or are killed between two steps.      *)
(* An ISO stands for its checksum: the n-th build has number n.             *)
(***************************************************************************)
EXTENDS Naturals, Sequences, FiniteSets

CONSTANTS
  Releases,    \* what release.toml says, in the order of the releases: [stage, iteration]
  None,
  Scenarios    \* what happens, see Scenario

\* careful: "quiet": nobody changes the tree while a command runs; "script": only
\* the release script writes evidence; "sound": nothing fails or is killed after
\* KIWI has written its packages; "fresh": a build is started only without results
\* and without a test machine.
\* commands: what the coordinator runs; first, last: of Releases; edits, commits, builds, crashes: bounds;
\* inventory: package -> localization status; signed: the policy lists the signature.
Scenario ==
  [careful : SUBSET {"quiet", "script", "sound", "fresh"},
   commands : SUBSET {"render", "export", "verify", "build", "artifacts", "evidence", "i18n"},
   gates : SUBSET {"installer", "hardware-matrix"},
   first : DOMAIN Releases, last : DOMAIN Releases, edits : Nat, commits : Nat, builds : Nat, crashes : Nat,
   inventory : UNION {[P -> {"complete", "not-applicable", "scheduled"}] : P \in SUBSET {"vms", "vega"}},
   signed : BOOLEAN]

ASSUME ReleasesAssumption ==
  Releases \in Seq([stage : {"alpha", "beta", "rc", "release"}, iteration : Nat])

ASSUME ScenariosAssumption == Scenarios \subseteq Scenario

\* What the file of a name describes; no file is none of these.
Description == [iso : Nat, packages : Nat, commit : Nat, dirty : BOOLEAN]

ASSUME NoneAssumption == None \notin Description

VARIABLES
  tree,       \* file -> version in the working tree
  commits,    \* the committed trees; HEAD is the last
  cmd,        \* the running command
  export,     \* the exported KIWI description, or None
  images,     \* the ISOs KIWI ever built: [files, commit, shipped]
  work,       \* KIWI's target directory: the number of its packages list, or 0
  dir,        \* artifact -> release -> what the file of that name describes, or None
  reviews,    \* package -> the reviews there are: [version, passed]
  results,    \* test result -> None or [iso, passed, shipped]
  guest,      \* the ISO the test machine, and all its stream holds, is of, or 0
  bundle,     \* the evidence manifest, or None
  crashes,
  scenario    \* never changes

source == <<tree, commits>>
candidate == <<images, work, dir>>
proof == <<reviews, results, bundle, guest>>
vars == <<source, cmd, export, candidate, proof, crashes, scenario>>

\* What render_files writes, and what else the image is made of.
Rendered == {"config.xml", "index.html", "README.md", "release"}
Written == {"config.sh", "root"}
Files == {"release.toml"} \cup Rendered \cup Written
Described == {"config.xml", "config.sh"}
Overlay == {"release", "root"}
ImageFiles == Described \cup Overlay

Head_ == Len(commits)
Dirty == tree # commits[Head_]
Toml == tree["release.toml"]

Idle == [name |-> "idle", steps |-> << >>]
Busy == cmd # Idle
At(step) == Busy /\ Head(cmd.steps) = step

\* The command goes on with its next step, or ends here.
Proceed(with) == cmd' = IF Len(cmd.steps) = 1 THEN Idle ELSE [with EXCEPT !.steps = Tail(@)]
Require(ok) == IF ok THEN Proceed(cmd) ELSE cmd' = Idle

-----------------------------------------------------------------------------
(* Others.                                                                 *)

Disturb == "quiet" \in scenario.careful => ~Busy

EditSource(f) ==
  /\ Disturb
  /\ tree[f] < scenario.edits
  /\ tree' = [tree EXCEPT ![f] = @ + 1]
  /\ UNCHANGED <<commits, cmd, export, candidate, proof, crashes>>

NextRelease ==
  /\ Disturb
  /\ Toml < scenario.last
  /\ tree' = [tree EXCEPT !["release.toml"] = @ + 1]
  /\ UNCHANGED <<commits, cmd, export, candidate, proof, crashes>>

GitCommit ==
  /\ Disturb
  /\ Dirty
  /\ Len(commits) < scenario.commits
  /\ commits' = Append(commits, tree)
  /\ UNCHANGED <<tree, cmd, export, candidate, proof, crashes>>

GitRestore ==
  /\ Disturb
  /\ Dirty
  /\ tree' = commits[Head_]
  /\ UNCHANGED <<commits, cmd, export, candidate, proof, crashes>>

-----------------------------------------------------------------------------
(* release.py render and check.                                            *)

Stale == {f \in Rendered : tree[f] # Toml}

\* The files in the order they are written.
RenderOrder == <<"config.xml", "index.html", "README.md", "release">>

StartRender ==
  /\ "render" \in scenario.commands
  /\ ~Busy
  /\ Stale # {}
  /\ cmd' = [name |-> "render", release |-> Toml, steps |-> RenderOrder]
  /\ UNCHANGED <<source, export, candidate, proof, crashes>>

\* render: one file after the other, from the release read at the start; a file
\* that says so already is not written.
RenderFile ==
  /\ cmd.name = "render"
  /\ tree' = [tree EXCEPT ![Head(cmd.steps)] = cmd.release]
  /\ Proceed(cmd)
  /\ UNCHANGED <<commits, export, candidate, proof, crashes>>

\* Mutant: check looks at the first file only.
CheckFirst == tree["config.xml"] = Toml

Fresh == Stale = {}

Observe == UNCHANGED <<source, export, candidate, proof, crashes>>

ReleaseCheck ==
  /\ At("check")
  /\ Require(Fresh)
  /\ Observe

-----------------------------------------------------------------------------
(* image-build.py: policy of the stages, validate, export, verify-export.  *)

\* required_test_result_names; installer stands for the VM gates.
RequiredResults(release) ==
  IF Releases[release].stage # "alpha" \/ Releases[release].iteration >= 8
  THEN {"obs-repositories", "installer", "i18n"}
  ELSE {"obs-repositories", "installer", "hardware-matrix"}

RequiredRoles(release) ==
  {"iso", "packages", "verified", "report", "checksum", "cyclonedx_sbom", "spdx_sbom"}
  \cup IF Releases[release].stage # "alpha" THEN {"checksum_signature"} ELSE {}

Roles == {"iso", "packages", "verified", "report", "checksum", "cyclonedx_sbom",
          "spdx_sbom", "checksum_signature", "manifest"}

\* validate_sources: what this model tells apart.
ValidSources ==
  /\ Releases[Toml].stage # "alpha" => scenario.signed
  /\ tree["config.xml"] = Toml

ValidateSources ==
  /\ At("validate")
  /\ IF ValidSources THEN Proceed([cmd EXCEPT !.release = Toml]) ELSE cmd' = Idle
  /\ Observe

Begin(name, steps) ==
  /\ name \in scenario.commands
  /\ ~Busy
  /\ cmd' = [name |-> name, steps |-> steps, release |-> 0, commit |-> 0, dirty |-> FALSE,
             build |-> 0, files |-> << >>]
Start(name, steps) == Begin(name, steps) /\ Observe

StartExport == Start("export", <<"validate", "identity", "describe", "overlay">>)

\* export reads the status, then HEAD; --allow-dirty goes on with a dirty tree.
ExportIdentity ==
  /\ At("identity")
  /\ \E allowDirty \in BOOLEAN :
       IF Dirty /\ ~allowDirty
       THEN cmd' = Idle
       ELSE Proceed([cmd EXCEPT !.commit = Head_, !.dirty = Dirty])
  /\ Observe

\* The destination must be empty, so an export is always a whole one.
ExportDescription ==
  /\ At("describe")
  /\ export' = None
  /\ Proceed([cmd EXCEPT !.files = [f \in Described |-> tree[f]]])
  /\ UNCHANGED <<source, candidate, proof, crashes>>

\* The overlay, the source identity, and the archive made of both.
ExportOverlay ==
  /\ At("overlay")
  /\ export' = [commit |-> cmd.commit, dirty |-> cmd.dirty, verified |-> FALSE,
                files |-> [f \in ImageFiles |-> IF f \in Described THEN cmd.files[f] ELSE tree[f]]]
  /\ Proceed(cmd)
  /\ UNCHANGED <<source, candidate, proof, crashes>>

\* Mutant: an export of a dirty tree is accepted.
VerifiableDirty == \A f \in Described : export.files[f] = tree[f]

\* verify_export compares the description with the tree as it is now.
Verifiable == ~export.dirty /\ \A f \in Described : export.files[f] = tree[f]

VerifyExport ==
  /\ "verify" \in scenario.commands
  /\ ~Busy
  /\ export # None
  /\ Verifiable
  /\ export' = [export EXCEPT !.verified = TRUE]
  /\ UNCHANGED <<source, cmd, candidate, proof, crashes>>

-----------------------------------------------------------------------------
(* The release script: a build, or --artifacts-only, and the evidence if it *)
(* was given a directory of results.                                       *)

Preflight == <<"check", "validate", "clean", "health">>
KiwiBuild == <<"source", "stage", "kiwi", "inspect", "archive-iso", "archive-manifest",
               "place", "status", "record">>
Artifacts == <<"candidate", "install", "checksum", "cyclonedx_sbom", "spdx_sbom", "report", "sign">>

\* Mutant: the results go, the machine of the old candidate stays.
DiscardResults ==
  results' = [t \in DOMAIN results |-> None] /\ UNCHANGED guest

\* What a careful coordinator does before a build: a candidate that may be
\* replaced leaves neither results nor a machine whose stream goes on to hold
\* its blocks, since --build-only changes nothing about the machine.
Discard ==
  results' = [t \in DOMAIN results |-> None] /\ guest' = 0

StartRelease ==
  \E evidence \in {<< >>, <<"evidence">>} :
    \/ /\ Begin("build", Preflight \o KiwiBuild \o Artifacts \o evidence)
       /\ IF "fresh" \in scenario.careful THEN Discard ELSE UNCHANGED <<results, guest>>
       /\ UNCHANGED <<source, export, candidate, reviews, bundle, crashes>>
    \/ Start("artifacts", Preflight \o Artifacts \o evidence)

TreeIsClean ==
  /\ At("clean")
  /\ Require(~Dirty)
  /\ Observe

\* obs-release.py health, see ObsPromotion; its result is not bound to an ISO.
ObsHealth ==
  /\ At("health")
  /\ results' = [results EXCEPT !["obs-repositories"] = [iso |-> 0, passed |-> TRUE, shipped |-> << >>]]
  /\ Proceed(cmd)
  /\ UNCHANGED <<source, export, candidate, reviews, bundle, guest, crashes>>

BuildSource ==
  /\ At("source")
  /\ IF Fresh THEN Proceed([cmd EXCEPT !.commit = Head_, !.build = Toml]) ELSE cmd' = Idle
  /\ Observe

\* The target directory is wiped; the description is copied.
StageDescription ==
  /\ At("stage")
  /\ work' = 0
  /\ Proceed([cmd EXCEPT !.files = [f \in ImageFiles |-> tree[f]]])
  /\ UNCHANGED <<source, export, images, dir, proof, crashes>>

\* KIWI may fail before it has written anything.
Kiwi ==
  /\ At("kiwi")
  /\ \/ /\ Len(images) < scenario.builds
        /\ \E shipped \in [DOMAIN scenario.inventory -> 0 .. 2] :
             images' = Append(images, [files |-> cmd.files, commit |-> cmd.commit, shipped |-> shipped])
        /\ work' = Len(images) + 1
        /\ Proceed(cmd)
     \/ /\ cmd' = Idle
        /\ UNCHANGED <<images, work>>
  /\ UNCHANGED <<source, export, dir, proof, crashes>>

\* The checks of the built image, the audit of its root file system among them.
InspectImage ==
  /\ At("inspect")
  /\ \E audit \in IF "sound" \in scenario.careful THEN {TRUE} ELSE BOOLEAN :
       Require(audit /\ images[work].files["config.xml"] = cmd.build /\ Toml = cmd.build)
  /\ Observe

ArchiveIso ==
  /\ At("archive-iso")
  /\ dir' = [dir EXCEPT !["iso"] = [r \in DOMAIN Releases |-> None]]
  /\ Proceed([cmd EXCEPT !.files = {r \in DOMAIN Releases : dir["iso"][r] # None}])
  /\ UNCHANGED <<source, export, images, work, proof, crashes>>

ArchiveManifest ==
  /\ At("archive-manifest")
  /\ dir' = [dir EXCEPT !["manifest"] = [r \in DOMAIN Releases |-> IF r \in cmd.files THEN None ELSE @[r]]]
  /\ Proceed(cmd)
  /\ UNCHANGED <<source, export, images, work, proof, crashes>>

Describes(iso, packages, commit, dirty) ==
  [iso |-> iso, packages |-> packages, commit |-> commit, dirty |-> dirty]

Put(artifact, release, what) ==
  /\ dir' = [dir EXCEPT ![artifact][release] = what]
  /\ UNCHANGED <<source, export, images, work, crashes>>

\* The new ISO takes its name.
PlaceIso ==
  /\ At("place")
  /\ Put("iso", cmd.build, Describes(work, 0, 0, FALSE))
  /\ Proceed(cmd)
  /\ UNCHANGED proof

\* write_build_manifest: the name, the status of the tree, then HEAD and the ISO.
ManifestStatus ==
  /\ At("status")
  /\ IF Toml = cmd.build THEN Proceed([cmd EXCEPT !.dirty = Dirty]) ELSE cmd' = Idle
  /\ Observe

WriteManifest ==
  /\ At("record")
  /\ Put("manifest", cmd.build, Describes(dir["iso"][cmd.build].iso, 0, Head_, cmd.dirty))
  /\ Proceed(cmd)
  /\ UNCHANGED proof

\* The four files are there, the manifest names a clean HEAD.
IsCandidate(r) ==
  /\ dir["iso"][r] # None
  /\ dir["manifest"][r] # None
  /\ work # 0 /\ images[work].files["config.xml"] = r
  /\ ~dir["manifest"][r].dirty
  /\ dir["manifest"][r].commit = Head_
  /\ ~Dirty

TakeCandidate ==
  /\ At("candidate")
  /\ IF IsCandidate(cmd.release)
     THEN Proceed([cmd EXCEPT !.commit = Head_]) ELSE cmd' = Idle
  /\ Observe

\* packages, and verified after it, of the last KIWI run.
InstallPackages ==
  /\ At("install")
  /\ dir' = [dir EXCEPT !["packages"][cmd.release] = Describes(0, work, 0, FALSE),
                        !["verified"][cmd.release] = Describes(0, work, 0, FALSE)]
  /\ Proceed(cmd)
  /\ UNCHANGED <<source, export, images, work, proof, crashes>>

ThisIso == dir["iso"][cmd.release].iso
ThesePackages == dir["packages"][cmd.release].packages

\* release-artifacts.py generate writes them one after the other.
WriteChecksum ==
  /\ At("checksum")
  /\ Put("checksum", cmd.release, Describes(ThisIso, 0, 0, FALSE))
  /\ Proceed(cmd)
  /\ UNCHANGED proof

WriteSbom(sbom) ==
  /\ At(sbom)
  /\ Put(sbom, cmd.release, Describes(0, ThesePackages, cmd.commit, FALSE))
  /\ Proceed(cmd)
  /\ UNCHANGED proof

\* Mutant: the commit is read when the report is written.
WriteReportOfHead ==
  /\ At("report")
  /\ Put("report", cmd.release, Describes(ThisIso, ThesePackages, Head_, FALSE))
  /\ Proceed(cmd)
  /\ UNCHANGED proof

WriteReport ==
  /\ At("report")
  /\ Put("report", cmd.release, Describes(ThisIso, ThesePackages, cmd.commit, FALSE))
  /\ Proceed(cmd)
  /\ UNCHANGED proof

SignChecksum ==
  /\ At("sign")
  /\ IF Releases[cmd.release].stage = "alpha"
     THEN Proceed(cmd) /\ Observe
     ELSE /\ \/ Put("checksum_signature", cmd.release, dir["checksum"][cmd.release]) /\ Proceed(cmd)
             \/ Put("checksum_signature", cmd.release, None) /\ cmd' = Idle
          /\ UNCHANGED proof

-----------------------------------------------------------------------------
(* Test results of the ISO in the directory.                               *)

Names(artifact) == {r \in DOMAIN Releases : dir[artifact][r] # None}

\* one: there must be one file of that kind, of whatever release.
One(artifact) == Cardinality(Names(artifact)) = 1
TheName(artifact) == CHOOSE r \in Names(artifact) : TRUE
The(artifact) == dir[artifact][TheName(artifact)]

RecordResult(t, iso, passed) ==
  /\ ~Busy
  /\ results' = [results EXCEPT ![t] = [iso |-> iso, passed |-> passed, shipped |-> << >>]]
  /\ UNCHANGED <<source, cmd, export, candidate, reviews, bundle, guest, crashes>>

\* The old machine is deleted, its stream with it, and a new one made and booted
\* with the ISO there is (see GuestEvidence for the steps).
BootCandidate(r) ==
  /\ ~Busy
  /\ dir["iso"][r] # None
  /\ guest' = dir["iso"][r].iso
  /\ UNCHANGED <<source, cmd, export, candidate, reviews, results, bundle, crashes>>

\* gate-evidence.py takes the last report the stream holds, if it passed; the
\* machine may be older than the ISO there is.
ExtractGate ==
  /\ guest # 0
  /\ RecordResult("installer", guest, TRUE)

\* lyra-hardware-matrix records the checksum of the ISO it is run for.
HardwareMatrix ==
  \E r \in Names("iso"), passed \in BOOLEAN : RecordResult("hardware-matrix", dir["iso"][r].iso, passed)

RunGate(t) ==
  /\ t \in scenario.gates
  /\ \/ t = "installer" /\ (ExtractGate \/ \E r \in Names("iso") : BootCandidate(r))
     \/ t = "hardware-matrix" /\ HardwareMatrix

\* Somebody reviews a package of the candidate.
ReviewPackage(p) ==
  /\ ~Busy
  /\ "i18n" \in scenario.commands
  /\ One("packages")
  /\ images[The("packages").packages].shipped[p] # 0
  /\ \E passed \in BOOLEAN :
       reviews' = [reviews EXCEPT ![p] = @ \cup
                     {[version |-> images[The("packages").packages].shipped[p], passed |-> passed]}]
  /\ UNCHANGED <<source, cmd, export, candidate, results, bundle, guest, crashes>>

\* Mutant: the version the review is of is not compared.
ReviewOfAnyVersion(review, version) == review.passed

\* review_check
ReviewPasses(review, version) == review.passed /\ review.version = version

\* inventory_check
InventoryPasses(p) == scenario.inventory[p] \in {"complete", "not-applicable"}

\* i18n-result.py with some reviews: a result is only written when every check
\* passed; it names the ISO the manifest names.
WriteI18nResult(given) ==
  /\ "i18n" \in scenario.commands
  /\ ~Busy
  /\ One("iso") /\ One("manifest") /\ One("packages")
  /\ TheName("manifest") = TheName("iso")
  /\ LET shipped == images[The("packages").packages].shipped
         present == {p \in DOMAIN scenario.inventory : shipped[p] # 0}
     IN  /\ DOMAIN given \subseteq present
         /\ present # {}
         /\ \A p \in present :
              IF p \in DOMAIN given THEN ReviewPasses(given[p], shipped[p]) ELSE InventoryPasses(p)
         /\ results' = [results EXCEPT !["i18n"] =
                          [iso |-> The("manifest").iso, passed |-> TRUE, shipped |-> shipped]]
  /\ UNCHANGED <<source, cmd, export, candidate, reviews, bundle, guest, crashes>>

-----------------------------------------------------------------------------
(* image-build.py artifact-manifest.                                       *)

\* iso_source_commit accepts the build manifest beside the ISO.
IsoSource ==
  LET name == TheName("iso") IN
  /\ dir["manifest"][name] # None
  /\ dir["manifest"][name].iso = The("iso").iso
  /\ name = Toml
  /\ ~dir["manifest"][name].dirty

\* validate_test_result, as far as it looks at the ISO.
ValidResult(t) ==
  /\ results[t] # None
  /\ results[t].passed
  /\ t = "hardware-matrix" => results[t].iso = The("iso").iso

ArtifactManifest(tests) ==
  IF /\ \A role \in RequiredRoles(Toml) : One(role)
     /\ IsoSource
     /\ \A t \in tests : ValidResult(t)
     /\ tests = RequiredResults(Toml)
     /\ ~Dirty
  THEN bundle' = [release |-> Toml, iso |-> The("iso").iso,
                  commit |-> dir["manifest"][TheName("iso")].commit,
                  roles |-> [role \in RequiredRoles(Toml) |-> The(role)],
                  results |-> [t \in tests |-> results[t]]]
  ELSE UNCHANGED bundle

Evidence(tests) ==
  /\ ArtifactManifest(tests)
  /\ UNCHANGED <<source, export, candidate, reviews, results, guest, crashes>>

\* The script passes the results that are required.
WriteEvidence ==
  /\ At("evidence")
  /\ Evidence(RequiredResults(Toml))
  /\ Proceed(cmd)

\* By hand, with any results.
WriteEvidenceByHand ==
  /\ "evidence" \in scenario.commands
  /\ "script" \notin scenario.careful
  /\ ~Busy
  /\ \E tests \in SUBSET DOMAIN results : Evidence(tests)
  /\ UNCHANGED cmd

\* KIWI has written its packages list and the build is not over.
BuiltByKiwi == cmd.name = "build" /\ \A i \in DOMAIN cmd.steps : cmd.steps[i] # "kiwi"

\* The process is killed, or the machine goes down.
Crash ==
  /\ Busy
  /\ "sound" \in scenario.careful => ~BuiltByKiwi
  /\ crashes < scenario.crashes
  /\ crashes' = crashes + 1
  /\ cmd' = Idle
  /\ UNCHANGED <<source, export, candidate, proof>>

-----------------------------------------------------------------------------
ResultNames == {"obs-repositories", "installer", "hardware-matrix", "i18n"}

Init ==
  /\ scenario \in Scenarios
  /\ tree = [f \in Files |-> IF f \in Written THEN 0 ELSE scenario.first]
  /\ commits = <<tree>>
  /\ cmd = Idle
  /\ export = None
  /\ images = << >>
  /\ work = 0
  /\ dir = [artifact \in Roles |-> [r \in DOMAIN Releases |-> None]]
  /\ reviews = [p \in DOMAIN scenario.inventory |-> {}]
  /\ results = [t \in ResultNames |-> None]
  /\ bundle = None
  /\ guest = 0
  /\ crashes = 0

\* A review for some of the packages.
Reviews ==
  UNION {{g \in [P -> UNION {reviews[p] : p \in P}] : \A p \in P : g[p] \in reviews[p]} :
           P \in SUBSET DOMAIN scenario.inventory}

Others == (\E f \in Written : EditSource(f)) \/ NextRelease \/ GitCommit \/ GitRestore

Tree == StartRender \/ RenderFile \/ StartExport \/ ExportIdentity \/ ExportDescription
        \/ ExportOverlay \/ VerifyExport

Build ==
  \/ StartRelease \/ ReleaseCheck \/ ValidateSources \/ TreeIsClean \/ ObsHealth
  \/ BuildSource \/ StageDescription \/ Kiwi \/ InspectImage
  \/ ArchiveIso \/ ArchiveManifest \/ PlaceIso \/ ManifestStatus \/ WriteManifest

Finish ==
  \/ TakeCandidate \/ InstallPackages \/ WriteChecksum \/ WriteReport \/ SignChecksum
  \/ \E sbom \in {"cyclonedx_sbom", "spdx_sbom"} : WriteSbom(sbom)
  \/ WriteEvidence \/ WriteEvidenceByHand

Prove ==
  \/ \E t \in scenario.gates : RunGate(t)
  \/ \E p \in DOMAIN scenario.inventory : ReviewPackage(p)
  \/ \E given \in Reviews : WriteI18nResult(given)

Next == (Others \/ Tree \/ Build \/ Finish \/ Prove \/ Crash) /\ UNCHANGED scenario

Spec == Init /\ [][Next]_vars

-----------------------------------------------------------------------------
TypeOK ==
  /\ tree \in [Files -> Nat]
  /\ commits \in Seq([Files -> Nat])
  /\ \A i \in DOMAIN images : images[i].commit \in DOMAIN commits /\ DOMAIN images[i].files = ImageFiles
  /\ work \in {0} \cup DOMAIN images
  /\ dir \in [Roles -> [DOMAIN Releases ->
       Description \cup {None}]]
  /\ \A r \in DOMAIN Releases : dir["iso"][r] # None => dir["iso"][r].iso \in DOMAIN images
  /\ \A t \in ResultNames : results[t] # None => results[t].iso \in {0} \cup DOMAIN images
  /\ guest \in {0} \cup DOMAIN images

\* The checksum, its signature and the report in an evidence manifest written
\* by the release script describe the ISO it names, and the SBOMs and the
\* report its packages and its commit, whatever was built, renamed or left half
\* written before (generate, artifact_manifest).
RolesAgree ==
  "script" \in scenario.careful /\ bundle # None =>
    LET role == bundle.roles IN
    /\ role["checksum"].iso = bundle.iso
    /\ role["report"].iso = bundle.iso
    /\ \A r \in {"cyclonedx_sbom", "spdx_sbom", "report"} :
         /\ role[r].packages = role["packages"].packages
         /\ role[r].commit = bundle.commit
    /\ Releases[bundle.release].stage # "alpha" => role["checksum_signature"].iso = bundle.iso

\* The packages a release names, and those its localization result is about,
\* are in its ISO, unless a build failed after KIWI had written its list and
\* --artifacts-only was used then (docs/release-gate.md:48).
PackagesShip ==
  {"script", "sound", "quiet", "fresh"} \subseteq scenario.careful /\ bundle # None =>
    /\ bundle.roles["packages"].packages = bundle.iso
    /\ "i18n" \in DOMAIN bundle.results =>
         bundle.results["i18n"].shipped = images[bundle.iso].shipped

\* What an evidence manifest names belongs together, and to its ISO.
BundleIsConsistent == RolesAgree /\ PackagesShip

\* A package whose translation is only scheduled is in the ISO of an evidence
\* manifest only if somebody reviewed that very version of it and it passed
\* (review_check, inventory_check), however often the ISO was rebuilt with
\* other versions since the review.
ScheduledPackagesWereReviewed ==
  {"script", "sound", "quiet", "fresh"} \subseteq scenario.careful
      /\ bundle # None /\ "i18n" \in DOMAIN bundle.results =>
    \A p \in DOMAIN scenario.inventory :
      LET version == images[bundle.iso].shipped[p] IN
      scenario.inventory[p] = "scheduled" /\ version # 0 =>
        [version |-> version, passed |-> TRUE] \in reviews[p]

\* The ISO of an evidence manifest was built from the commit it names, and all
\* of it carries the version of the release: rendering may have been killed,
\* committed half way and begun again (docs/release-gate.md:45-46).
BundledCommitBuiltTheIso ==
  "quiet" \in scenario.careful /\ bundle # None =>
    /\ images[bundle.iso].files = [f \in ImageFiles |-> commits[bundle.commit][f]]
    /\ \A f \in Rendered : commits[bundle.commit][f] = bundle.release

\* Every test result of an evidence manifest but that of OBS was obtained with
\* its ISO (docs/release-gate.md:24, docs/alpha8-evidence.md:35).
EvidenceIsOfTheCandidate ==
  bundle # None =>
    \A t \in DOMAIN bundle.results \ {"obs-repositories"} : bundle.results[t].iso = bundle.iso

\* It is so when, before each build, the coordinator drops the results and the
\* test machine. Dropping the results is not enough: the stream of a machine
\* outlives a --build-only run (build-and-run-vm.sh:1005-1008, :1040), and its
\* last report can be extracted again beside the new ISO.
FreshEvidenceIsOfTheCandidate ==
  "fresh" \in scenario.careful => EvidenceIsOfTheCandidate

\* A verified export is the commit it names, root overlay included, although
\* the status, the commit and the files are read one after the other (export).
VerifiedExportIsTheCommit ==
  "quiet" \in scenario.careful /\ export # None /\ export.verified =>
    export.files = [f \in ImageFiles |-> commits[export.commit][f]]

=============================================================================
