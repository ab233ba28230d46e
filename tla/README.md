# Lyra OS desktop: formal models

This directory holds the TLA+ specifications kept beside the Lyra OS desktop
repository: what is modelled of it, what TLC checks on small instances and what
TLAPS proves for every instance. `PROJECT.json` lists every run, the source
lines behind each definition, the hazards and the findings.

## The system

The repository builds a desktop distribution. Its program logic is in three
places: the **installer**, which can destroy data and has concurrency and
failure in it; the **release tooling**, which decides from many files and a
remote build service whether something may be released; and the **harness of
the parental controls**, programs that change a disposable virtual machine and
must put it back. The rest is packaging, image description and text.

| Component | State it keeps | Operations | Modules |
| --- | --- | --- | --- |
| Service and engine (`installer/service/src/main.rs`, `service/engine.rs`, `operation.rs`, `protocol.rs`) | completed operations, cancel flag, events written | pre-checks, `execute`, `unwind`, control reader | `InstallContract`, `InstallEngine`, `InstallEngineProofs` |
| Operations (`service/operations/*.rs`) | mount table, partition table, files of the target | about 50 `perform`/`undo` pairs | mounts only: `TargetMounts`, `TargetMountsProofs` |
| Wizard page (`ui/app.js`) | page, selection, plan, summary, confirmation, installing/terminal | handlers, `refreshPlan`, `updateSummary`, `executeInstallation` | `Wizard`, `WizardProofs` |
| Wizard backend (`src-tauri/src/main.rs`) | child process, pipes, trace and evidence files | commands, `execute_plan_blocking` | its answers, in `Wizard` |
| Discovery and planning (`storage/*.rs`) | none (snapshot in, plan out) | `snapshot`, `PlanBuilder::build` | as sets of choices, in `Wizard` |
| OBS staging and promotion (`scripts/obs-release.py`) | the projects on the build service | `validate`, `check`, `promote`, `rollback`, `init-staging`, `health` | `ObsManifest`, `ObsPromotion`, `ObsProofs` |
| Image build and evidence (`scripts/release.py`, `image-build.py`, `release-artifacts.py`, `i18n-result.py`, `build-and-run-vm.sh`) | working tree and commits, exported description, build directory, release directory, results | `render`, `check`, `export`, `verify`, build, SBOMs, checksum, signature, gates, evidence | `ImageRelease`, `ImagePolicy`, `ImageReleaseProofs`, `EvidenceProofs` |
| Test machine (`kiwi/test/*`) | disk, trace of launches, stream of guest blocks | create, record, launch, phases, extract, assemble | `GuestEvidence`, `EvidenceProofs` |
| Admission gate (`docs/evidence/parental-transitions`) | lock files, record, leases, processes | `initialize`, `transition`, PAM session, forked handles | `AccountGate`, `AccountGateProofs` |
| Parental VM exercises (`docs/evidence/parental-*`) | the machine they change, result files, recovery marker | fixture, tests, cleanup, `snapshot`, `recover` | `VmTables`, `VmExercise`, `VmFixtureTables`, `VmFixture`, `VmProofs` |

### How the parts interact

The page calls the backend with `invoke` and goes on when the answer arrives;
clicks are handled in between. `execute_plan` starts the service through
`pkexec`, writes one request line, closes stdin and reads event lines until the
service exits. The service rereads the disks, rebuilds the plan, compares it
with the request's and performs the operations. Every operation works on the
kernel's mount table, which outlives the service: the next run finds what a
dead one left.

The release coordinator runs the scripts one after the other. They share
nothing but files and the build service: `obs-release.py` asks a remote that
other people write to; `release.py` and `image-build.py` read a tree that people
edit; the test machine boots the ISO that happens to be in the release
directory, its guest streams blocks to a file, and the evidence manifest takes
what those files say. `obs-release.py health` is one step of the build.

The gate's `transition` and the PAM module share two lock files and a record.
An exercise shares its machine with the exercise before it, with the recovery
that `ExecStopPost` or an operator starts, and with logind.

### What is hard

* **Interleavings**: clicks against answers (`app.js`), the cancel line against
  the operation loop, the wizard's death against the running service, commits
  against a promotion that reads twice, a session against a scan of `/proc`.
* **Partial failure**: any of some fifty operations, any `umount` of the unwind,
  mounts made inside a `perform` that the engine cannot undo; a command that
  took effect and timed out; an fsync that fails after its rename.
* **Crash and restart**: a service that dies leaves the target mounted; a
  killed build leaves files of two builds side by side; a power loss may keep
  the removal of a recovery marker and lose the restoration before it.
* **Staleness**: plan against disks, summary against selection, test result
  against ISO, published binaries against sources, originals against the
  remains of an earlier exercise.
* **Agreement of several sources of one fact**: events, exit status and what is
  still held; the checksum, SBOMs, report and manifest of one ISO.

### What makes each part correct

* Engine: no work without admission; a verdict that agrees with the exit status
  and with what is held; everything acquired is released, newest first, or
  reported; cancellation is bounded.
* Mounts: writes reach the chosen disk; the unwind touches its own mounts only;
  leftovers are never a success; a retry on the disk is possible.
* Wizard: one installation; the request is what was confirmed and validated;
  the wizard is always given back, and not after the disk was written.
* Promotion: what is submitted was built and published in staging; what a
  report vouches for is promoted and is what users download; retained targets
  stay disabled.
* Image: what an evidence manifest names belongs to one ISO, one commit and one
  version, and its results were obtained with that ISO.
* Gate: root works on an account nobody uses; after a failed transition nobody
  finds the gate open before the next one commits, and who had found it open
  before is let in only if root changed nothing.
* Exercises: a report that calls the machine clean is true; no exercise takes
  another's remains for originals; whoever finds no marker finds no remains; a
  recovery can be repeated until it ends.

## Modules

### `InstallContract`: what a run promises

A run is refused or admitted, advances operation by operation, may stop early,
then releases what it holds newest first, and only then has a verdict; a death
has none. No control points, events or threads.

### `InstallEngine`: the service

One action per step of `main`, `execute` and `unwind` between two points where
another process or thread can act: `pc` is the control point, `defects` what is
wrong with the request or the machine (chosen once), `completed`, `cancelled`,
`failed`, `cleanupErrors` are the variables of `execute`, `undoAt` the position
of the loop of `unwind`, `events` what went to stdout. `CancelLine` is the
control reader, `CloseStdin` and `ReaderGone` the wizard's process,
`BrokenPipe` the panic of `println!` on a closed pipe, `Kill` everything else
that ends a process. `held` is a history variable: which of the operations in
`HasUndo` hold something.

Abstracted: which command an operation runs and why it fails; the text of
events; the second `config.validate()` of `execute`, which repeats that of
`main` on the same value. An operation that fails is assumed to have
compensated for itself, as `operation.rs` demands; `TargetMounts` looks into
that.

### `TargetMounts`: the mount table through successive runs

`mounts` is the kernel's table below `/run/lyra-installer`: a mount has a
point, a source, the time it was made (`id`) and the run that made it. A mount
hides whatever was mounted earlier at its point and below; `Shown` gives what a
path shows then, and `HangsOn` which mounts the path of another led through when
that was mounted. The kernel keeps a pointer to the parent instead; the order of
mounting gives the same answers, because nothing is detached before what hangs on
it. `Umount` refuses a busy mount; `UmountTree` and `UmountSome` are `umount -R`. The operations of
`plan_to_operations` and `deployment_operations` are `Steps`: one action for
those that mount, one for `ReleaseDisk`, one for those that need a free disk,
and two halves for `CreateSubvolumes` and `InstallBootloader`, which mount
something inside their `perform`. One subvolume stands for twenty, since none
is inside another; `/sys` stands for `/proc` and `/dev`. All operations that
mount nothing are one step. `Fault` counts commands that fail although they
could succeed; `Die` ends a run at any point. Mount propagation between the
bind mounts and the live system is left out, as are swap areas, volume groups
and two services at once.

### `Wizard`: the page script

`calls` is the list of unanswered invocations. Each handler is an action up to
its first `await`, each continuation an action that takes its call out of the
list. The awaits of `executeInstallation` are the call kinds `precheck`,
`listen`, `execute` and `fit`. `canConfirm` and `canInstall` are the *displayed*
state of checkbox and button, recomputed only where the script calls
`updateInstallButtonState`. `shown` is what the summary page says. Five form
pages are one; the configuration is a member of a small set, with one value the
page refuses and one only the backend refuses. `setting` is chosen once: whether
answers keep their order, and whether the user waits for them.

### `ObsManifest` and `ObsPromotion`: releasing packages

`ObsManifest` is the local half of `obs-release.py`: `Manifest.validate`,
`check_project_meta` and `check_disabled_flag` as predicates (`ManifestOk`,
`MetaOk`, `FlagOk`) over every small manifest and every pair of rule sets.
`MayEnable` is the reference they are measured against: what the build service
makes of such rules, from the most specific rule to the default.

`ObsPromotion` is the remote half. `history` is the list of revisions of each
package in each project, `binary` the source of the public RPM, `dirty` that a
source is newer than what is published. A command is a list of remaining steps,
one request each; contributors commit, the scheduler publishes, the maintainer
accepts in between. `green` remembers what was ever published from staging.
`MCObsPromotion` composes the two: every command first validates its manifest,
and only with an accepted one does it run.

### `ImageRelease`, `ImagePolicy` and `GuestEvidence`: releasing an image

`ImageRelease` is the coordinator's work from `release.toml` to the evidence
manifest. A file is represented by the version of what was written to it, an
ISO by the number of its build, an artifact in the release directory by what it
describes (`dir`), so that mixtures are visible. Commands are lists of steps;
any of them may be killed between two steps, may fail, and others may edit and
commit in between. `render` compares and writes one file after the other, and
the archive of the old candidate moves the ISO before its manifest. A
*scenario* says who is careful about what: nobody touches
the tree during a command, only the script writes evidence, nothing fails
or is killed after KIWI wrote its list, and results and the test machine are
dropped before each build ("fresh", `Discard`).

`ImagePolicy` has the checks with more structure: the release and its version,
the fields `render` replaces, the repositories of the description before an
export and in the export, the policy and its list of artifacts. People edit all
of them in any order between the commands.

`GuestEvidence` is the machine: wiped, identified, created, launched, each a
step a kill can follow; the guest's phases, which may be refused, restarted,
repeated or truncated on their way; the extraction and the assembly of results
on the host. `MCImageRelease` composes the three: the machine is given the ISO in
the release directory at its first launch, keeps it and its stream through every
later build, and the result extracted from that stream is a result of the release.
`ImageRelease` remembers the ISO of the machine in `guest`, which all scenarios
have, those without a machine that works step by step too (`BootCandidate`,
`ExtractGate`): what an extracted result is of is always the machine's ISO,
whatever lies in the directory by then.

### `AccountGate`: admission to one account

`transition()` and the PAM module with their two locks, one action per system
call that another process can see between: the write of the record is complete,
failed before the rename, or failed after it, when `disk` holds what a restart
may find. `/proc` is scanned one number after the other while processes come
and go; one that appears behind a running scan is a *stray*, since no scan can
promise more. A session's lease lives until the last copy of its handle is
closed. A session takes four steps, each of which may be refused (`KnowAccount`,
`TakeShared`, `ReadRecord`, `Admit`): a transition writes `blocked` before it
asks for its lease, so the record may change after it was read and before the
session is let in. The session's lease then keeps the transition from its own,
and root changes nothing. `failed` says how far the last failed transition came:
it had only `closed` the gate, or `worked` under its lease. `late` marks a
session that read an active record after a failed transition, or was let in
after one that worked, before the next publication. A controller killed in the
publishing write after its rename has published: both its checks had passed.
`unresolved` is the double fault `transition.py:155-157` names: the denial after
a failed publication failed as well, or was cut off.

### `VmTables`, `VmExercise`: exercises that clean up after themselves

`VmTables` says of eight exercise programs what they assert to be absent, which
originals they remember, what each step changes, and what each row of their
`finally` clause puts back, under which flag, and whether its failure is
recorded or raised. `VmExercise` runs such a table: a command fails before its
effect, half way or after it, a row of the cleanup fails, the program is killed,
the machine restarts, and another exercise of the same family follows. A family
is the exercises that look for the same markers; a machine is used for one
family, and remains of another would go unnoticed, as the code intends one
disposable machine per exercise. `forgets` names what an exercise leaves on
purpose: the restarted sshd, and for the callback exercises a stopped gdm and a
permissive machine.

### `VmFixtureTables`, `VmFixture`: exercises under a recovery marker

The eight later exercises call `fixture_recovery.py`. `VmFixture` has
`snapshot()` with its pending file, rename and directory sync, the exercise and
its desktop session, and `recover()` with its lock, called by the exercise, by
`ExecStopPost` or by hand. A power loss keeps or loses every change that was
not synced, thing by thing. `VmFixtureTables` has the three versions of
`recover()` in the repository: the one of parental-xwayland, which
gnome-services, dconf and a11y use too, the one of parental-input, and the one
of parental-session with `os.sync`, of which helpers and shortcuts have copies.
Only the last promises anything across a power loss, and only for it is that
checked.

`MCVmHarness` puts the gate, the exercises and the fixture to work, one of them
in a behaviour, since they share nothing.

## Runs

| Run | What it shows | Distinct states |
| --- | --- | --- |
| `engine` | Every combination of defects, every interleaving with cancel, broken pipe and kill: admission, verdicts, leaks, the contract, that what is held is released or reported, that cancellation bounds the work | 5 736 |
| `wizard` | One installation, valid configuration, plan and choice, what a user who waits sees and sends, that the wizard is given back | 1 429 578 |
| `mounts` | Three runs, two disks, two faults: writes, leftovers, unwind, retry | 359 307 |
| `obs` | The manifest and metadata gate over all small inputs; every command against a build service others write to, who pin, keep quiet or go around staging | 1 751 616 |
| `image` | Evidence manifests, exports, results, rollback assembly, policy | 1 272 739 |
| `vm_harness` | Gate, cleanups, recovery | 610 069 |
| `engine_cancel_reply` | Does every finished run write `Completed` or `Failed`? | violated |
| `wizard_shown` | Is what is sent what was shown, for a user who does not wait? | violated |
| `wizard_retry` | No retry after a write? | violated |
| `mounts_other_disk` | Unmounted after success, with two disks? | violated |
| `obs_race` | Is everything submitted green, if nobody pins or keeps quiet? | violated |
| `image_evidence` | Is every result that of the candidate? | violated |

Every property of a passing run has a mutant: an operator beside the modelled
one with a plausible mistake in it, which the property rejects. The type
invariants of `Wizard`, `TargetMounts`, `ObsPromotion`, `ImageRelease`,
`GuestEvidence` and `ImagePolicy` describe the state for a reader and are in no
run: they say no more than the types.

### Bounds

* `N = 4` operations with undo for the middle two: an operation without undo
  before and after, two whose order of release matters. The proofs cover every
  `N` and `HasUndo`.
* `MaxCalls = 3`: an installation together with two overlapping plan or summary
  requests, the smallest case in which answers cross. One is enough for a user
  who waits. Two disks, two kinds of swap, one combination without a plan; four
  configurations. The script never compares more than two of them.
* `MaxRuns = 3`, `MaxFaults = 2` of `mounts`: leftovers under a later run, a
  death during the recovery from a death, a fault in the unwind after one in
  the loop.
* `obs`: one package with three sources, one of them broken, up to three
  revisions and two requests: a commit, a rollback and one in between; two
  packages for `init-staging`, which may stop at the second. The
  manifest and metadata inputs are two targets, two architectures and rule sets
  of up to two rules, one more than is needed for a rule to override another.
* `image`: two builds (an ISO and its replacement), two or three commits (render
  committed half way and begun again), one crash, two versions of a package. The
  machine has two lives with two launches, and in another scenario eight blocks
  and three troubles, enough for a complete rollback exercise with repeated and
  lost phases. Three edits of the policy: two that cancel out and one more.
* `vm_harness`: two controllers, sessions and processes; three transitions or
  restarts (fail, admit, commit); two exercises on a machine with two faults
  each (a fault and one in its cleanup); under the fixture two exercises and two
  troubles (a failure and another in the recovery from it).
* Deadlock is not checked: every run has an end (bounded runs, edits, faults),
  and a wizard with nothing to answer waits for a click.

### Fairness

* `WF_vars(Service)` (`engine`): the main thread waits for nobody and each
  command it runs ends. `RealExecutor` has no timeouts, so this is an assumption
  about the commands. No fairness for cancellation, pipes or kill.
* `WF_vars(Answers)` (`wizard`): every invocation is answered. `execute_plan`
  answers when the child exits (the assumption above, and a user who answers the
  authorization); the others do no waiting.
* `FixtureFairness` (`vm_harness`): the exercise goes on, logind cleans up, and
  somebody recovers while a marker is left. The code starts the recovery in the
  `finally` clause and in `ExecStopPost`; after a power loss it only refuses the
  next snapshot with "run fixture_recovery.py first", so there the operator who
  does it is assumed.

## Proofs

Eight modules hold the theorems; TLAPS checks them for every value of the
constants. Except for the local gate in `ObsProofs`, whose behaviours have a
single step, each safety property follows from an inductive invariant, which TLC
checked on the run before it was proved.

`InstallEngineProofs`, for every positive number of operations `N` and every
`HasUndo \subseteq 1..N`:

* `Invariance`: `Spec => []IInv`, and from it `TypeCorrect`, `Admitted`,
  `Earned`, `LeaksReported` and `SingleVerdict`, the safety properties of
  `engine`;
* `Implements`: every behaviour of the engine is one of `InstallContract`.

None of the safety properties is inductive alone. `IInv` adds to the types:
what each control point says about the defects already excluded (`Admission`);
that `completed` is `1..k` (`InOrder`); that in the loop exactly the completed
operations with undo are held (`Acquired`); that in the unwind everything below
`undoAt` is still held and above it only cleanup errors (`Unwinding`); which
verdicts and warnings have been written by then (`Reporting`); and what is true
once the process has ended (`Ended`). `Unwinding` is the heart: with `undoAt = 0`
it says that what is held is exactly what the cleanup errors name, so
`Completed` is written only with nothing held. Each action has a lemma that it
preserves `IInv`. For the refinement each action is one action of the contract
or a stuttering step under `stageBar`, `causeBar` and `verdictBar`.

`TargetMountsProofs`, for any disks, any number of runs and any number of failing
commands: the five properties of `mounts`. The first half is about the table
alone. A new mount shows at its path and leaves every path shown that does not
lead through its point (`AttachShows`); detaching hides nothing (`DetachShows`);
hanging on something is transitive (`HangsOnTransitive`), so that `umount -R`,
finished or stopped on its way up, leaves nothing in the air (`UmountDetaches`);
and below every mount there is one at each point above it (`Rooted`). `Inv` then
says that a run holds the points of the operations behind it, each once
(`HeldInv`, `DistinctInv`); that the paths of what it holds, and of the temporary
mount it is in the middle of, show mounts of this run (`ShownInv`), which rests on
the mount order of `plan_to_operations`: an operation mounts below what is held
and above none of it (`NextPoint`); and that it knows of every mount it has made,
unless it has failed (`OwnInv`). From there `WritesReachTarget`,
`LeftMountMeansFailed` and `UnwindsOwnMounts` follow for any history of dead runs.
The other two need `OneDiskInv`: on one disk mounts of different runs never cover
each other, `ReleaseDisk` knows of every partition that is mounted, and a table
without partitions is empty, since everything hangs on the root.

`ObsProofs` first treats the local gate, for any architectures, manifests and
metadata: what passes it keeps retained targets disabled for every architecture
(`Disabled`), keeps candidates and retired packages out of release
(`StagingOnly`), and makes the ISO from a live target (`IsoTarget`). The first
rests on `RequiredFlagDisables` and `OverrideKeepsDisabled`: the required rule is
more specific than every enabling rule that passes.

Promotion follows, for any packages, sources, baseline, scenarios and lengths of
the histories: `SubmitsGreen`, `ReportsThePromoted` and `ReportIsConsistent`.
What was published and has not changed since is what was built (`CleanInv`); a
command makes its requests in an order, so a request it has left says what it
was answered before (`Ordered`, `Left`); a history only grows, so a revision a
check has seen is the latest one as long as their number is the same
(`SeenInv`). `ReportsThePromoted` needs pinned or quiet promotions in its
statement, which every scenario of the run `obs` has.

`AccountGateProofs`, for any number of controllers, session handles, processes
and transitions: `RunsAlone` and `NeedsCommit`, the two properties of the gate.
`GateInv` is inductive. Its parts: one controller holds `.writer`
(`OneWriter`), exclusive and shared lease exclude each other (`LeaseExcludes`),
what a scan has passed holds only strays (`Swept`), the gate is closed on the
disk between the first write and the publication (`Closed`), and after an
unexcused failure no active record is left unless `Restore` is still at work
(`Denied`). `NeedsCommit` follows in two parts: a session that reads the record
holds the shared lease, so nobody is in `Restore`; and one that has read it goes
on holding it, so that until it is let in no transition gets its lease, and one
that fails meanwhile has only closed the gate (`ReadInTime`).

`WizardProofs`, for any disks, swaps, configurations, settings and number of
calls in flight: the five safety properties of `wizard`. An answer takes its
call out of the middle of `calls`, so the first lemmas say what that does to the
positions of the others (`Drops`, `Follows`, `Adds`) and the rest of the proof
does not look at sequences. `Inv` says that a run under way has one call, which
carries a configuration `precheck` let through and the choice the selects still
show (`RunInv`); that every page after the storage page costs an answered call
(`Budget`); that, with ordered answers, the last plan asked for is that of the
choice, and that a run past its `precheck` has no such question before it
(`PlanInv`); and, for a user who waits, that at most one call is unanswered and
the summary shows what the form holds (`PatientInv`).

`ImageReleaseProofs`, for any list of releases and any scenarios: the five
properties of releasing an image. The steps a command has left are the last of
its list, in order, so what it has done and what it will do follow from the next
step alone (`Tidy`). `Makes` says once what each step writes. `Inv` has a part
for each thing that must agree: one ISO in the release directory (`IsoInv`); the
files of a command are those of its release (`FilesInv`); in a quiet tree what
was read is what is there still, so an export is its commit (`QuietInv`,
`ExportInv`) and an ISO was built from the commit its manifest names
(`ManifestInv`); with results and machine dropped before every build, the
results there are, and the machine, belong to the ISO in the directory
(`FreshInv`); a packages list and a
localization result are those of the ISO (`ShipInv`) and were written with the
reviews they need (`ReviewInv`). `ShipInv` is the delicate one. Between KIWI's
list and the installation of the release the list in the build directory is not
the ISO's, and an interruption there leaves the two apart until the next build;
`PackagesShip` and `ScheduledPackagesWereReviewed` are stated for scenarios
without one ("sound"), and the proof shows that nothing else is needed.

`EvidenceProofs` is about the other two parts of the run `image`, as that run
composes them: `LaunchesAreTraced` and `RollbackPassed` for every plan of the
test machine, `PolicyHolds` for any releases, repositories and edits. A launch
is recorded before it is made (`TraceInv`); what the stream says passed did, on
the machine there is (`StreamInv`); the phases behind the state on the ESP
passed in its exercise (`EspInv`), so that the last phase never passes alone
(`ChainInv`). That a section has a last block needs a least element of a set of
numbers, which `LastOfIsOne` takes from the well-foundedness of `<`.

`VmProofs`, for any number of exercises, failures, kills and power losses. Under
the fixture, `NothingWithoutMarker` and `RestoredWhole`. First the tables: each
of the eight exercises changes only what its recovery undoes, and each recovery
undoes everything, awaits the end of the runtime directory, and then only syncs
before it removes the marker (`FixturesAreRecoverable`). `FixtureInv` then says
that what the steps behind a recovery have put back stays so while it goes on
(`DoneBehind`), that an exercise changes the machine only under a marker that is
on the disk (`WorksUnderMarker`), and that without such a marker nothing is
altered nor half written (`CleanWithoutMarker`).

Of the exercises that clean up after themselves, `VmProofs` shows
`CleanReportHolds` and `OriginalsStayPristine`. The proof asks two things of a
table (`GoodTables`). Whatever a step changes is put back by a row that its flag
makes certain, or is among what the cleanup compares, or is left on purpose
(`AccountsFor`). And every original has a mark, made before it is altered and
removed after it is back, which every exercise of the family asserts to be
absent or leaves alone (`MarksKept`): the `backup` for `shadow`, the generated
files for the launchers, the policy module for the rest. For any tables of that
kind `VmInv` is inductive: while no row has failed, what differs from what was
found is excused or accounted for by the rows to come (`DebtInv`), and an
original is altered under its mark only, until somebody is told (`MarkInv`).
`TablesAreGood` then goes through the eight tables, step by step and row by row.
The backends know no member of `STRING`, so `Names` lists the words of the
tables.

Assumptions on the constants, all evaluated by TLC in the runs:

* the numbers are numbers and the sets contain what they should
  (`NAssumption`, `HasUndoAssumption`, `GateAssumption`, `FormAssumption`,
  `SettingsAssumption`, `BoundAssumption`, `PlannableAssumption`,
  `MetasAssumption`, `ConstantsAssumption`, `ScenariosAssumption`,
  `PlansAssumption`, `ExpectedAssumption`, `FixtureAssumption`);
* a release is its stage and its number, in the list the repository goes
  through (`ReleasesAssumption`, `ReleaseAssumption`);
* what stands for `null`, a missing file or an absent name is not one of the
  values it is told apart from (`NullAssumption`, `NoNameAssumption`,
  `NoneAssumption`, `NothingAssumption`, and `None` in `ConstantsAssumption`).

Only model-checked:

* liveness (`EventuallyReleased`, `CancelBoundsWork`, `RunEnds`,
  `RecoveryEnds`), which is out of the prover's reach. Every safety property and
  every action property of a passing run is a theorem.

## Findings

1. A cancelled run leaves the event stream without the verdict `protocol.rs`
   announces (`engine_cancel_reply`). The wizard never cancels, since it closes
   stdin after the request.
2. A disk or swap change while the summary is being validated makes the request
   differ from the summary the user confirms (`wizard_shown`). The service
   cannot notice: choice and plan agree with each other.
3. A service that dies without a `Failed` event leaves a wizard that offers a
   retry (`wizard_retry`), where the state machine document makes every failure
   after the first write terminal.
4. After a run that died with one disk mounted at the target, a completed run on
   another disk, which mounts over it and unmounts its own mounts, ends with the
   first disk mounted at the target again (`mounts_other_disk`, where the mount
   that is left is the first run's at `/`).
5. `promote` without `--revision` submits what was committed between its gate
   and its second reading of the revisions (`obs_race`). `obs` shows that
   pinning, or a quiet staging project, is enough.
6. The evidence manifest accepts the installer result, as those of the other VM
   gates and the i18n result, of the ISO that was replaced (`image_evidence`):
   these reports name no ISO, or one that is not compared. Only the hardware
   matrix is compared with the ISO, by name and checksum (`image-build.py:606`).
   Since the test machine and its stream outlive a build, dropping the results
   before it is not enough; `image` shows that dropping the machine as well is
   (the mutant of `FreshEvidenceIsOfTheCandidate` drops the results only).

## Not modelled

* **Contents of the target**: what the deployment operations write, the order of
  fstab, initramfs and first snapshot, `ReleaseDisk` on swap areas and volume
  groups, sizes in `PlanBuilder`. These are pure computations or sequential
  commands; their interplay with the kernel is what their tests run. The swap
  and volume group cases of `ReleaseDisk` (`swapoff` of an inactive area,
  `[SWAP]` taken for a mount point) would be the next thing worth a model.
* **Backend process**: the child, its pipes and the evidence file of
  `execute_plan_blocking`, the lock and the polkit policy. Two services at once,
  which a relaunch of the wizard makes possible, are therefore not covered.
* **Command timeouts**: there are none, so a hanging command is outside the
  fairness assumption.
* **Requests made by hand from staging**: the ways around staging are a direct
  commit and a request from another project. A submit request somebody makes by
  hand out of the staging project, with a source that was not built, is what
  `obs_race` shows of `promote` itself.
* **The directory entry of a backup**: `snapshot()` syncs the backup's files and
  its directory, and the entries of backup and marker together with their parent
  at the end. A file system that kept the marker of a power loss before that
  sync, but not the backup made earlier in the same directory, would leave a
  marker no recovery can use; the model makes the backup durable before the marker.
* **Recovery under an exercise at work**: the models assume that an operator does
  not start `fixture_recovery.py` while an exercise is running. The code does not
  prevent it, since the lock is held by `snapshot()` and `recover()` only, and
  the message of `snapshot()` invites it. A
  `pending.json` that a crash left makes every later snapshot fail until it is
  removed by hand; the model has it, no property forbids it.
* **What tests observe**: AVC records, D-Bus answers, policy text (CIL), RPM
  contents, translations and their catalogs.
* **Packaging, image description, smoke tests, upload and workstation scripts,
  the fstab rewriting of `lyra-configure-btrfs-rollback`**: sequential plumbing
  without state that two steps could disagree about.
