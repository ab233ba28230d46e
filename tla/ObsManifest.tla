---------------------------- MODULE ObsManifest ----------------------------
(***************************************************************************)
(* The local half of scripts/obs-release.py: what Manifest.validate,        *)
(* check_project_meta and check_disabled_flag accept of the reviewed        *)
(* manifest and of the metadata of a project and a package on the build     *)
(* service.  One state per input; the single step is the whole check.       *)
(***************************************************************************)
EXTENDS Naturals, Sequences, FiniteSets, FiniteSetsExt, SequencesExt

CONSTANTS
  Architectures,
  NoName,       \* an attribute a rule does not carry
  Metas,        \* the metadata to check: a set of records
  Manifests     \* the manifest entries to check: a set of records

ASSUME NoNameAssumption == NoName \notin Architectures \cup {"leap", "retained"}

VARIABLES input, verdict

gateVars == <<input, verdict>>

-----------------------------------------------------------------------------
(* Manifest entries: the four package lists, the two remote projects and    *)
(* the targets.  A list of the TOML file is a sequence, which may repeat.   *)

Repeats(list) == Cardinality(ToSet(list)) # Len(list)

\* The only base openSUSE publishes for: name, project and repository agree.
IsLeap(target) == target.name = "leap"

TargetOk(target) ==
  /\ target.enabled => IsLeap(target)
  /\ target.iso => target.enabled

\* Mutant: candidates are compared with the active packages of nobody.
ListsOkNoOverlap(p) ==
  /\ p.packages # << >>
  /\ \A list \in {p.packages, p.legacy, p.retired, p.candidates} : ~Repeats(list)
  /\ ToSet(p.packages) \cap ToSet(p.legacy) = {}
  /\ ToSet(p.retired) \cap (ToSet(p.packages) \cup ToSet(p.legacy)) = {}

ListsOk(p) ==
  /\ p.packages # << >>
  /\ \A list \in {p.packages, p.legacy, p.retired, p.candidates} : ~Repeats(list)
  /\ ToSet(p.packages) \cap ToSet(p.legacy) = {}
  /\ ToSet(p.retired) \cap (ToSet(p.packages) \cup ToSet(p.legacy)) = {}
  /\ ToSet(p.candidates)
       \cap (ToSet(p.packages) \cup ToSet(p.legacy) \cup ToSet(p.retired)) = {}

\* Mutant: a disabled target may be the one the ISO is made of.
TargetsOkAnyIso(p) ==
  /\ p.targets # << >>
  /\ \A i \in DOMAIN p.targets : p.targets[i].enabled => IsLeap(p.targets[i])
  /\ \E i \in DOMAIN p.targets : p.targets[i].enabled
  /\ p.iso => \E i \in DOMAIN p.targets : p.targets[i].iso

TargetsOk(p) ==
  /\ p.targets # << >>
  /\ \A i \in DOMAIN p.targets : TargetOk(p.targets[i])
  /\ \E i \in DOMAIN p.targets : p.targets[i].enabled
  /\ p.iso => \E i \in DOMAIN p.targets : p.targets[i].iso

ManifestOk(p) ==
  /\ p.release # p.staging
  /\ ListsOk(p)
  /\ TargetsOk(p)

ActiveSourcePackages(p, remote) ==
  ToSet(p.packages) \cup (IF remote = p.staging THEN ToSet(p.candidates) ELSE {})

ExpectedSourcePackages(p, remote) ==
  ActiveSourcePackages(p, remote)
    \cup (IF remote = p.release THEN ToSet(p.legacy)
          ELSE IF remote = p.staging THEN ToSet(p.retired) ELSE {})

\* promote and rollback: only what the project owns.
MayPromote(p, package) == package \in ToSet(p.packages)

-----------------------------------------------------------------------------
(* A flag ("build" or "publish") is a list of rules, in the project's       *)
(* metadata and again in each package's.  Only their set matters.           *)

Rule == [tag : {"enable", "disable"}, repository : {"leap", "retained", NoName},
         arch : Architectures \cup {NoName}]

ASSUME MetasAssumption == \A m \in Metas : m.project \subseteq Rule /\ m.package \subseteq Rule

DisableWhole == [tag |-> "disable", repository |-> "retained", arch |-> NoName]

Enables(rules) ==
  {r \in rules : r.tag = "enable" /\ r.repository \in {NoName, "retained"}}

\* Mutant: the rule for one architecture is overlooked.
FlagOkAnyArch(rules, required) ==
  /\ \A r \in Enables(rules) :
       /\ r.repository # "retained"
       /\ DisableWhole \in rules
  /\ required => DisableWhole \in rules

\* check_disabled_flag for the target "retained": no rule may enable it, or
\* part of it, except a global one that the disabling of it outranks.
FlagOk(rules, required) ==
  /\ \A r \in Enables(rules) :
       /\ r.repository # "retained"
       /\ r.arch = NoName
       /\ DisableWhole \in rules
  /\ required => DisableWhole \in rules

\* check_project_meta for a target that is not enabled, and then
\* check_disabled_package_overrides for one package.
MetaOk(m) == FlagOk(m.project, TRUE) /\ FlagOk(m.package, FALSE)

(* How the build service reads the rules: the most specific rule for the    *)
(* repository and architecture decides; without one the surrounding level   *)
(* does.  Which of two equally specific ones wins is left open.             *)

Applies(r, repository, arch) ==
  /\ r.repository \in {NoName, repository}
  /\ r.arch \in {NoName, arch}

Specificity(r) == (IF r.repository = NoName THEN 0 ELSE 1)
                    + (IF r.arch = NoName THEN 0 ELSE 1)

MayEnable(rules, repository, arch, default) ==
  LET matching == {r \in rules : Applies(r, repository, arch)}
  IN  IF matching = {} THEN default
      ELSE \E r \in matching :
             /\ r.tag = "enable"
             /\ \A s \in matching : s.tag = "disable" => Specificity(s) <= Specificity(r)

\* Could this package be built or published there?  The default is yes.
MayPublish(m, repository, arch) ==
  MayEnable(m.package, repository, arch,
            MayEnable(m.project, repository, arch, TRUE))

-----------------------------------------------------------------------------
GateInit ==
  /\ \/ \E p \in Manifests : input = [kind |-> "manifest", value |-> p]
     \/ \E m \in Metas : input = [kind |-> "meta", value |-> m]
  /\ verdict = "pending"

Validate ==
  /\ verdict = "pending"
  /\ input.kind = "manifest"
  /\ verdict' = IF ManifestOk(input.value) THEN "accepted" ELSE "refused"
  /\ UNCHANGED input

CheckMeta ==
  /\ verdict = "pending"
  /\ input.kind = "meta"
  /\ verdict' = IF MetaOk(input.value) THEN "accepted" ELSE "refused"
  /\ UNCHANGED input

GateNext == Validate \/ CheckMeta

GateSpec == GateInit /\ [][GateNext]_gateVars

-----------------------------------------------------------------------------
Accepted(kind) == verdict = "accepted" /\ input.kind = kind

\* The ISO is never made from a target the build service does not build, nor
\* from one that is not Leap 16.1 (Manifest.validate, targets).
IsoHasLiveTarget ==
  Accepted("manifest") /\ input.value.iso
    => \E i \in DOMAIN input.value.targets :
         LET t == input.value.targets[i] IN t.iso /\ t.enabled /\ IsLeap(t)

\* A package that only staging carries, a candidate or a retired one, is never
\* expected in release and cannot be promoted there; a retired one is not
\* built, so the gate does not wait for it (the four lists of a project).
StagingOnlyStaysThere ==
  Accepted("manifest") =>
    LET p == input.value IN
    \A x \in ToSet(p.candidates) \cup ToSet(p.retired) :
      /\ x \notin ExpectedSourcePackages(p, p.release)
      /\ ~MayPromote(p, x)
      /\ x \in ToSet(p.retired) => x \notin ActiveSourcePackages(p, p.staging)

\* When the metadata of project and package pass the gate, the build service
\* neither builds nor publishes the retained target for any architecture,
\* whichever of two equally specific rules it prefers (check_disabled_flag).
DisabledStaysDisabled ==
  Accepted("meta") =>
    \A arch \in Architectures : ~MayPublish(input.value, "retained", arch)
=============================================================================
