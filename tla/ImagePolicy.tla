---------------------------- MODULE ImagePolicy ----------------------------
(***************************************************************************)
(* What may become an image: release.py's release and the files it renders, *)
(* image-build.py's policy and its checks of the KIWI description before an *)
(* export (verify-export, which compares the copy with the tree, is         *)
(* VerifyExport of ImageRelease). People edit release.toml, the policy and  *)
(* the description in any order between the commands; each command is one   *)
(* step.                                                                    *)
(***************************************************************************)
EXTENDS Naturals, Sequences, FiniteSets

CONSTANTS
  AnyRelease,    \* what release.toml may say: [version, stage, iteration]
  Repositories,  \* the entries of a description: [alias, url, repoCheck, packageCheck]
  Expected,      \* the aliases of the policy, one repository each
  Nothing,
  PolicyEdits    \* bound: edits between the first and the last command

ASSUME ExpectedAssumption == IsFiniteSet(Expected)

\* A release is its three parts.
ASSUME ReleaseAssumption ==
  \A r \in AnyRelease : r = [version |-> r.version, stage |-> r.stage, iteration |-> r.iteration]

VARIABLES
  toml,          \* release.toml
  policy,        \* image-build.toml: its artifacts, and whether the rest is the approved one
  fields,        \* the generated fields of config.xml, in the order of the file
  repositories,  \* the repositories of config.xml
  identity,      \* what of the installer's identity is broken
  checked,       \* release and fields of the last release.py check that passed
  exported,      \* the last export: [toml, repositories, policy]
  edits

policyVars == <<toml, policy, fields, repositories, identity, checked, exported, edits>>

-----------------------------------------------------------------------------
(* release.py                                                              *)

Stages == {"alpha", "beta", "rc", "release"}

\* Release.validate, as far as releases differ in it.
Valid(r) ==
  /\ r.stage \in Stages
  /\ r.stage = "release" => r.iteration = 0
  /\ r.stage # "release" => r.iteration >= 1

\* version_id: a final release has no stage and no iteration.
VersionId(r) == IF r.stage = "release" THEN <<r.version>> ELSE <<r.version, r.stage, r.iteration>>

\* The fields of config.xml render_files replaces.
FieldNames == {"specification", "version", "volid"}
Value(name, r) == <<name, VersionId(r)>>
Field == [name : FieldNames, value : {Value(name, r) : name \in FieldNames, r \in AnyRelease}]

\* An error is not a file.
ASSUME NothingAssumption == Nothing \notin Seq(Field)

Occurrences(name, file) == {i \in DOMAIN file : file[i].name = name}

\* Mutant: the first match is replaced, whether or not there are more.
ReplaceFirst(file, name, value) ==
  IF Occurrences(name, file) = {} THEN Nothing
  ELSE [file EXCEPT ![CHOOSE i \in Occurrences(name, file) :
                        \A j \in Occurrences(name, file) : i <= j].value = value]

\* replace_once: exactly one match, or an error.
ReplaceOnce(file, name, value) ==
  IF Cardinality(Occurrences(name, file)) # 1 THEN Nothing
  ELSE [i \in DOMAIN file |-> IF file[i].name = name THEN [file[i] EXCEPT !.value = value] ELSE file[i]]

\* render_files of config.xml; Nothing when a field is missing or there twice.
RenderedFields(file, r) ==
  LET one == ReplaceOnce(file, "specification", Value("specification", r))
      two == IF one = Nothing THEN Nothing ELSE ReplaceOnce(one, "version", Value("version", r))
  IN  IF two = Nothing THEN Nothing ELSE ReplaceOnce(two, "volid", Value("volid", r))

RenderDescription ==
  /\ Valid(toml)
  /\ RenderedFields(fields, toml) # Nothing
  /\ fields' = RenderedFields(fields, toml)
  /\ UNCHANGED <<toml, policy, repositories, identity, checked, exported, edits>>

CheckDescription ==
  /\ Valid(toml)
  /\ RenderedFields(fields, toml) = fields
  /\ checked' = [toml |-> toml, fields |-> fields]
  /\ UNCHANGED <<toml, policy, fields, repositories, identity, exported, edits>>

-----------------------------------------------------------------------------
(* image-build.py                                                          *)

\* Manifest.validate: nothing but the two artifact lists is left to choose.
ValidPolicy == policy.approved /\ policy.artifacts \in {"without signature", "with signature"}

\* required_artifact_roles
SignatureRequired(r) == r.stage # "alpha"

\* validate_installer_identity and the files that must be there.
IdentityFacts == {"application id", "launcher", "icons", "keyring", "tools"}
IdentityHolds == identity = {}

Secure(repository) == repository.url = "https" /\ repository.repoCheck /\ repository.packageCheck

\* The loop over the repositories in validate_sources.
Approved(list) ==
  /\ Len(list) = Cardinality(Expected)
  /\ \A i, j \in DOMAIN list : list[i].alias = list[j].alias => i = j
  /\ \A i \in DOMAIN list : Secure(list[i])
  /\ {list[i].alias : i \in DOMAIN list} = Expected

\* version of the first preferences block that has one.
FirstVersion(file) ==
  IF Occurrences("version", file) = {} THEN Nothing
  ELSE file[CHOOSE i \in Occurrences("version", file) :
              \A j \in Occurrences("version", file) : i <= j].value

\* Manifest.load and validate_sources
Acceptable ==
  /\ ValidPolicy
  /\ SignatureRequired(toml) => policy.artifacts = "with signature"
  /\ IdentityHolds
  /\ FirstVersion(fields) = Value("version", toml)
  /\ Approved(repositories)

ExportApproved ==
  /\ Acceptable
  /\ exported' = [toml |-> toml, policy |-> policy, repositories |-> repositories]
  /\ UNCHANGED <<toml, policy, fields, repositories, identity, checked, edits>>

-----------------------------------------------------------------------------
(* People.                                                                 *)

Edit == edits < PolicyEdits /\ edits' = edits + 1

EditToml ==
  /\ Edit
  /\ \E r \in AnyRelease : toml' = r
  /\ UNCHANGED <<policy, fields, repositories, identity, checked, exported>>

EditPolicy ==
  /\ Edit
  /\ \E approved \in BOOLEAN, artifacts \in {"without signature", "with signature", "incomplete"} :
       policy' = [approved |-> approved, artifacts |-> artifacts]
  /\ UNCHANGED <<toml, fields, repositories, identity, checked, exported>>

\* A merge repeats a field or drops one; somebody types a version by hand.
EditFields ==
  /\ Edit
  /\ \/ \E i \in DOMAIN fields :
          \/ fields' = Append(fields, fields[i])
          \/ \E r \in AnyRelease : fields' = [fields EXCEPT ![i].value = Value(fields[i].name, r)]
     \/ fields' = SubSeq(fields, 2, Len(fields))
  /\ UNCHANGED <<toml, policy, repositories, identity, checked, exported>>

EditRepositories ==
  /\ Edit
  /\ \E repository \in Repositories :
       \/ repositories' = Append(repositories, repository)
       \/ \E i \in DOMAIN repositories : repositories' = [repositories EXCEPT ![i] = repository]
       \/ repositories' = SubSeq(repositories, 2, Len(repositories))
  /\ UNCHANGED <<toml, policy, fields, identity, checked, exported>>

BreakIdentity ==
  /\ Edit
  /\ \E fact \in IdentityFacts : identity' = identity \cup {fact}
  /\ UNCHANGED <<toml, policy, fields, repositories, checked, exported>>

PolicyInit ==
  /\ toml \in {r \in AnyRelease : Valid(r)}
  /\ policy = [approved |-> TRUE, artifacts |-> "without signature"]
  /\ fields = <<[name |-> "specification", value |-> Value("specification", toml)],
                [name |-> "version", value |-> Value("version", toml)],
                [name |-> "volid", value |-> Value("volid", toml)]>>
  /\ \E list \in [1 .. Cardinality(Expected) -> Repositories] : Approved(list) /\ repositories = list
  /\ identity = {}
  /\ checked = Nothing
  /\ exported = Nothing
  /\ edits = 0

Edits == EditToml \/ EditPolicy \/ EditFields \/ EditRepositories \/ BreakIdentity

Commands == RenderDescription \/ CheckDescription \/ ExportApproved

-----------------------------------------------------------------------------
PolicyTypeOK ==
  /\ toml \in AnyRelease
  /\ \A i \in DOMAIN repositories : repositories[i] \in Repositories
  /\ \A i \in DOMAIN fields : fields[i].name \in FieldNames
  /\ edits \in 0 .. PolicyEdits

\* After a check that passed every generated field is in config.xml once and says
\* what the release says: a second, stale one a merge left there is an error
\* (the comment in replace_once, release.py:167-170), however often it was
\* rendered before.
CheckedNamesOneRelease ==
  checked # Nothing =>
    \A name \in FieldNames :
      /\ Cardinality(Occurrences(name, checked.fields)) = 1
      /\ \A i \in Occurrences(name, checked.fields) :
           checked.fields[i].value = Value(name, checked.toml)

\* Two releases that passed check and export at any two moments and have the same
\* version are the same release: no ISO, tag or checksum name is used for two
\* (version_id, iso_filename).
VersionsAreDistinct ==
  checked # Nothing =>
    (Valid(toml) /\ VersionId(toml) = VersionId(checked.toml) => toml = checked.toml)

\* The sources that are exported list the signature the evidence of that release
\* will ask for (required_artifact_roles: "source validation and final evidence
\* cannot disagree about the bundle"), whatever was edited since the last export.
SourcesAndEvidenceAgree ==
  exported # Nothing =>
    (SignatureRequired(exported.toml) => exported.policy.artifacts = "with signature")

\* An export has every repository of the policy exactly once, over
\* HTTPS, not from staging and with both signature checks, although the loop
\* never compares names and entries one to one.
ExportedRepositoriesAreApproved ==
  exported # Nothing =>
    \A alias \in Expected :
      \E i \in DOMAIN exported.repositories :
        /\ exported.repositories[i].alias = alias
        /\ Secure(exported.repositories[i])
        /\ \A j \in DOMAIN exported.repositories : exported.repositories[j].alias = alias => i = j

\* What passes the checks is a release of this policy.
PolicyIsSound ==
  /\ CheckedNamesOneRelease
  /\ VersionsAreDistinct
  /\ SourcesAndEvidenceAgree
  /\ ExportedRepositoriesAreApproved
=============================================================================
