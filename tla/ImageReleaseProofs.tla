-------------------------- MODULE ImageReleaseProofs --------------------------
(***************************************************************************)
(* The release of an image, proved for every list of releases and every     *)
(* scenario: an evidence manifest names one ISO, the commit it was built    *)
(* from, its packages, reviews and results, and a verified export is its    *)
(* commit, although commands stop between any two steps and, unless the     *)
(* scenario says otherwise, others change the tree meanwhile.               *)
(*                                                                         *)
(* First what a step of a command is: the steps a command has left are the  *)
(* last of its list, in order, so that what is done and what is pending     *)
(* follows from the step alone (BuildOrder, FinishOrder, ExportOrder). Then *)
(* what every step writes (Makes), and which steps there are (Acts). Then   *)
(* the parts of the invariant, one lemma for each.                          *)
(***************************************************************************)
EXTENDS ImageRelease, FiniteSetTheorems, SequenceTheorems, TLAPS

-----------------------------------------------------------------------------
(* Commands and the steps they have left.                                  *)

\* The order in which steps follow one another in every command.
Rank(step) ==
  CASE step = "check" -> 1 [] step = "validate" -> 2 [] step = "clean" -> 3 [] step = "health" -> 4
    [] step = "source" -> 5 [] step = "stage" -> 6 [] step = "kiwi" -> 7 [] step = "inspect" -> 8
    [] step = "archive-iso" -> 9 [] step = "archive-manifest" -> 10 [] step = "place" -> 11
    [] step = "status" -> 12 [] step = "record" -> 13
    [] step = "candidate" -> 14 [] step = "install" -> 15 [] step = "checksum" -> 16
    [] step = "cyclonedx_sbom" -> 17 [] step = "spdx_sbom" -> 18 [] step = "report" -> 19
    [] step = "sign" -> 20 [] step = "evidence" -> 21
    [] step = "identity" -> 22 [] step = "describe" -> 23 [] step = "overlay" -> 24
    [] OTHER -> 0

ReleaseSteps ==
  {"check", "validate", "clean", "health", "candidate", "install", "checksum", "cyclonedx_sbom",
   "spdx_sbom", "report", "sign", "evidence"}
BuildSteps ==
  {"source", "stage", "kiwi", "inspect", "archive-iso", "archive-manifest", "place", "status", "record"}

StepsOf(name) ==
  CASE name = "export" -> {"validate", "identity", "describe", "overlay"}
    [] name = "build" -> ReleaseSteps \cup BuildSteps
    [] name = "artifacts" -> ReleaseSteps
    [] OTHER -> {}

InOrder(steps) == \A i, j \in DOMAIN steps : i < j => Rank(steps[i]) < Rank(steps[j])

Pending == {cmd.steps[i] : i \in DOMAIN cmd.steps}

FileSets == [ImageFiles -> Nat] \cup [Described -> Nat] \cup (SUBSET DOMAIN Releases) \cup {<< >>}

Rendering == [name : {"render"}, release : Nat, steps : Seq(Rendered)]
Working(name) ==
  [name : {name}, steps : Seq(StepsOf(name)), release : Nat, commit : Nat, dirty : BOOLEAN,
   build : Nat, files : FileSets]

\* The steps that are left are the last ones, in their order; only the evidence
\* may not be wanted.
Tidy == /\ InOrder(cmd.steps)
        /\ \A s \in Pending : \A t \in StepsOf(cmd.name) \ {"evidence"} :
             Rank(s) < Rank(t) => t \in Pending

AtWork(name) == cmd \in Working(name) /\ cmd.steps # << >> /\ Tidy

CmdTyping ==
  \/ cmd = Idle
  \/ cmd \in Rendering /\ cmd.steps # << >>
  \/ AtWork("export") \/ AtWork("build") \/ AtWork("artifacts")

\* What a command has done.
Exporting(step) == cmd.name = "export" /\ step \notin Pending
Building(step) == cmd.name = "build" /\ step \notin Pending
Releasing(step) == cmd.name \in {"build", "artifacts"} /\ step \notin Pending

-----------------------------------------------------------------------------
Version == {t \in [Files -> Nat] : t["release.toml"] \in DOMAIN Releases}
Image == [files : [ImageFiles -> Nat], commit : Nat, shipped : [DOMAIN scenario.inventory -> 0 .. 2]]
Review == [version : 0 .. 2, passed : BOOLEAN]

DataTyping ==
  /\ scenario \in Scenario
  /\ tree \in Version
  /\ commits \in Seq(Version) /\ commits # << >>
  /\ images \in Seq(Image)
  /\ work \in 0 .. Len(images)
  /\ dir \in [Roles -> [DOMAIN Releases -> Description \cup {None}]]
  /\ reviews \in [DOMAIN scenario.inventory -> SUBSET Review]
  /\ DOMAIN results = ResultNames

\* An ISO and a packages list are those of a build.
DirTyping ==
  \A r \in DOMAIN Releases :
    /\ dir["iso"][r] # None => dir["iso"][r].iso \in DOMAIN images
    /\ dir["packages"][r] # None => dir["packages"][r].packages \in DOMAIN images

CmdValues ==
  /\ Exporting("validate") \/ Releasing("validate") => cmd.release \in DOMAIN Releases
  /\ Exporting("describe") => cmd.files \in [Described -> Nat]
  /\ Building("source") => cmd.build \in DOMAIN Releases
  /\ Building("stage") /\ "kiwi" \in Pending => cmd.files \in [ImageFiles -> Nat]
  /\ Building("archive-iso") /\ "archive-manifest" \in Pending => cmd.files \subseteq DOMAIN Releases
  /\ Building("kiwi") => work # 0
  /\ Building("place") => dir["iso"][cmd.build] # None /\ dir["iso"][cmd.build].iso = work

\* One ISO at most is in the directory.
IsoInv ==
  /\ \A r, s \in DOMAIN Releases : dir["iso"][r] # None /\ dir["iso"][s] # None => r = s
  /\ Building("archive-iso") /\ "place" \in Pending => \A r \in DOMAIN Releases : dir["iso"][r] = None

\* What the command wrote is what is there.
FilesInv ==
  LET r == cmd.release IN
  /\ Releasing("candidate") =>
       /\ work # 0 /\ dir["iso"][r] # None /\ dir["manifest"][r] # None
       /\ dir["manifest"][r].commit = cmd.commit
  /\ Releasing("install") => dir["packages"][r] = Describes(0, work, 0, FALSE)
  /\ Releasing("checksum") => dir["checksum"][r] = Describes(dir["iso"][r].iso, 0, 0, FALSE)
  /\ \A sbom \in {"cyclonedx_sbom", "spdx_sbom"} :
       Releasing(sbom) => dir[sbom][r] = Describes(0, work, cmd.commit, FALSE)
  /\ Releasing("report") => dir["report"][r] = Describes(dir["iso"][r].iso, work, cmd.commit, FALSE)
  /\ Releasing("sign") /\ Releases[r].stage # "alpha" => dir["checksum_signature"][r] = dir["checksum"][r]

\* Nobody else changes the tree while a command runs.
Quiet == "quiet" \in scenario.careful
ImageOf(t) == [f \in ImageFiles |-> t[f]]

QuietInv ==
  Quiet =>
    /\ Exporting("identity") => cmd.commit \in DOMAIN commits /\ (~cmd.dirty => tree = commits[cmd.commit])
    /\ Exporting("describe") => cmd.files = [f \in Described |-> tree[f]]
    /\ Exporting("validate") \/ Releasing("validate") => cmd.release = Toml
    /\ Releasing("clean") => tree = commits[Head_]
    /\ Building("source") => Toml = cmd.build /\ \A f \in Rendered : tree[f] = cmd.build
    /\ Building("stage") /\ "kiwi" \in Pending => cmd.files = ImageOf(tree)
    /\ Building("kiwi") => images[work].files = ImageOf(tree)

\* A clean export is the commit it names; what is verified is clean.
ExportInv ==
  Quiet /\ export # None =>
    /\ DOMAIN export = {"commit", "dirty", "verified", "files"}
    /\ export.commit \in DOMAIN commits
    /\ ~export.dirty => export.files = ImageOf(commits[export.commit])
    /\ export.verified => ~export.dirty

\* The ISO of number i was built from commit c, which is release r.
BuiltFrom(built, committed, i, c, r) ==
  /\ i \in DOMAIN built /\ c \in DOMAIN committed
  /\ built[i].files = ImageOf(committed[c])
  /\ \A f \in Rendered : committed[c][f] = r

ManifestInv ==
  Quiet =>
    /\ \A r \in DOMAIN Releases :
         dir["manifest"][r] # None /\ ~dir["manifest"][r].dirty =>
           BuiltFrom(images, commits, dir["manifest"][r].iso, dir["manifest"][r].commit, r)
    /\ bundle # None => BuiltFrom(images, commits, bundle.iso, bundle.commit, bundle.release)

\* While a build runs there are neither results nor a test machine; else the
\* machine is of the ISO there is, and so are the results, as soon as a manifest
\* names it.
Gated == ResultNames \ {"obs-repositories"}
FreshInv ==
  "fresh" \in scenario.careful =>
    /\ cmd.name = "build" => guest = 0 /\ \A t \in Gated : results[t] = None
    /\ \A r \in DOMAIN Releases : guest # 0 /\ dir["iso"][r] # None => guest = dir["iso"][r].iso
    /\ \A t \in Gated, r \in DOMAIN Releases :
         results[t] # None /\ dir["iso"][r] # None /\ dir["manifest"][r] # None
           /\ dir["manifest"][r].iso = dir["iso"][r].iso =>
         results[t].iso = dir["iso"][r].iso

Orderly == {"script", "sound", "quiet", "fresh"} \subseteq scenario.careful

\* KIWI's packages list is the one of the ISO, unless a build is between the
\* two; so are the packages of the release, and the localization result.
ShipInv ==
  Orderly =>
    /\ work # 0 /\ ~(Building("kiwi") /\ "place" \in Pending) =>
         \A r \in DOMAIN Releases : dir["iso"][r] # None => dir["iso"][r].iso = work
    /\ ~(Building("kiwi") /\ "install" \in Pending) =>
         \A r \in DOMAIN Releases :
           dir["iso"][r] # None =>
             dir["packages"][r] # None /\ dir["packages"][r].packages = dir["iso"][r].iso
    /\ results["i18n"] # None =>
         \A r \in DOMAIN Releases :
           dir["iso"][r] # None => results["i18n"].shipped = images[dir["iso"][r].iso].shipped
    /\ Building("status") => ~cmd.dirty
    /\ Building("record") => /\ dir["manifest"][cmd.build] # None /\ ~dir["manifest"][cmd.build].dirty
                             /\ dir["manifest"][cmd.build].commit = Head_

\* A localization result was written with the reviews it needs.
ReviewInv ==
  results["i18n"] # None =>
    /\ results["i18n"].shipped \in [DOMAIN scenario.inventory -> 0 .. 2]
    /\ \A p \in DOMAIN scenario.inventory :
         scenario.inventory[p] = "scheduled" /\ results["i18n"].shipped[p] # 0 =>
           [version |-> results["i18n"].shipped[p], passed |-> TRUE] \in reviews[p]

\* What the evidence manifest takes over.
BundleInv ==
  /\ RolesAgree
  /\ bundle # None => bundle.iso \in DOMAIN images
  /\ PackagesShip
  /\ ScheduledPackagesWereReviewed
  /\ FreshEvidenceIsOfTheCandidate

Inv == /\ CmdTyping /\ DataTyping /\ DirTyping /\ CmdValues /\ IsoInv /\ FilesInv /\ QuietInv /\ ExportInv
       /\ ManifestInv /\ FreshInv /\ ShipInv /\ ReviewInv /\ BundleInv
-----------------------------------------------------------------------------
\* Ranks can be compared.
LEMMA RankIsNat == \A s : Rank(s) \in Nat
  BY DEF Rank

\* The ranks of the steps.
LEMMA Ranks ==
  /\ Rank("check") = 1 /\ Rank("validate") = 2 /\ Rank("clean") = 3 /\ Rank("health") = 4
  /\ Rank("source") = 5 /\ Rank("stage") = 6 /\ Rank("kiwi") = 7 /\ Rank("inspect") = 8
  /\ Rank("archive-iso") = 9 /\ Rank("archive-manifest") = 10 /\ Rank("place") = 11
  /\ Rank("status") = 12 /\ Rank("record") = 13
  /\ Rank("candidate") = 14 /\ Rank("install") = 15 /\ Rank("checksum") = 16
  /\ Rank("cyclonedx_sbom") = 17 /\ Rank("spdx_sbom") = 18 /\ Rank("report") = 19
  /\ Rank("sign") = 20 /\ Rank("evidence") = 21
  /\ Rank("identity") = 22 /\ Rank("describe") = 23 /\ Rank("overlay") = 24
  BY DEF Rank

\* The steps of the commands.
LEMMA StepsAre ==
  /\ StepsOf("export") = {"validate", "identity", "describe", "overlay"}
  /\ StepsOf("build") = ReleaseSteps \cup BuildSteps
  /\ StepsOf("artifacts") = ReleaseSteps
  BY DEF StepsOf

\* The first step and the rest of a list.
LEMMA TailProperties ==
  ASSUME NEW S, NEW s \in Seq(S), s # << >>
  PROVE  /\ Tail(s) \in Seq(S)
         /\ Len(Tail(s)) = Len(s) - 1
         /\ DOMAIN Tail(s) = 1 .. (Len(s) - 1)
         /\ DOMAIN s = 1 .. Len(s) /\ Len(s) \in Nat /\ Len(s) # 0 /\ 1 \in DOMAIN s
         /\ Head(s) = s[1] /\ Head(s) \in S
         /\ \A i \in 1 .. (Len(s) - 1) : i + 1 \in DOMAIN s /\ Tail(s)[i] = s[i + 1]
         /\ \A j \in DOMAIN s : j = 1 \/ (j - 1 \in 1 .. (Len(s) - 1) /\ Tail(s)[j - 1] = s[j])
  <1>1. /\ Tail(s) \in Seq(S) /\ Len(Tail(s)) = Len(s) - 1
        /\ \A i \in 1 .. (Len(s) - 1) : Tail(s)[i] = s[i + 1]
    BY HeadTailProperties
  <1>2. /\ DOMAIN s = 1 .. Len(s) /\ Len(s) \in Nat /\ Len(s) # 0
        /\ DOMAIN Tail(s) = 1 .. (Len(s) - 1)
        /\ Head(s) = s[1] /\ Head(s) \in S
    BY <1>1
  <1>3. \A j \in DOMAIN s : j = 1 \/ (j - 1 \in 1 .. (Len(s) - 1) /\ Tail(s)[j - 1] = s[j])
    BY <1>1, <1>2
  <1>4. QED BY <1>1, <1>2, <1>3

\* The head of a list in order is its least step, and the rest are the others.
LEMMA HeadOfSteps ==
  ASSUME NEW S, NEW steps \in Seq(S), steps # << >>, InOrder(steps)
  PROVE  /\ Head(steps) \in {steps[i] : i \in DOMAIN steps}
         /\ \A s \in {steps[i] : i \in DOMAIN steps} :
              s = Head(steps) \/ Rank(Head(steps)) < Rank(s)
         /\ {Tail(steps)[i] : i \in DOMAIN Tail(steps)}
              = {steps[i] : i \in DOMAIN steps} \ {Head(steps)}
         /\ InOrder(Tail(steps)) /\ Tail(steps) \in Seq(S)
         /\ Len(steps) = 1 => {steps[i] : i \in DOMAIN steps} = {Head(steps)}
         /\ Len(steps) # 1 => Tail(steps) # << >>
  <1>1. /\ Tail(steps) \in Seq(S) /\ Len(Tail(steps)) = Len(steps) - 1
        /\ DOMAIN Tail(steps) = 1 .. (Len(steps) - 1)
        /\ DOMAIN steps = 1 .. Len(steps) /\ Len(steps) \in Nat /\ Len(steps) # 0 /\ 1 \in DOMAIN steps
        /\ Head(steps) = steps[1]
        /\ \A i \in 1 .. (Len(steps) - 1) : i + 1 \in DOMAIN steps /\ Tail(steps)[i] = steps[i + 1]
        /\ \A j \in DOMAIN steps : j = 1 \/ (j - 1 \in 1 .. (Len(steps) - 1) /\ Tail(steps)[j - 1] = steps[j])
    BY TailProperties
  <1>2. \A j \in DOMAIN steps : j = 1 \/ Rank(steps[1]) < Rank(steps[j])
    BY <1>1 DEF InOrder
  <1>3. \A j \in DOMAIN steps : j = 1 \/ steps[1] # steps[j]
    BY <1>2, RankIsNat
  <1>4. InOrder(Tail(steps)) BY <1>1 DEF InOrder
  <1>5. {Tail(steps)[i] : i \in DOMAIN Tail(steps)} = {steps[i] : i \in DOMAIN steps} \ {Head(steps)}
    BY <1>1, <1>3
  <1>6. Len(steps) = 1 => {steps[i] : i \in DOMAIN steps} = {Head(steps)} BY <1>1
  <1>7. Len(steps) # 1 => Tail(steps) # << >> BY <1>1
  <1>8. \A s \in {steps[i] : i \in DOMAIN steps} : s = Head(steps) \/ Rank(Head(steps)) < Rank(s)
    BY <1>1, <1>2
  <1>9. Head(steps) \in {steps[i] : i \in DOMAIN steps} BY <1>1
  <1>10. QED BY <1>1, <1>4, <1>5, <1>6, <1>7, <1>8, <1>9

\* What a running command looks like when it is about to make a step.
LEMMA AtFacts ==
  ASSUME CmdTyping, NEW step, At(step), step \notin Rendered
  PROVE  /\ \/ AtWork("export") /\ step \in StepsOf("export")
            \/ AtWork("build") /\ step \in StepsOf("build")
            \/ AtWork("artifacts") /\ step \in StepsOf("artifacts")
         /\ step \in Pending /\ Head(cmd.steps) = step
         /\ \A s \in Pending : s = step \/ Rank(step) < Rank(s)
  <1>1. cmd # Idle /\ Head(cmd.steps) = step BY DEF At, Busy
  <1>2. ~(cmd \in Rendering /\ cmd.steps # << >>)
    BY <1>1, TailProperties DEF Rendering
  <1>3. AtWork("export") \/ AtWork("build") \/ AtWork("artifacts")
    BY <1>1, <1>2 DEF CmdTyping
  <1>4. ASSUME NEW name, AtWork(name)
        PROVE  /\ step \in StepsOf(name) /\ step \in Pending
               /\ \A s \in Pending : s = step \/ Rank(step) < Rank(s)
    <2>1. cmd.steps \in Seq(StepsOf(name)) /\ cmd.steps # << >> /\ InOrder(cmd.steps)
      BY <1>4 DEF AtWork, Working, Tidy
    <2>2. Head(cmd.steps) \in StepsOf(name) BY <2>1, TailProperties
    <2>3. QED BY <1>1, <2>1, <2>2, HeadOfSteps DEF Pending
  <1>5. QED BY <1>1, <1>3, <1>4

\* The command has made a step and goes on, with something to remember.
Advanced(step, with) ==
  /\ cmd'.name = cmd.name /\ cmd'.release = with.release /\ cmd'.commit = with.commit
  /\ cmd'.dirty = with.dirty /\ cmd'.build = with.build /\ cmd'.files = with.files
  /\ Pending' = Pending \ {step}
  /\ cmd' # Idle

\* Proceed goes on with the next step, or ends after the last.
LEMMA Proceeds ==
  ASSUME NEW name, AtWork(name), NEW step, Head(cmd.steps) = step,
         NEW with \in Working(name), with.steps = cmd.steps, Proceed(with), name # "idle"
  PROVE  \/ cmd' = Idle /\ Pending = {step}
         \/ Advanced(step, with) /\ AtWork(name)'
  <1>1. cmd \in Working(name) /\ cmd.steps \in Seq(StepsOf(name)) /\ cmd.steps # << >> /\ Tidy
    BY DEF AtWork, Working
  <1>2. CASE Len(cmd.steps) = 1
    <2>1. Pending = {step} BY <1>1, <1>2, HeadOfSteps DEF Pending, Tidy
    <2>2. QED BY <1>2, <2>1 DEF Proceed
  <1>3. CASE Len(cmd.steps) # 1
    <2>1. cmd' = [with EXCEPT !.steps = Tail(with.steps)] BY <1>3 DEF Proceed
    <2>2. Tail(cmd.steps) \in Seq(StepsOf(name)) /\ Tail(cmd.steps) # << >> /\ InOrder(Tail(cmd.steps))
      BY <1>1, <1>3, HeadOfSteps DEF Tidy
    <2>3. cmd' \in Working(name) /\ cmd'.steps = Tail(cmd.steps)
      BY <2>1, <2>2 DEF Working
    <2>4. /\ cmd'.name = name /\ cmd.name = name /\ cmd'.release = with.release /\ cmd'.commit = with.commit
          /\ cmd'.dirty = with.dirty /\ cmd'.build = with.build /\ cmd'.files = with.files
      BY <2>1, <1>1 DEF Working
    <2>5. Pending' = Pending \ {step}
      <3>1. {Tail(cmd.steps)[i] : i \in DOMAIN Tail(cmd.steps)}
              = {cmd.steps[i] : i \in DOMAIN cmd.steps} \ {Head(cmd.steps)}
        BY <1>1, HeadOfSteps DEF Tidy
      <3>2. QED BY <2>3, <3>1 DEF Pending
    <2>6. cmd' # Idle BY <2>4 DEF Idle
    <2>7. ASSUME NEW s \in Pending', NEW t \in StepsOf(name) \ {"evidence"}, Rank(s) < Rank(t)
          PROVE  t \in Pending'
      <3>1. s \in Pending /\ s # step BY <2>5, <2>7
      <3>2. t \in Pending BY <1>1, <2>4, <2>7, <3>1 DEF Tidy
      <3>3. Rank(step) < Rank(s) BY <1>1, <3>1, HeadOfSteps DEF Pending, Tidy
      <3>4. t # step BY <2>7, <3>3, RankIsNat
      <3>5. QED BY <2>5, <3>2, <3>4
    <2>8. Tidy' BY <2>2, <2>3, <2>4, <2>7 DEF Tidy
    <2>9. QED BY <2>2, <2>3, <2>4, <2>5, <2>6, <2>8 DEF AtWork, Advanced
  <1>4. QED BY <1>2, <1>3

-----------------------------------------------------------------------------
(* The lists the commands start with.                                      *)

\* A list of steps in order, between two ranks, made of some steps.
Listed(steps, S, low, high) ==
  /\ steps \in Seq(S) /\ InOrder(steps)
  /\ {steps[i] : i \in DOMAIN steps} = S
  /\ \A s \in S : low <= Rank(s) /\ Rank(s) <= high

\* One list after another.
LEMMA ConcatListed ==
  ASSUME NEW s, NEW S, NEW t, NEW T, NEW low \in Nat, NEW mid \in Nat, NEW next \in Nat, NEW high \in Nat,
         Listed(s, S, low, mid), Listed(t, T, next, high), low <= mid, mid < next, next <= high
  PROVE  Listed(s \o t, S \cup T, low, high)
  <1> DEFINE u == s \o t
  <1>0. s \in Seq(S \cup T) /\ t \in Seq(S \cup T) BY SeqMonotonic DEF Listed
  <1>1. /\ u \in Seq(S \cup T) /\ Len(u) = Len(s) + Len(t)
        /\ \A i \in 1 .. (Len(s) + Len(t)) : u[i] = IF i <= Len(s) THEN s[i] ELSE t[i - Len(s)]
    BY <1>0, ConcatProperties
  <1> HIDE DEF u
  <1>2. /\ DOMAIN u = 1 .. (Len(s) + Len(t)) /\ DOMAIN s = 1 .. Len(s)
        /\ DOMAIN t = 1 .. Len(t) /\ Len(s) \in Nat /\ Len(t) \in Nat
    BY <1>0, <1>1
  <1>3. \A i \in DOMAIN u : \/ i \in DOMAIN s /\ i <= Len(s) /\ u[i] = s[i]
                            \/ i - Len(s) \in DOMAIN t /\ i > Len(s) /\ u[i] = t[i - Len(s)]
    BY <1>1, <1>2
  <1>4. /\ \A i \in DOMAIN s : i \in DOMAIN u /\ u[i] = s[i]
        /\ \A i \in DOMAIN t : i + Len(s) \in DOMAIN u /\ u[i + Len(s)] = t[i]
    BY <1>1, <1>2
  <1>5. {u[i] : i \in DOMAIN u} = S \cup T
    <2>1. \A i \in DOMAIN u : u[i] \in S \cup T BY <1>1, <1>2
    <2>2. \A x \in S : \E i \in DOMAIN u : u[i] = x
      <3>1. \A x \in S : \E i \in DOMAIN s : s[i] = x BY DEF Listed
      <3>2. QED BY <3>1, <1>4
    <2>3. \A x \in T : \E i \in DOMAIN u : u[i] = x
      <3>1. \A x \in T : \E i \in DOMAIN t : t[i] = x BY DEF Listed
      <3>2. QED BY <3>1, <1>4
    <2>4. QED BY <2>1, <2>2, <2>3
  <1>6. InOrder(u)
    <2> SUFFICES ASSUME NEW i \in DOMAIN u, NEW j \in DOMAIN u, i < j PROVE Rank(u[i]) < Rank(u[j])
      BY DEF InOrder
    <2>1. CASE j \in DOMAIN s /\ j <= Len(s)
      <3>1. i \in DOMAIN s /\ u[i] = s[i] /\ u[j] = s[j] BY <1>2, <1>4, <2>1
      <3>2. QED BY <2>1, <3>1 DEF Listed, InOrder
    <2>2. CASE i > Len(s)
      <3>1. /\ i - Len(s) \in DOMAIN t /\ u[i] = t[i - Len(s)]
            /\ j - Len(s) \in DOMAIN t /\ u[j] = t[j - Len(s)] /\ i - Len(s) < j - Len(s)
        BY <1>2, <1>3, <2>2
      <3>2. QED BY <3>1 DEF Listed, InOrder
    <2>3. CASE i \in DOMAIN s /\ u[i] = s[i] /\ j - Len(s) \in DOMAIN t /\ u[j] = t[j - Len(s)]
      <3>1. u[i] \in S /\ u[j] \in T BY <2>3 DEF Listed
      <3>2. Rank(u[i]) <= mid /\ next <= Rank(u[j]) BY <3>1 DEF Listed
      <3>3. QED BY <3>2, RankIsNat
    <2>4. QED BY <1>2, <1>3, <2>1, <2>2, <2>3
  <1>7. \A x \in S \cup T : low <= Rank(x) /\ Rank(x) <= high BY RankIsNat DEF Listed
  <1>8. QED BY <1>1, <1>5, <1>6, <1>7 DEF Listed, u

\* The lists of the script.
LEMMA ScriptLists ==
  /\ Listed(Preflight, {"check", "validate", "clean", "health"}, 1, 4)
  /\ Listed(KiwiBuild, BuildSteps, 5, 13)
  /\ Listed(Artifacts, {"candidate", "install", "checksum", "cyclonedx_sbom", "spdx_sbom", "report", "sign"}, 14, 20)
  /\ Listed(<<"evidence">>, {"evidence"}, 21, 21)
  /\ Listed(<<"validate", "identity", "describe", "overlay">>, StepsOf("export"), 2, 24)
  <1>1. Listed(Preflight, {"check", "validate", "clean", "health"}, 1, 4)
    BY Ranks DEF Listed, InOrder, Preflight
  <1>2. Listed(KiwiBuild, BuildSteps, 5, 13)
    <2>1. KiwiBuild \in Seq(BuildSteps) BY DEF KiwiBuild, BuildSteps
    <2>2. /\ DOMAIN KiwiBuild = 1 .. 9 /\ KiwiBuild[1] = "source" /\ KiwiBuild[2] = "stage" /\ KiwiBuild[3] = "kiwi"
          /\ KiwiBuild[4] = "inspect" /\ KiwiBuild[5] = "archive-iso" /\ KiwiBuild[6] = "archive-manifest"
          /\ KiwiBuild[7] = "place" /\ KiwiBuild[8] = "status" /\ KiwiBuild[9] = "record"
      BY DEF KiwiBuild
    <2>3. \A i \in 1 .. 9 : Rank(KiwiBuild[i]) = i + 4 BY <2>2, Ranks
    <2>4. InOrder(KiwiBuild) BY <2>2, <2>3 DEF InOrder
    <2>5. {KiwiBuild[i] : i \in DOMAIN KiwiBuild} = BuildSteps BY <2>2 DEF BuildSteps
    <2>6. \A s \in BuildSteps : 5 <= Rank(s) /\ Rank(s) <= 13 BY Ranks DEF BuildSteps
    <2>7. QED BY <2>1, <2>4, <2>5, <2>6 DEF Listed
  <1>3. Listed(Artifacts, {"candidate", "install", "checksum", "cyclonedx_sbom", "spdx_sbom", "report", "sign"}, 14, 20)
    <2> DEFINE S == {"candidate", "install", "checksum", "cyclonedx_sbom", "spdx_sbom", "report", "sign"}
    <2>1. Artifacts \in Seq(S) BY DEF Artifacts
    <2>2. /\ DOMAIN Artifacts = 1 .. 7 /\ Artifacts[1] = "candidate" /\ Artifacts[2] = "install" /\ Artifacts[3] = "checksum"
          /\ Artifacts[4] = "cyclonedx_sbom" /\ Artifacts[5] = "spdx_sbom" /\ Artifacts[6] = "report"
          /\ Artifacts[7] = "sign"
      BY DEF Artifacts
    <2>3. \A i \in 1 .. 7 : Rank(Artifacts[i]) = i + 13 BY <2>2, Ranks
    <2>4. InOrder(Artifacts) BY <2>2, <2>3 DEF InOrder
    <2>5. {Artifacts[i] : i \in DOMAIN Artifacts} = S BY <2>2
    <2>6. \A s \in S : 14 <= Rank(s) /\ Rank(s) <= 20 BY Ranks
    <2>7. QED BY <2>1, <2>4, <2>5, <2>6 DEF Listed
  <1>4. Listed(<<"evidence">>, {"evidence"}, 21, 21) BY Ranks DEF Listed, InOrder
  <1>5. Listed(<<"validate", "identity", "describe", "overlay">>, StepsOf("export"), 2, 24)
    BY Ranks, StepsAre DEF Listed, InOrder
  <1>6. QED BY <1>1, <1>2, <1>3, <1>4, <1>5

\* A command has started, with these steps.
Started(name, S) ==
  /\ ~Busy /\ AtWork(name)' /\ Pending' = S /\ cmd'.name = name /\ cmd' # Idle

\* Start with a list of steps of which only the evidence may be missing.
LEMMA StartsWith ==
  ASSUME NEW name \in {"export", "build", "artifacts"}, NEW steps, NEW S, NEW low \in Nat, NEW high \in Nat,
         Listed(steps, S, low, high), S \subseteq StepsOf(name), StepsOf(name) \ {"evidence"} \subseteq S,
         "validate" \in S, Begin(name, steps)
  PROVE  Started(name, S)
  <1>1. ~Busy /\ cmd' = [name |-> name, steps |-> steps, release |-> 0, commit |-> 0, dirty |-> FALSE,
                         build |-> 0, files |-> << >>]
    BY DEF Begin
  <1>2. cmd'.steps = steps /\ cmd'.name = name BY <1>1
  <1>3. steps \in Seq(StepsOf(name)) BY SeqMonotonic DEF Listed
  <1>4. cmd' \in Working(name)
    <2>1. << >> \in FileSets BY DEF FileSets
    <2>2. QED BY <1>1, <1>3, <2>1 DEF Working
  <1>5. Pending' = S BY <1>2 DEF Pending, Listed
  <1>6. steps # << >>
    <2>1. {steps[i] : i \in DOMAIN steps} = S BY DEF Listed
    <2>2. PICK i \in DOMAIN steps : steps[i] = "validate" BY <2>1
    <2>3. QED BY <2>2
  <1>7. Tidy' BY <1>2, <1>5 DEF Tidy, Listed
  <1>8. cmd' # Idle BY <1>2 DEF Idle
  <1>9. QED BY <1>1, <1>2, <1>4, <1>5, <1>6, <1>7, <1>8 DEF Started, AtWork

\* An export starts with all of its steps.
LEMMA ExportStarts == StartExport => Started("export", StepsOf("export"))
  BY StartsWith, ScriptLists, StepsAre DEF StartExport, Start

\* What happens to the results and to the test machine when a command starts.
Prepares(name) ==
  \/ UNCHANGED <<results, guest>> /\ ("fresh" \in scenario.careful => name # "build")
  \/ Discard /\ "fresh" \in scenario.careful

\* The release script starts with all of its steps, the evidence perhaps not.
LEMMA ReleaseStarts ==
  StartRelease =>
    \E name \in {"build", "artifacts"} : \E S \in SUBSET StepsOf(name) :
      StepsOf(name) \ {"evidence"} \subseteq S /\ Started(name, S) /\ Prepares(name)
  <1> SUFFICES ASSUME NEW evidence \in {<< >>, <<"evidence">>},
                      \/ /\ Begin("build", Preflight \o KiwiBuild \o Artifacts \o evidence)
                         /\ Prepares("build")
                      \/ /\ Begin("artifacts", Preflight \o Artifacts \o evidence)
                         /\ Prepares("artifacts")
               PROVE  \E name \in {"build", "artifacts"} : \E S \in SUBSET StepsOf(name) :
                        StepsOf(name) \ {"evidence"} \subseteq S /\ Started(name, S) /\ Prepares(name)
    BY DEF StartRelease, Start, Observe, proof, Prepares
  <1> DEFINE P == {"check", "validate", "clean", "health"}
             A == {"candidate", "install", "checksum", "cyclonedx_sbom", "spdx_sbom", "report", "sign"}
             E == IF evidence = << >> THEN {} ELSE {"evidence"}
  <1>1. Listed(Preflight, P, 1, 4) /\ Listed(KiwiBuild, BuildSteps, 5, 13) /\ Listed(Artifacts, A, 14, 20)
    BY ScriptLists
  <1>2. Listed(evidence, E, 21, 21)
    <2>1. CASE evidence = << >> BY <2>1 DEF Listed, InOrder
    <2>2. CASE evidence # << >> BY <2>2, ScriptLists
    <2>3. QED BY <2>1, <2>2
  <1>3. /\ P \cup A \cup E \subseteq ReleaseSteps /\ ReleaseSteps \ {"evidence"} \subseteq P \cup A \cup E
        /\ "validate" \in P
    BY DEF ReleaseSteps
  <1> HIDE DEF P, A, E
  <1>4. CASE Begin("artifacts", Preflight \o Artifacts \o evidence) /\ Prepares("artifacts")
    <2>1. Listed(Preflight \o Artifacts, P \cup A, 1, 20) BY <1>1, ConcatListed
    <2>2. Listed((Preflight \o Artifacts) \o evidence, (P \cup A) \cup E, 1, 21) BY <1>2, <2>1, ConcatListed
    <2>3. Started("artifacts", (P \cup A) \cup E) BY <1>3, <1>4, <2>2, StartsWith, StepsAre
    <2>4. QED BY <1>3, <1>4, <2>3, StepsAre
  <1>5. CASE Begin("build", Preflight \o KiwiBuild \o Artifacts \o evidence) /\ Prepares("build")
    <2>1. Listed(Preflight \o KiwiBuild, P \cup BuildSteps, 1, 13) BY <1>1, ConcatListed
    <2>2. Listed((Preflight \o KiwiBuild) \o Artifacts, (P \cup BuildSteps) \cup A, 1, 20) BY <1>1, <2>1, ConcatListed
    <2>3. Listed(((Preflight \o KiwiBuild) \o Artifacts) \o evidence, ((P \cup BuildSteps) \cup A) \cup E, 1, 21)
      BY <1>2, <2>2, ConcatListed
    <2>4. Started("build", ((P \cup BuildSteps) \cup A) \cup E)
      BY <1>3, <1>5, <2>3, StartsWith, StepsAre
    <2>5. QED BY <1>3, <1>5, <2>4, StepsAre
  <1>6. QED BY <1>4, <1>5

-----------------------------------------------------------------------------
(* What a step does to the command and to the rest.                        *)

Commands == {"export", "build", "artifacts"}

\* None of the steps the command has to make is made, but the evidence may not
\* be wanted.
Unbegun == cmd.name \in Commands => StepsOf(cmd.name) \ {"evidence"} \subseteq Pending

\* The command makes a step, the first of those that are left, and goes on or ends.
Moves(step) ==
  /\ cmd.name \in Commands /\ AtWork(cmd.name)
  /\ step \in StepsOf(cmd.name) /\ step \in Pending
  /\ \A s \in Pending : s = step \/ Rank(step) < Rank(s)
  /\ \/ cmd' = Idle /\ step \in {"overlay", "sign", "evidence"}
     \/ cmd' # Idle /\ cmd'.name = cmd.name /\ AtWork(cmd.name)' /\ Pending' = Pending \ {step}

\* What it remembers.
Remembers(with) ==
  cmd' # Idle =>
    /\ cmd'.release = with.release /\ cmd'.commit = with.commit /\ cmd'.dirty = with.dirty
    /\ cmd'.build = with.build /\ cmd'.files = with.files

\* What is running is one of the three commands, rendering or nothing.
LEMMA AtWorkFacts ==
  ASSUME NEW name \in Commands, AtWork(name)
  PROVE  /\ cmd.name = name /\ cmd # Idle /\ AtWork(cmd.name) /\ cmd \in Working(cmd.name)
         /\ cmd.release \in Nat /\ cmd.commit \in Nat /\ cmd.dirty \in BOOLEAN /\ cmd.build \in Nat
         /\ cmd.files \in FileSets
  <1>1. cmd \in Working(name) BY DEF AtWork
  <1>2. cmd.name = name BY <1>1 DEF Working
  <1>3. cmd # Idle BY <1>2 DEF Idle, Commands
  <1>4. /\ cmd.release \in Nat /\ cmd.commit \in Nat /\ cmd.dirty \in BOOLEAN /\ cmd.build \in Nat
        /\ cmd.files \in FileSets
    BY <1>1 DEF Working
  <1>5. QED BY <1>1, <1>2, <1>3, <1>4

\* No step of a command but the last two ends it.
LEMMA LastSteps ==
  ASSUME NEW name \in Commands, AtWork(name), NEW step \in StepsOf(name), Pending = {step}
  PROVE  step \in {"overlay", "sign", "evidence"}
  <1>1. cmd.name = name BY AtWorkFacts
  <1>2. \A t \in StepsOf(name) \ {"evidence"} : Rank(step) < Rank(t) => t = step
    BY <1>1 DEF AtWork, Tidy
  <1>3. CASE name = "export"
    <2>1. "overlay" \in StepsOf(name) \ {"evidence"} BY <1>3, StepsAre
    <2>2. step \in {"validate", "identity", "describe", "overlay"} BY <1>3, StepsAre
    <2>3. step = "overlay" \/ Rank(step) = 2 \/ Rank(step) = 22 \/ Rank(step) = 23 BY <2>2, Ranks
    <2>5. Rank("overlay") = 24 BY Ranks
    <2>6. step = "overlay" \/ Rank(step) < Rank("overlay") BY <2>3, <2>5
    <2>4. QED BY <1>2, <2>1, <2>6
  <1>4. CASE name # "export"
    <2>1. "sign" \in StepsOf(name) \ {"evidence"} BY <1>4, StepsAre DEF Commands, ReleaseSteps
    <2>2. step \in ReleaseSteps \cup BuildSteps BY <1>4, StepsAre DEF Commands
    <2>3. \/ step = "sign" \/ step = "evidence" \/ Rank(step) = 1 \/ Rank(step) = 2 \/ Rank(step) = 3
          \/ Rank(step) = 4 \/ Rank(step) = 5 \/ Rank(step) = 6 \/ Rank(step) = 7 \/ Rank(step) = 8
          \/ Rank(step) = 9 \/ Rank(step) = 10 \/ Rank(step) = 11 \/ Rank(step) = 12 \/ Rank(step) = 13
          \/ Rank(step) = 14 \/ Rank(step) = 15 \/ Rank(step) = 16 \/ Rank(step) = 17 \/ Rank(step) = 18
          \/ Rank(step) = 19
      BY <2>2, Ranks DEF ReleaseSteps, BuildSteps
    <2>5. Rank("sign") = 20 BY Ranks
    <2>6. step = "sign" \/ step = "evidence" \/ Rank(step) < Rank("sign") BY <2>3, <2>5
    <2>4. QED BY <1>2, <2>1, <2>6
  <1>5. QED BY <1>3, <1>4

\* A step that proceeds.
LEMMA Proceeding ==
  ASSUME CmdTyping, NEW step, At(step), step \notin Rendered,
         NEW with, Proceed(with), with.steps = cmd.steps, cmd \in Working(cmd.name) => with \in Working(cmd.name)
  PROVE  Moves(step) /\ Remembers(with)
  <1>1. PICK name \in Commands : AtWork(name) /\ step \in StepsOf(name)
    BY AtFacts DEF Commands
  <1>2. cmd.name = name /\ cmd \in Working(name) BY <1>1, AtWorkFacts
  <1>3. /\ step \in Pending /\ Head(cmd.steps) = step
        /\ \A s \in Pending : s = step \/ Rank(step) < Rank(s)
    BY AtFacts
  <1>4. name # "idle" BY DEF Commands
  <1>5. \/ cmd' = Idle /\ Pending = {step}
        \/ Advanced(step, with) /\ AtWork(name)'
    BY <1>1, <1>2, <1>3, <1>4, Proceeds
  <1>6. CASE cmd' = Idle /\ Pending = {step}
    <2>1. step \in {"overlay", "sign", "evidence"} BY <1>1, <1>6, LastSteps
    <2>2. QED BY <1>1, <1>2, <1>3, <1>6, <2>1 DEF Moves, Remembers
  <1>7. CASE Advanced(step, with) /\ AtWork(name)'
    <2>1. cmd'.name = name BY <1>2, <1>7 DEF Advanced
    <2>2. QED BY <1>1, <1>2, <1>3, <1>7, <2>1 DEF Moves, Remembers, Advanced
  <1>8. QED BY <1>5, <1>6, <1>7

\* A command that ends has made no step.
LEMMA IdleIsUnbegun == cmd = Idle => Unbegun
  BY DEF Idle, Unbegun, Commands

\* What a step leaves as it is.
Frame(step) ==
  /\ UNCHANGED <<source, reviews, guest, scenario>>
  /\ step \notin {"describe", "overlay"} => UNCHANGED export
  /\ step \notin {"stage", "kiwi"} => UNCHANGED <<images, work>>
  /\ step \notin {"archive-iso", "archive-manifest", "place", "record", "install", "checksum",
                  "cyclonedx_sbom", "spdx_sbom", "report", "sign"} => UNCHANGED dir
  /\ step # "health" => UNCHANGED results
  /\ step # "evidence" => UNCHANGED bundle
  /\ cmd' # Idle =>
       /\ step # "validate" => cmd'.release = cmd.release
       /\ step \notin {"identity", "source", "candidate"} => cmd'.commit = cmd.commit
       /\ step \notin {"identity", "status"} => cmd'.dirty = cmd.dirty
       /\ step # "source" => cmd'.build = cmd.build
       /\ step \notin {"describe", "stage", "archive-iso"} => cmd'.files = cmd.files

\* What a step reads and writes.
DoesExport(step) ==
  /\ step = "validate" => ValidSources /\ cmd'.release = Toml
  /\ step = "identity" => cmd'.commit = Head_ /\ cmd'.dirty = Dirty
  /\ step = "describe" => export' = None /\ cmd'.files = [f \in Described |-> tree[f]]
  /\ step = "overlay" =>
       export' = [commit |-> cmd.commit, dirty |-> cmd.dirty, verified |-> FALSE,
                  files |-> [f \in ImageFiles |-> IF f \in Described THEN cmd.files[f] ELSE tree[f]]]

DoesBuild(step) ==
  /\ step = "clean" => ~Dirty
  /\ step = "health" =>
       results' = [results EXCEPT !["obs-repositories"] = [iso |-> 0, passed |-> TRUE, shipped |-> << >>]]
  /\ step = "source" => Fresh /\ cmd'.commit = Head_ /\ cmd'.build = Toml
  /\ step = "stage" => UNCHANGED images /\ work' = 0 /\ cmd'.files = ImageOf(tree)
  /\ step = "kiwi" =>
       /\ \E shipped \in [DOMAIN scenario.inventory -> 0 .. 2] :
            images' = Append(images, [files |-> cmd.files, commit |-> cmd.commit, shipped |-> shipped])
       /\ work' = Len(images) + 1
  /\ step = "archive-iso" =>
       /\ dir' = [dir EXCEPT !["iso"] = [r \in DOMAIN Releases |-> None]]
       /\ cmd'.files = {r \in DOMAIN Releases : dir["iso"][r] # None}
  /\ step = "archive-manifest" =>
       dir' = [dir EXCEPT !["manifest"] = [r \in DOMAIN Releases |-> IF r \in cmd.files THEN None ELSE @[r]]]
  /\ step = "place" => dir' = [dir EXCEPT !["iso"][cmd.build] = Describes(work, 0, 0, FALSE)]
  /\ step = "status" => Toml = cmd.build /\ cmd'.dirty = Dirty
  /\ step = "record" =>
       dir' = [dir EXCEPT !["manifest"][cmd.build] = Describes(dir["iso"][cmd.build].iso, 0, Head_, cmd.dirty)]

DoesFinish(step) ==
  /\ step = "candidate" => IsCandidate(cmd.release) /\ cmd'.commit = Head_
  /\ step = "install" =>
       dir' = [dir EXCEPT !["packages"][cmd.release] = Describes(0, work, 0, FALSE),
                          !["verified"][cmd.release] = Describes(0, work, 0, FALSE)]
  /\ step = "checksum" => dir' = [dir EXCEPT !["checksum"][cmd.release] = Describes(ThisIso, 0, 0, FALSE)]
  /\ \A sbom \in {"cyclonedx_sbom", "spdx_sbom"} :
       step = sbom => dir' = [dir EXCEPT ![sbom][cmd.release] = Describes(0, ThesePackages, cmd.commit, FALSE)]
  /\ step = "report" =>
       dir' = [dir EXCEPT !["report"][cmd.release] = Describes(ThisIso, ThesePackages, cmd.commit, FALSE)]
  /\ step = "sign" =>
       IF Releases[cmd.release].stage = "alpha" THEN UNCHANGED dir
       ELSE \E what \in {dir["checksum"][cmd.release], None} :
              /\ dir' = [dir EXCEPT !["checksum_signature"][cmd.release] = what]
              /\ cmd' # Idle => what = dir["checksum"][cmd.release]
  /\ step = "evidence" => ArtifactManifest(RequiredResults(Toml))

Makes(step) == Moves(step) /\ Frame(step) /\ DoesExport(step) /\ DoesBuild(step) /\ DoesFinish(step)

data == <<source, export, candidate, proof>>

\* No command makes a step.
Rests ==
  /\ UNCHANGED <<cmd, candidate, scenario>>
  /\ \/ Others /\ UNCHANGED <<export, proof>>
     \/ VerifyExport
     \/ Prove
     \/ WriteEvidenceByHand
     \/ UNCHANGED vars

Starts ==
  /\ ~Busy /\ CmdTyping' /\ Unbegun' /\ Prepares(cmd'.name)
  /\ UNCHANGED <<source, export, candidate, reviews, bundle, scenario>>

Renders ==
  /\ cmd.name = "render" /\ cmd \in Rendering /\ cmd.steps # << >> /\ CmdTyping' /\ Unbegun'
  /\ cmd'.name # "build"
  /\ tree' = [tree EXCEPT ![Head(cmd.steps)] = cmd.release]
  /\ UNCHANGED <<commits, export, candidate, proof, scenario>>

\* The command ends without having done anything.
Fails ==
  /\ cmd' = Idle /\ UNCHANGED <<data, scenario>>
  /\ \/ "sound" \in scenario.careful => ~BuiltByKiwi
     \/ \E step \in {"check", "validate", "identity", "clean", "source", "kiwi"} : At(step)
     \/ /\ At("inspect")
        /\ "sound" \in scenario.careful => ~(images[work].files["config.xml"] = cmd.build /\ Toml = cmd.build)
     \/ At("status") /\ Toml # cmd.build
     \/ At("candidate") /\ ~IsCandidate(cmd.release)

\* What is read of the tree has its type.
LEMMA TreeParts ==
  ASSUME DataTyping
  PROVE  /\ Toml \in DOMAIN Releases /\ Toml \in Nat /\ Head_ \in Nat /\ Head_ \in DOMAIN commits
         /\ Dirty \in BOOLEAN /\ commits[Head_] \in Version /\ tree \in Version
         /\ \A f \in Files : tree[f] \in Nat
         /\ ImageOf(tree) \in [ImageFiles -> Nat] /\ [f \in Described |-> tree[f]] \in [Described -> Nat]
  <1>1. tree \in Version /\ commits \in Seq(Version) /\ commits # << >> BY DEF DataTyping
  <1>2. tree \in [Files -> Nat] /\ Toml \in DOMAIN Releases BY <1>1 DEF Version, Toml
  <1>3. Toml \in Nat BY <1>1 DEF Version, Toml, Files
  <1>4. Head_ \in Nat /\ Head_ \in DOMAIN commits /\ commits[Head_] \in Version
    BY <1>1 DEF Head_
  <1>5. Dirty \in BOOLEAN BY DEF Dirty
  <1>6. ImageFiles \subseteq Files /\ Described \subseteq Files
    BY DEF ImageFiles, Described, Overlay, Files, Rendered, Written
  <1>7. \A f \in Files : tree[f] \in Nat BY <1>2
  <1>8. ImageOf(tree) \in [ImageFiles -> Nat] BY <1>6, <1>7 DEF ImageOf
  <1>9. [f \in Described |-> tree[f]] \in [Described -> Nat] BY <1>6, <1>7
  <1>10. QED BY <1>1, <1>2, <1>3, <1>4, <1>5, <1>7, <1>8, <1>9

\* A step that only reads.
LEMMA Reading ==
  ASSUME CmdTyping, NEW step, At(step), step \notin Rendered, Proceed(cmd)
  PROVE  Moves(step) /\ Remembers(cmd)
  BY Proceeding

\* The steps of an export.
LEMMA ExportActs ==
  ASSUME CmdTyping, DataTyping, UNCHANGED scenario, ExportIdentity \/ ExportDescription \/ ExportOverlay
  PROVE  Fails \/ \E step \in {"identity", "describe", "overlay"} : Makes(step)
  <1> USE DEF Rendered
  <1>1. CASE ExportIdentity
    <2> USE <1>1 DEF ExportIdentity
    <2>0. UNCHANGED <<data, scenario>> BY DEF Observe, data, source, candidate, proof
    <2>1. CASE cmd' = Idle BY <2>0, <2>1 DEF Fails
    <2>2. CASE Proceed([cmd EXCEPT !.commit = Head_, !.dirty = Dirty])
      <3> DEFINE with == [cmd EXCEPT !.commit = Head_, !.dirty = Dirty]
      <3>1. cmd \in Working(cmd.name) =>
              /\ with \in Working(cmd.name) /\ with.steps = cmd.steps
              /\ with.commit = Head_ /\ with.dirty = Dirty /\ with.release = cmd.release
              /\ with.build = cmd.build /\ with.files = cmd.files
        BY TreeParts DEF Working
      <3>2. cmd \in Working(cmd.name) BY AtFacts, AtWorkFacts DEF Commands
      <3> HIDE DEF with
      <3>3. Moves("identity") /\ Remembers(with) BY <2>2, <3>1, <3>2, Proceeding DEF with
      <3>4. cmd' # Idle BY <3>3 DEF Moves
      <3>5. Frame("identity") BY <2>0, <3>1, <3>2, <3>3, <3>4 DEF Frame, Remembers, data, candidate, proof
      <3>6. DoesExport("identity") BY <3>1, <3>2, <3>3, <3>4 DEF DoesExport, Remembers
      <3>7. DoesBuild("identity") /\ DoesFinish("identity") BY DEF DoesBuild, DoesFinish
      <3>8. QED BY <3>3, <3>5, <3>6, <3>7 DEF Makes
    <2>3. QED BY <2>1, <2>2
  <1>2. CASE ExportDescription
    <2> USE <1>2 DEF ExportDescription
    <2>2. Proceed([cmd EXCEPT !.files = [f \in Described |-> tree[f]]]) OBVIOUS
    <2>3. QED
      <3> DEFINE with == [cmd EXCEPT !.files = [f \in Described |-> tree[f]]]
      <3>0. [f \in Described |-> tree[f]] \in FileSets BY TreeParts DEF FileSets
      <3>1. cmd \in Working(cmd.name) =>
              /\ with \in Working(cmd.name) /\ with.steps = cmd.steps
              /\ with.commit = cmd.commit /\ with.dirty = cmd.dirty /\ with.release = cmd.release
              /\ with.build = cmd.build /\ with.files = [f \in Described |-> tree[f]]
        BY <3>0 DEF Working
      <3>2. cmd \in Working(cmd.name) BY AtFacts, AtWorkFacts DEF Commands
      <3> HIDE DEF with
      <3>3. Moves("describe") /\ Remembers(with) BY <2>2, <3>1, <3>2, Proceeding DEF with
      <3>4. cmd' # Idle BY <3>3 DEF Moves
      <3>5. Frame("describe") BY <3>1, <3>2, <3>3, <3>4 DEF Frame, Remembers, candidate, proof
      <3>6. DoesExport("describe") BY <3>1, <3>2, <3>3, <3>4 DEF DoesExport, Remembers
      <3>7. DoesBuild("describe") /\ DoesFinish("describe") BY DEF DoesBuild, DoesFinish
      <3>8. QED BY <3>3, <3>5, <3>6, <3>7 DEF Makes
  <1>3. CASE ExportOverlay
    <2> USE <1>3 DEF ExportOverlay
    <2>1. Moves("overlay") /\ Remembers(cmd) BY Reading
    <2>2. Frame("overlay") BY <2>1 DEF Frame, Remembers, candidate, proof
    <2>3. DoesExport("overlay") BY DEF DoesExport
    <2>4. DoesBuild("overlay") /\ DoesFinish("overlay") BY DEF DoesBuild, DoesFinish
    <2>5. QED BY <2>1, <2>2, <2>3, <2>4 DEF Makes
  <1>4. QED BY <1>1, <1>2, <1>3

\* The steps before a build.
LEMMA PreflightActs ==
  ASSUME CmdTyping, DataTyping, UNCHANGED scenario, ReleaseCheck \/ ValidateSources \/ TreeIsClean \/ ObsHealth
  PROVE  Fails \/ \E step \in {"check", "validate", "clean", "health"} : Makes(step)
  <1> USE DEF Rendered
  <1>1. CASE ReleaseCheck
    <2> USE <1>1 DEF ReleaseCheck
    <2>0. UNCHANGED <<data, scenario>> BY DEF Observe, data, source, candidate, proof
    <2>1. CASE cmd' = Idle /\ ~(Fresh) BY <2>0, <2>1 DEF Fails
    <2>2. CASE Proceed(cmd) /\ Fresh
      <3>1. Moves("check") /\ Remembers(cmd) BY <2>2, Reading
      <3>2. Frame("check") BY <2>0, <3>1 DEF Frame, Remembers, data, source, candidate, proof
      <3>3. DoesBuild("check") BY <2>0, <2>2, <3>1 DEF DoesBuild
      <3>4. DoesExport("check") /\ DoesFinish("check") BY DEF DoesExport, DoesFinish
      <3>5. QED BY <3>1, <3>2, <3>3, <3>4 DEF Makes
    <2>3. QED BY <2>1, <2>2 DEF Require
  <1>2. CASE ValidateSources
    <2> USE <1>2 DEF ValidateSources
    <2>0. UNCHANGED <<data, scenario>> BY DEF Observe, data, source, candidate, proof
    <2>1. CASE cmd' = Idle /\ ~(ValidSources) BY <2>0, <2>1 DEF Fails
    <2>2. CASE Proceed([cmd EXCEPT !.release = Toml]) /\ ValidSources
      <3> DEFINE with == [cmd EXCEPT !.release = Toml]
      <3>1. cmd \in Working(cmd.name) =>
              /\ with \in Working(cmd.name) /\ with.steps = cmd.steps
              /\ with.release = Toml /\ with.commit = cmd.commit /\ with.dirty = cmd.dirty
              /\ with.build = cmd.build /\ with.files = cmd.files
        BY TreeParts DEF Working
      <3>2. cmd \in Working(cmd.name) BY AtFacts, AtWorkFacts DEF Commands
      <3> HIDE DEF with
      <3>3. Moves("validate") /\ Remembers(with) BY <2>2, <3>1, <3>2, Proceeding DEF with
      <3>4. cmd' # Idle BY <3>3 DEF Moves
      <3>5. Frame("validate") BY <2>0, <3>1, <3>2, <3>3, <3>4 DEF Frame, Remembers, data, source, candidate, proof
      <3>6. DoesExport("validate") BY <2>0, <2>2, <3>1, <3>2, <3>3, <3>4 DEF DoesExport, Remembers
      <3>7. DoesBuild("validate") /\ DoesFinish("validate") BY DEF DoesBuild, DoesFinish
      <3>8. QED BY <3>3, <3>5, <3>6, <3>7 DEF Makes
    <2>3. QED BY <2>1, <2>2
  <1>3. CASE TreeIsClean
    <2> USE <1>3 DEF TreeIsClean
    <2>0. UNCHANGED <<data, scenario>> BY DEF Observe, data, source, candidate, proof
    <2>1. CASE cmd' = Idle /\ ~(~Dirty) BY <2>0, <2>1 DEF Fails
    <2>2. CASE Proceed(cmd) /\ ~Dirty
      <3>1. Moves("clean") /\ Remembers(cmd) BY <2>2, Reading
      <3>2. Frame("clean") BY <2>0, <3>1 DEF Frame, Remembers, data, source, candidate, proof
      <3>3. DoesBuild("clean") BY <2>0, <2>2, <3>1 DEF DoesBuild
      <3>4. DoesExport("clean") /\ DoesFinish("clean") BY DEF DoesExport, DoesFinish
      <3>5. QED BY <3>1, <3>2, <3>3, <3>4 DEF Makes
    <2>3. QED BY <2>1, <2>2 DEF Require
  <1>4. CASE ObsHealth
    <2> USE <1>4 DEF ObsHealth
    <2>1. Moves("health") /\ Remembers(cmd) BY Reading
    <2>2. Frame("health") BY <2>1 DEF Frame, Remembers, Observe, Put, source, candidate, proof
    <2>3. DoesBuild("health") BY <2>1 DEF DoesBuild
    <2>4. DoesExport("health") /\ DoesFinish("health") BY DEF DoesExport, DoesFinish
    <2>5. QED BY <2>1, <2>2, <2>3, <2>4 DEF Makes
  <1>5. QED BY <1>1, <1>2, <1>3, <1>4

\* The steps of a build, up to KIWI.
LEMMA KiwiActs ==
  ASSUME CmdTyping, DataTyping, UNCHANGED scenario, BuildSource \/ StageDescription \/ Kiwi
  PROVE  Fails \/ \E step \in {"source", "stage", "kiwi"} : Makes(step)
  <1> USE DEF Rendered
  <1>1. CASE BuildSource
    <2> USE <1>1 DEF BuildSource
    <2>0. UNCHANGED <<data, scenario>> BY DEF Observe, data, source, candidate, proof
    <2>1. CASE cmd' = Idle /\ ~(Fresh) BY <2>0, <2>1 DEF Fails
    <2>2. CASE Proceed([cmd EXCEPT !.commit = Head_, !.build = Toml]) /\ Fresh
      <3> DEFINE with == [cmd EXCEPT !.commit = Head_, !.build = Toml]
      <3>1. cmd \in Working(cmd.name) =>
              /\ with \in Working(cmd.name) /\ with.steps = cmd.steps
              /\ with.release = cmd.release /\ with.commit = Head_ /\ with.dirty = cmd.dirty
              /\ with.build = Toml /\ with.files = cmd.files
        BY TreeParts DEF Working
      <3>2. cmd \in Working(cmd.name) BY AtFacts, AtWorkFacts DEF Commands
      <3> HIDE DEF with
      <3>3. Moves("source") /\ Remembers(with) BY <2>2, <3>1, <3>2, Proceeding DEF with
      <3>4. cmd' # Idle BY <3>3 DEF Moves
      <3>5. Frame("source") BY <2>0, <3>1, <3>2, <3>3, <3>4 DEF Frame, Remembers, data, source, candidate, proof
      <3>6. DoesBuild("source") BY <2>0, <2>2, <3>1, <3>2, <3>3, <3>4 DEF DoesBuild, Remembers
      <3>7. DoesExport("source") /\ DoesFinish("source") BY DEF DoesExport, DoesFinish
      <3>8. QED BY <3>3, <3>5, <3>6, <3>7 DEF Makes
    <2>3. QED BY <2>1, <2>2
  <1>2. CASE StageDescription
    <2> USE <1>2 DEF StageDescription
    <2>2. Proceed([cmd EXCEPT !.files = [f \in ImageFiles |-> tree[f]]]) OBVIOUS
    <2>3. QED
      <3> DEFINE with == [cmd EXCEPT !.files = [f \in ImageFiles |-> tree[f]]]
      <3>0. [f \in ImageFiles |-> tree[f]] \in FileSets BY TreeParts DEF FileSets, ImageOf
      <3>1. cmd \in Working(cmd.name) =>
              /\ with \in Working(cmd.name) /\ with.steps = cmd.steps
              /\ with.release = cmd.release /\ with.commit = cmd.commit /\ with.dirty = cmd.dirty
              /\ with.build = cmd.build /\ with.files = [f \in ImageFiles |-> tree[f]]
        BY <3>0 DEF Working
      <3>2. cmd \in Working(cmd.name) BY AtFacts, AtWorkFacts DEF Commands
      <3> HIDE DEF with
      <3>3. Moves("stage") /\ Remembers(with) BY <2>2, <3>1, <3>2, Proceeding DEF with
      <3>4. cmd' # Idle BY <3>3 DEF Moves
      <3>5. Frame("stage") BY <3>1, <3>2, <3>3, <3>4 DEF Frame, Remembers, data, source, candidate, proof
      <3>6. DoesBuild("stage") BY <2>2, <3>1, <3>2, <3>3, <3>4 DEF DoesBuild, Remembers, ImageOf
      <3>7. DoesExport("stage") /\ DoesFinish("stage") BY DEF DoesExport, DoesFinish
      <3>8. QED BY <3>3, <3>5, <3>6, <3>7 DEF Makes
  <1>3. CASE Kiwi
    <2> USE <1>3 DEF Kiwi
    <2>1. CASE cmd' = Idle /\ UNCHANGED <<images, work>>
      <3>1. UNCHANGED <<data, scenario>> BY <2>1 DEF data, source, candidate, proof
      <3>2. QED BY <2>1, <3>1 DEF Fails
    <2>2. CASE /\ \E shipped \in [DOMAIN scenario.inventory -> 0 .. 2] :
                    images' = Append(images, [files |-> cmd.files, commit |-> cmd.commit, shipped |-> shipped])
               /\ work' = Len(images) + 1 /\ Proceed(cmd)
      <3>1. Moves("kiwi") /\ Remembers(cmd) BY <2>2, Reading
      <3>2. Frame("kiwi") BY <3>1 DEF Frame, Remembers, source, candidate, proof
      <3>3. DoesBuild("kiwi") BY <2>2 DEF DoesBuild
      <3>4. DoesExport("kiwi") /\ DoesFinish("kiwi") BY DEF DoesExport, DoesFinish
      <3>5. QED BY <3>1, <3>2, <3>3, <3>4 DEF Makes
    <2>3. QED BY <2>1, <2>2
  <1>4. QED BY <1>1, <1>2, <1>3

\* The steps that place an image.
LEMMA PlaceActs ==
  ASSUME CmdTyping, DataTyping, UNCHANGED scenario,
         InspectImage \/ ArchiveIso \/ ArchiveManifest \/ PlaceIso \/ ManifestStatus \/ WriteManifest
  PROVE  Fails \/ \E step \in {"inspect", "archive-iso", "archive-manifest", "place", "status", "record"} : Makes(step)
  <1> USE DEF Rendered
  <1>1. CASE InspectImage
    <2> USE <1>1 DEF InspectImage
    <2> DEFINE Good == images[work].files["config.xml"] = cmd.build /\ Toml = cmd.build
    <2>0. UNCHANGED <<data, scenario>> BY DEF Observe, data, source, candidate, proof
    <2>1. PICK audit \in IF "sound" \in scenario.careful THEN {TRUE} ELSE BOOLEAN : Require(audit /\ Good)
      OBVIOUS
    <2>2. "sound" \in scenario.careful => audit OBVIOUS
    <2>3. CASE ~(audit /\ Good)
      <3>1. cmd' = Idle BY <2>1, <2>3 DEF Require
      <3>2. QED BY <2>0, <2>2, <2>3, <3>1 DEF Fails
    <2>4. CASE audit /\ Good
      <3>0. Proceed(cmd) BY <2>1, <2>4 DEF Require
      <3>1. Moves("inspect") /\ Remembers(cmd) BY <3>0, Reading
      <3>2. Frame("inspect") BY <2>0, <3>1 DEF Frame, Remembers, data, source, candidate, proof
      <3>3. DoesBuild("inspect") BY DEF DoesBuild
      <3>4. DoesExport("inspect") /\ DoesFinish("inspect") BY DEF DoesExport, DoesFinish
      <3>5. QED BY <3>1, <3>2, <3>3, <3>4 DEF Makes
    <2>5. QED BY <2>3, <2>4
  <1>2. CASE ArchiveIso
    <2> USE <1>2 DEF ArchiveIso
    <2>2. Proceed([cmd EXCEPT !.files = {r \in DOMAIN Releases : dir["iso"][r] # None}]) OBVIOUS
    <2>3. QED
      <3> DEFINE with == [cmd EXCEPT !.files = {r \in DOMAIN Releases : dir["iso"][r] # None}]
      <3>0. {r \in DOMAIN Releases : dir["iso"][r] # None} \in FileSets BY TreeParts DEF FileSets
      <3>1. cmd \in Working(cmd.name) =>
              /\ with \in Working(cmd.name) /\ with.steps = cmd.steps
              /\ with.release = cmd.release /\ with.commit = cmd.commit /\ with.dirty = cmd.dirty
              /\ with.build = cmd.build /\ with.files = {r \in DOMAIN Releases : dir["iso"][r] # None}
        BY <3>0 DEF Working
      <3>2. cmd \in Working(cmd.name) BY AtFacts, AtWorkFacts DEF Commands
      <3> HIDE DEF with
      <3>3. Moves("archive-iso") /\ Remembers(with) BY <2>2, <3>1, <3>2, Proceeding DEF with
      <3>4. cmd' # Idle BY <3>3 DEF Moves
      <3>5. Frame("archive-iso") BY <3>1, <3>2, <3>3, <3>4 DEF Frame, Remembers, data, source, candidate, proof
      <3>6. DoesBuild("archive-iso") BY <2>2, <3>1, <3>2, <3>3, <3>4 DEF DoesBuild, Remembers
      <3>7. DoesExport("archive-iso") /\ DoesFinish("archive-iso") BY DEF DoesExport, DoesFinish
      <3>8. QED BY <3>3, <3>5, <3>6, <3>7 DEF Makes
  <1>3. CASE ArchiveManifest
    <2> USE <1>3 DEF ArchiveManifest
    <2>1. Moves("archive-manifest") /\ Remembers(cmd) BY Reading
    <2>2. Frame("archive-manifest") BY <2>1 DEF Frame, Remembers, Observe, Put, source, candidate, proof
    <2>3. DoesBuild("archive-manifest") BY <2>1 DEF DoesBuild
    <2>4. DoesExport("archive-manifest") /\ DoesFinish("archive-manifest") BY DEF DoesExport, DoesFinish
    <2>5. QED BY <2>1, <2>2, <2>3, <2>4 DEF Makes
  <1>4. CASE PlaceIso
    <2> USE <1>4 DEF PlaceIso
    <2>1. Moves("place") /\ Remembers(cmd) BY Reading
    <2>2. Frame("place") BY <2>1 DEF Frame, Remembers, Observe, Put, source, candidate, proof
    <2>3. DoesBuild("place") BY <2>1 DEF DoesBuild, Put
    <2>4. DoesExport("place") /\ DoesFinish("place") BY DEF DoesExport, DoesFinish
    <2>5. QED BY <2>1, <2>2, <2>3, <2>4 DEF Makes
  <1>5. CASE ManifestStatus
    <2> USE <1>5 DEF ManifestStatus
    <2>0. UNCHANGED <<data, scenario>> BY DEF Observe, data, source, candidate, proof
    <2>1. CASE cmd' = Idle /\ ~(Toml = cmd.build) BY <2>0, <2>1 DEF Fails
    <2>2. CASE Proceed([cmd EXCEPT !.dirty = Dirty]) /\ Toml = cmd.build
      <3> DEFINE with == [cmd EXCEPT !.dirty = Dirty]
      <3>1. cmd \in Working(cmd.name) =>
              /\ with \in Working(cmd.name) /\ with.steps = cmd.steps
              /\ with.release = cmd.release /\ with.commit = cmd.commit /\ with.dirty = Dirty
              /\ with.build = cmd.build /\ with.files = cmd.files
        BY TreeParts DEF Working
      <3>2. cmd \in Working(cmd.name) BY AtFacts, AtWorkFacts DEF Commands
      <3> HIDE DEF with
      <3>3. Moves("status") /\ Remembers(with) BY <2>2, <3>1, <3>2, Proceeding DEF with
      <3>4. cmd' # Idle BY <3>3 DEF Moves
      <3>5. Frame("status") BY <2>0, <3>1, <3>2, <3>3, <3>4 DEF Frame, Remembers, data, source, candidate, proof
      <3>6. DoesBuild("status") BY <2>0, <2>2, <3>1, <3>2, <3>3, <3>4 DEF DoesBuild, Remembers
      <3>7. DoesExport("status") /\ DoesFinish("status") BY DEF DoesExport, DoesFinish
      <3>8. QED BY <3>3, <3>5, <3>6, <3>7 DEF Makes
    <2>3. QED BY <2>1, <2>2
  <1>6. CASE WriteManifest
    <2> USE <1>6 DEF WriteManifest
    <2>1. Moves("record") /\ Remembers(cmd) BY Reading
    <2>2. Frame("record") BY <2>1 DEF Frame, Remembers, Observe, Put, source, candidate, proof
    <2>3. DoesBuild("record") BY <2>1 DEF DoesBuild, Put
    <2>4. DoesExport("record") /\ DoesFinish("record") BY DEF DoesExport, DoesFinish
    <2>5. QED BY <2>1, <2>2, <2>3, <2>4 DEF Makes
  <1>7. QED BY <1>1, <1>2, <1>3, <1>4, <1>5, <1>6

\* The steps that finish a release.
LEMMA FinishActs ==
  ASSUME CmdTyping, DataTyping, UNCHANGED scenario,
         \/ TakeCandidate \/ InstallPackages \/ WriteChecksum \/ WriteReport \/ SignChecksum
           \/ WriteSbom("cyclonedx_sbom") \/ WriteSbom("spdx_sbom") \/ WriteEvidence
  PROVE  Fails \/ \E step \in {"candidate", "install", "checksum", "cyclonedx_sbom", "spdx_sbom",
                                   "report", "sign", "evidence"} : Makes(step)
  <1> USE DEF Rendered
  <1>1. CASE TakeCandidate
    <2> USE <1>1 DEF TakeCandidate
    <2>0. UNCHANGED <<data, scenario>> BY DEF Observe, data, source, candidate, proof
    <2>1. CASE cmd' = Idle /\ ~(IsCandidate(cmd.release)) BY <2>0, <2>1 DEF Fails
    <2>2. CASE Proceed([cmd EXCEPT !.commit = Head_]) /\ IsCandidate(cmd.release)
      <3> DEFINE with == [cmd EXCEPT !.commit = Head_]
      <3>1. cmd \in Working(cmd.name) =>
              /\ with \in Working(cmd.name) /\ with.steps = cmd.steps
              /\ with.release = cmd.release /\ with.commit = Head_ /\ with.dirty = cmd.dirty
              /\ with.build = cmd.build /\ with.files = cmd.files
        BY TreeParts DEF Working
      <3>2. cmd \in Working(cmd.name) BY AtFacts, AtWorkFacts DEF Commands
      <3> HIDE DEF with
      <3>3. Moves("candidate") /\ Remembers(with) BY <2>2, <3>1, <3>2, Proceeding DEF with
      <3>4. cmd' # Idle BY <3>3 DEF Moves
      <3>5. Frame("candidate") BY <2>0, <3>1, <3>2, <3>3, <3>4 DEF Frame, Remembers, data, source, candidate, proof
      <3>6. DoesFinish("candidate") BY <2>0, <2>2, <3>1, <3>2, <3>3, <3>4 DEF DoesFinish, Remembers
      <3>7. DoesExport("candidate") /\ DoesBuild("candidate") BY DEF DoesExport, DoesBuild
      <3>8. QED BY <3>3, <3>5, <3>6, <3>7 DEF Makes
    <2>3. QED BY <2>1, <2>2
  <1>2. CASE InstallPackages
    <2> USE <1>2 DEF InstallPackages
    <2>1. Moves("install") /\ Remembers(cmd) BY Reading
    <2>2. Frame("install") BY <2>1 DEF Frame, Remembers, Observe, Put, source, candidate, proof
    <2>3. DoesFinish("install") BY <2>1 DEF DoesFinish
    <2>4. DoesExport("install") /\ DoesBuild("install") BY DEF DoesExport, DoesBuild
    <2>5. QED BY <2>1, <2>2, <2>3, <2>4 DEF Makes
  <1>3. CASE WriteChecksum
    <2> USE <1>3 DEF WriteChecksum
    <2>1. Moves("checksum") /\ Remembers(cmd) BY Reading
    <2>2. Frame("checksum") BY <2>1 DEF Frame, Remembers, Observe, Put, source, candidate, proof
    <2>3. DoesFinish("checksum") BY <2>1 DEF DoesFinish, Put
    <2>4. DoesExport("checksum") /\ DoesBuild("checksum") BY DEF DoesExport, DoesBuild
    <2>5. QED BY <2>1, <2>2, <2>3, <2>4 DEF Makes
  <1>4. CASE WriteReport
    <2> USE <1>4 DEF WriteReport
    <2>1. Moves("report") /\ Remembers(cmd) BY Reading
    <2>2. Frame("report") BY <2>1 DEF Frame, Remembers, Observe, Put, source, candidate, proof
    <2>3. DoesFinish("report") BY <2>1 DEF DoesFinish, Put
    <2>4. DoesExport("report") /\ DoesBuild("report") BY DEF DoesExport, DoesBuild
    <2>5. QED BY <2>1, <2>2, <2>3, <2>4 DEF Makes
  <1>5. CASE SignChecksum
    <2> USE <1>5 DEF SignChecksum
    <2>1. CASE Releases[cmd.release].stage = "alpha"
      <3>0. Proceed(cmd) /\ Observe BY <2>1
      <3>1. Moves("sign") /\ Remembers(cmd) BY <3>0, Reading
      <3>2. Frame("sign") BY <3>0, <3>1 DEF Frame, Remembers, Observe, source, candidate, proof
      <3>3. DoesFinish("sign") BY <2>1, <3>0 DEF DoesFinish, Observe, candidate
      <3>4. DoesExport("sign") /\ DoesBuild("sign") BY DEF DoesExport, DoesBuild
      <3>5. QED BY <3>1, <3>2, <3>3, <3>4 DEF Makes
    <2>2. CASE Releases[cmd.release].stage # "alpha"
      <3>1. CASE Put("checksum_signature", cmd.release, dir["checksum"][cmd.release]) /\ Proceed(cmd)
        <4>0. UNCHANGED proof BY <2>2
        <4>1. Moves("sign") /\ Remembers(cmd) BY <3>1, Reading
        <4>2. Frame("sign") BY <3>1, <4>0, <4>1 DEF Frame, Remembers, Put, source, proof
        <4>3. DoesFinish("sign") BY <2>2, <3>1 DEF DoesFinish, Put
        <4>4. DoesExport("sign") /\ DoesBuild("sign") BY DEF DoesExport, DoesBuild
        <4>5. QED BY <4>1, <4>2, <4>3, <4>4 DEF Makes
      <3>2. CASE Put("checksum_signature", cmd.release, None) /\ cmd' = Idle
        <4>0. UNCHANGED proof BY <2>2
        <4>1. Moves("sign")
          <5>1. PICK name \in Commands : AtWork(name) /\ "sign" \in StepsOf(name) BY AtFacts DEF Commands
          <5>2. cmd.name = name BY <5>1, AtWorkFacts
          <5>3. "sign" \in Pending /\ \A s \in Pending : s = "sign" \/ Rank("sign") < Rank(s) BY AtFacts
          <5>4. QED BY <3>2, <5>1, <5>2, <5>3 DEF Moves
        <4>2. Frame("sign") BY <3>2, <4>0 DEF Frame, Put, source, proof
        <4>3. DoesFinish("sign") BY <2>2, <3>2 DEF DoesFinish, Put
        <4>4. DoesExport("sign") /\ DoesBuild("sign") BY DEF DoesExport, DoesBuild
        <4>5. QED BY <4>1, <4>2, <4>3, <4>4 DEF Makes
      <3>3. QED BY <2>2, <3>1, <3>2
    <2>3. QED BY <2>1, <2>2
  <1>6. CASE WriteSbom("cyclonedx_sbom")
    <2> USE <1>6 DEF WriteSbom
    <2>1. Moves("cyclonedx_sbom") /\ Remembers(cmd) BY Reading
    <2>2. Frame("cyclonedx_sbom") BY <2>1 DEF Frame, Remembers, Observe, Put, source, candidate, proof
    <2>3. DoesFinish("cyclonedx_sbom") BY <2>1 DEF DoesFinish, Put
    <2>4. DoesExport("cyclonedx_sbom") /\ DoesBuild("cyclonedx_sbom") BY DEF DoesExport, DoesBuild
    <2>5. QED BY <2>1, <2>2, <2>3, <2>4 DEF Makes
  <1>7. CASE WriteSbom("spdx_sbom")
    <2> USE <1>7 DEF WriteSbom
    <2>1. Moves("spdx_sbom") /\ Remembers(cmd) BY Reading
    <2>2. Frame("spdx_sbom") BY <2>1 DEF Frame, Remembers, Observe, Put, source, candidate, proof
    <2>3. DoesFinish("spdx_sbom") BY <2>1 DEF DoesFinish, Put
    <2>4. DoesExport("spdx_sbom") /\ DoesBuild("spdx_sbom") BY DEF DoesExport, DoesBuild
    <2>5. QED BY <2>1, <2>2, <2>3, <2>4 DEF Makes
  <1>8. CASE WriteEvidence
    <2> USE <1>8 DEF WriteEvidence
    <2>1. Moves("evidence") /\ Remembers(cmd) BY Reading
    <2>2. Frame("evidence") BY <2>1 DEF Frame, Remembers, Evidence, source, candidate, proof
    <2>3. DoesFinish("evidence") BY <2>1 DEF DoesFinish, Evidence
    <2>4. DoesExport("evidence") /\ DoesBuild("evidence") BY DEF DoesExport, DoesBuild
    <2>5. QED BY <2>1, <2>2, <2>3, <2>4 DEF Makes
  <1>9. QED BY <1>1, <1>2, <1>3, <1>4, <1>5, <1>6, <1>7, <1>8

\* Rendering, and what it makes of the command.
LEMMA RenderActs ==
  ASSUME CmdTyping, RenderFile, UNCHANGED scenario
  PROVE  Renders
  <1> USE DEF RenderFile
  <1>1. cmd.name = "render" /\ Proceed(cmd) OBVIOUS
  <1>2. cmd # Idle BY <1>1 DEF Idle
  <1>3. \A name \in Commands : ~AtWork(name) BY <1>1, AtWorkFacts DEF Commands
  <1>4. cmd \in Rendering /\ cmd.steps # << >> BY <1>2, <1>3 DEF CmdTyping, Commands
  <1>5. cmd' = Idle \/ (cmd' \in Rendering /\ cmd'.steps # << >> /\ cmd'.name = "render")
    <2>1. cmd.steps \in Seq(Rendered) BY <1>4 DEF Rendering
    <2>2. CASE Len(cmd.steps) = 1 BY <1>1, <2>2 DEF Proceed
    <2>3. CASE Len(cmd.steps) # 1
      <3>1. cmd' = [cmd EXCEPT !.steps = Tail(cmd.steps)] BY <1>1, <2>3 DEF Proceed
      <3>2. Tail(cmd.steps) \in Seq(Rendered) /\ Len(Tail(cmd.steps)) = Len(cmd.steps) - 1
            /\ Len(cmd.steps) \in Nat /\ Len(cmd.steps) # 0
        BY <1>4, <2>1, TailProperties
      <3>3. Tail(cmd.steps) # << >>
        <4>1. Len(Tail(cmd.steps)) # 0 BY <2>3, <3>2
        <4>2. QED BY <3>2, <4>1, EmptySeq
      <3>4. QED BY <1>4, <3>1, <3>2, <3>3 DEF Rendering
    <2>4. QED BY <2>2, <2>3
  <1>6. Unbegun' BY <1>5 DEF Unbegun, Commands, Idle
  <1>7. CmdTyping' BY <1>5 DEF CmdTyping
  <1>8. cmd'.name # "build" BY <1>5 DEF Idle
  <1>9. QED BY <1>1, <1>4, <1>6, <1>7, <1>8 DEF Renders

\* Rendering starts with something to render.
LEMMA RenderStarts ==
  ASSUME DataTyping, StartRender, UNCHANGED scenario
  PROVE  Starts
  <1> USE DEF StartRender
  <1>1. cmd' = [name |-> "render", release |-> Toml, steps |-> RenderOrder] OBVIOUS
  <1>2. RenderOrder \in Seq(Rendered) /\ RenderOrder # << >> BY DEF RenderOrder, Rendered
  <1>3. Toml \in Nat BY TreeParts
  <1>4. cmd' \in Rendering /\ cmd'.steps # << >> /\ cmd'.name = "render" BY <1>1, <1>2, <1>3 DEF Rendering
  <1>5. Unbegun' BY <1>4 DEF Unbegun, Commands
  <1>6. CmdTyping' BY <1>4 DEF CmdTyping
  <1>7. Prepares(cmd'.name) BY <1>4 DEF Prepares, proof
  <1>8. QED BY <1>5, <1>6, <1>7 DEF Starts, source, candidate, proof

\* The other commands start with all of their steps.
LEMMA CommandStarts ==
  ASSUME StartExport \/ StartRelease, UNCHANGED scenario
  PROVE  Starts
  <1>1. UNCHANGED <<source, export, candidate, reviews, bundle>>
    BY DEF StartExport, StartRelease, Start, Observe, source, candidate, proof
  <1>2. CASE StartExport
    <2>1. Started("export", StepsOf("export")) BY <1>2, ExportStarts
    <2>2. Unbegun' /\ CmdTyping' /\ ~Busy /\ cmd'.name = "export"
      BY <2>1 DEF Started, Unbegun, CmdTyping
    <2>3. UNCHANGED <<results, guest>> BY <1>2 DEF StartExport, Start, Observe, proof
    <2>4. Prepares(cmd'.name) BY <2>2, <2>3 DEF Prepares
    <2>5. QED BY <1>1, <2>2, <2>4 DEF Starts
  <1>3. CASE StartRelease
    <2>1. PICK name \in {"build", "artifacts"} :
            \E S \in SUBSET StepsOf(name) :
              StepsOf(name) \ {"evidence"} \subseteq S /\ Started(name, S) /\ Prepares(name)
      BY <1>3, ReleaseStarts
    <2>2. PICK S \in SUBSET StepsOf(name) :
            StepsOf(name) \ {"evidence"} \subseteq S /\ Started(name, S) /\ Prepares(name)
      BY <2>1
    <2>3. Unbegun' /\ CmdTyping' /\ ~Busy /\ cmd'.name = name BY <2>2 DEF Started, Unbegun, CmdTyping
    <2>4. QED BY <1>1, <2>2, <2>3 DEF Starts
  <1>4. QED BY <1>2, <1>3

\* The command is killed.
LEMMA CrashActs == ASSUME Crash, UNCHANGED scenario PROVE Fails
  BY DEF Crash, Fails, data

\* Every step is one of these.
LEMMA Acts ==
  ASSUME CmdTyping, DataTyping, [Next]_vars
  PROVE  Rests \/ Starts \/ Renders \/ Fails \/ \E step : Makes(step)
  <1>1. CASE UNCHANGED vars BY <1>1 DEF Rests, vars, candidate
  <1>2. CASE Next
    <2>0. UNCHANGED scenario BY <1>2 DEF Next
    <2>1. CASE Others
      <3>1. UNCHANGED <<cmd, export, candidate, proof>>
        BY <2>1 DEF Others, EditSource, NextRelease, GitCommit, GitRestore
      <3>2. QED BY <2>0, <2>1, <3>1 DEF Rests, candidate
    <2>2. CASE StartRender BY <2>0, <2>2, RenderStarts
    <2>3. CASE RenderFile BY <2>0, <2>3, RenderActs
    <2>4. CASE StartExport \/ StartRelease BY <2>0, <2>4, CommandStarts
    <2>5. CASE ExportIdentity \/ ExportDescription \/ ExportOverlay BY <2>0, <2>5, ExportActs
    <2>6. CASE VerifyExport BY <2>0, <2>6 DEF Rests, VerifyExport, candidate
    <2>7. CASE ReleaseCheck \/ ValidateSources \/ TreeIsClean \/ ObsHealth BY <2>0, <2>7, PreflightActs
    <2>8. CASE BuildSource \/ StageDescription \/ Kiwi BY <2>0, <2>8, KiwiActs
    <2>9. CASE InspectImage \/ ArchiveIso \/ ArchiveManifest \/ PlaceIso \/ ManifestStatus \/ WriteManifest
      BY <2>0, <2>9, PlaceActs
    <2>10. CASE TakeCandidate \/ InstallPackages \/ WriteChecksum \/ WriteReport \/ SignChecksum
                \/ WriteSbom("cyclonedx_sbom") \/ WriteSbom("spdx_sbom") \/ WriteEvidence
      BY <2>0, <2>10, FinishActs
    <2>11. CASE WriteEvidenceByHand
      <3>1. UNCHANGED <<cmd, candidate>> BY <2>11 DEF WriteEvidenceByHand, Evidence
      <3>2. QED BY <2>0, <2>11, <3>1 DEF Rests, candidate
    <2>12. CASE Prove
      <3>1. UNCHANGED <<cmd, candidate>> BY <2>12 DEF Prove, RunGate, ExtractGate, HardwareMatrix, BootCandidate, RecordResult, ReviewPackage, WriteI18nResult
      <3>2. QED BY <2>0, <2>12, <3>1 DEF Rests, candidate
    <2>13. CASE Crash BY <2>0, <2>13, CrashActs
    <2>14. (\E sbom \in {"cyclonedx_sbom", "spdx_sbom"} : WriteSbom(sbom))
             => WriteSbom("cyclonedx_sbom") \/ WriteSbom("spdx_sbom")
      OBVIOUS
    <2>15. QED
      BY <1>2, <2>1, <2>2, <2>3, <2>4, <2>5, <2>6, <2>7, <2>8, <2>9, <2>10, <2>11, <2>12, <2>13, <2>14
      DEF Next, Tree, Build, Finish
  <1>3. QED BY <1>1, <1>2

\* A command keeps its form.
LEMMA CmdTypingStep == CmdTyping /\ DataTyping /\ [Next]_vars => CmdTyping'
  <1> SUFFICES ASSUME CmdTyping, DataTyping, [Next]_vars PROVE CmdTyping'
    OBVIOUS
  <1>1. CASE Rests BY <1>1 DEF Rests, CmdTyping, AtWork, Tidy, Pending
  <1>2. CASE Fails BY <1>2 DEF Fails, CmdTyping
  <1>3. CASE \E step : Makes(step)
    <2>1. PICK step : Makes(step) BY <1>3
    <2>2. cmd' = Idle \/ (cmd'.name \in Commands /\ AtWork(cmd.name)') BY <2>1 DEF Makes, Moves
    <2>3. QED BY <2>2 DEF CmdTyping, Commands
  <1>4. QED BY <1>1, <1>2, <1>3, Acts DEF Starts, Renders

-----------------------------------------------------------------------------
(* What is done, before a step and after it.                               *)

\* After a step what was done is done, and the step.
LEMMA DoneIs ==
  ASSUME NEW step, Moves(step), NEW s
  PROVE  /\ Exporting(s)' => cmd' # Idle /\ (Exporting(s) \/ (cmd.name = "export" /\ s = step))
         /\ Building(s)' => cmd' # Idle /\ (Building(s) \/ (cmd.name = "build" /\ s = step))
         /\ Releasing(s)' => cmd' # Idle /\ (Releasing(s) \/ (cmd.name \in {"build", "artifacts"} /\ s = step))
         /\ cmd' # Idle => (s \in Pending' <=> (s \in Pending /\ s # step)) /\ cmd'.name = cmd.name
         /\ cmd' = Idle => Unbegun'
  <1>1. CASE cmd' = Idle
    <2>1. cmd'.name = "idle" BY <1>1 DEF Idle
    <2>2. QED BY <1>1, <2>1 DEF Exporting, Building, Releasing, Unbegun, Commands
  <1>2. CASE cmd' # Idle
    <2>1. cmd'.name = cmd.name /\ Pending' = Pending \ {step} BY <1>2 DEF Moves
    <2>2. QED BY <1>2, <2>1 DEF Exporting, Building, Releasing
  <1>3. QED BY <1>1, <1>2

\* A command that has not begun has done nothing.
LEMMA Undone ==
  ASSUME Unbegun'
  PROVE  /\ \A s \in StepsOf("export") : ~Exporting(s)'
         /\ \A s \in (ReleaseSteps \cup BuildSteps) \ {"evidence"} : ~Building(s)'
         /\ \A s \in ReleaseSteps \ {"evidence"} : ~Releasing(s)'
  <1>1. \A s \in StepsOf("export") : s # "evidence" BY StepsAre
  <1>2. \A s \in StepsOf("export") : ~Exporting(s)'
    <2> SUFFICES ASSUME NEW s \in StepsOf("export"), cmd'.name = "export" PROVE s \in Pending'
      BY DEF Exporting
    <2>1. StepsOf("export") \ {"evidence"} \subseteq Pending' BY DEF Unbegun, Commands
    <2>2. QED BY <1>1, <2>1
  <1>3. \A s \in (ReleaseSteps \cup BuildSteps) \ {"evidence"} : ~Building(s)'
    <2> SUFFICES ASSUME NEW s \in (ReleaseSteps \cup BuildSteps) \ {"evidence"}, cmd'.name = "build"
                 PROVE  s \in Pending'
      BY DEF Building
    <2>1. StepsOf("build") \ {"evidence"} \subseteq Pending' BY DEF Unbegun, Commands
    <2>2. QED BY <2>1, StepsAre
  <1>4. \A s \in ReleaseSteps \ {"evidence"} : ~Releasing(s)'
    <2> SUFFICES ASSUME NEW s \in ReleaseSteps \ {"evidence"}, cmd'.name \in {"build", "artifacts"}
                 PROVE  s \in Pending'
      BY DEF Releasing
    <2>1. StepsOf(cmd'.name) \ {"evidence"} \subseteq Pending' BY DEF Unbegun, Commands
    <2>2. QED BY <2>1, StepsAre
  <1>5. QED BY <1>2, <1>3, <1>4

\* The steps of lower rank are made, those of higher rank are not.
LEMMA Between ==
  ASSUME NEW step, Moves(step), NEW s \in StepsOf(cmd.name)
  PROVE  /\ Rank(s) < Rank(step) => s \notin Pending
         /\ Rank(step) < Rank(s) /\ s # "evidence" => s \in Pending
  <1>1. Rank(s) \in Nat /\ Rank(step) \in Nat BY RankIsNat
  <1>2. ASSUME Rank(s) < Rank(step), s \in Pending PROVE FALSE
    BY <1>1, <1>2 DEF Moves
  <1>3. ASSUME Rank(step) < Rank(s), s # "evidence" PROVE s \in Pending
    BY <1>3 DEF Moves, AtWork, Tidy
  <1>4. QED BY <1>2, <1>3

\* Whose steps they are.
LEMMA StepOwners ==
  ASSUME NEW step, Moves(step)
  PROVE  /\ step \in BuildSteps => cmd.name = "build"
         /\ step \in {"identity", "describe", "overlay"} => cmd.name = "export"
         /\ step \in ReleaseSteps \ {"validate"} => cmd.name \in {"build", "artifacts"}
         /\ cmd.name = "export" => step \in {"validate", "identity", "describe", "overlay"}
         /\ cmd.name = "artifacts" => step \in ReleaseSteps
         /\ cmd.name = "build" => step \in ReleaseSteps \cup BuildSteps
         /\ cmd.name \in {"export", "build", "artifacts"}
         /\ cmd.name = "build" => StepsOf(cmd.name) = ReleaseSteps \cup BuildSteps
         /\ cmd.name = "artifacts" => StepsOf(cmd.name) = ReleaseSteps
  <1>1. step \in StepsOf(cmd.name) /\ cmd.name \in {"export", "build", "artifacts"} BY DEF Moves, Commands
  <1>2. QED BY <1>1, StepsAre DEF ReleaseSteps, BuildSteps

\* The order of the steps of a build.
LEMMA BuildOrder ==
  ASSUME NEW step, Moves(step), NEW s \in BuildSteps
  PROVE  /\ step \in {"check", "validate", "clean", "health"} /\ cmd.name = "build" => s \in Pending
         /\ step \in {"candidate", "install", "checksum", "cyclonedx_sbom", "spdx_sbom", "report", "sign", "evidence"}
              /\ cmd.name = "build" => s \notin Pending
         /\ step = "source" => s \in Pending
         /\ step = "stage" => (s \in Pending <=> s # "source")
         /\ step = "kiwi" => (s \in Pending <=> s \notin {"source", "stage"})
         /\ step = "inspect" => (s \in Pending <=> s \notin {"source", "stage", "kiwi"})
         /\ step = "archive-iso" =>
              (s \in Pending <=> s \in {"archive-iso", "archive-manifest", "place", "status", "record"})
         /\ step = "archive-manifest" => (s \in Pending <=> s \in {"archive-manifest", "place", "status", "record"})
         /\ step = "place" => (s \in Pending <=> s \in {"place", "status", "record"})
         /\ step = "status" => (s \in Pending <=> s \in {"status", "record"})
         /\ step = "record" => (s \in Pending <=> s = "record")
  <1> USE DEF BuildSteps
  <1>0. step \in Pending /\ s # "evidence" BY DEF Moves
  <1>1. cmd.name = "build" => s \in StepsOf(cmd.name) BY StepOwners
  <1>2. step \in BuildSteps => cmd.name = "build" BY StepOwners
  <1>3. QED BY <1>0, <1>1, <1>2, Between, Ranks

\* The order of the steps around it.
LEMMA FinishOrder ==
  ASSUME NEW step, Moves(step), cmd.name \in {"build", "artifacts"}, NEW s \in ReleaseSteps, s # "evidence"
  PROVE  /\ step \in BuildSteps =>
              (s \in Pending <=> s \notin {"check", "validate", "clean", "health"})
         /\ step \in {"check", "validate", "clean", "health"} /\ s \notin {"check", "validate", "clean", "health"} =>
              s \in Pending
         /\ step = "check" => s \in Pending
         /\ step = "validate" => (s \in Pending <=> s # "check")
         /\ step = "clean" => (s \in Pending <=> s \notin {"check", "validate"})
         /\ step = "health" => (s \in Pending <=> s \notin {"check", "validate", "clean"})
         /\ step = "candidate" => (s \in Pending <=> s \notin {"check", "validate", "clean", "health"})
         /\ step = "install" =>
              (s \in Pending <=> s \in {"install", "checksum", "cyclonedx_sbom", "spdx_sbom", "report", "sign"})
         /\ step = "checksum" => (s \in Pending <=> s \in {"checksum", "cyclonedx_sbom", "spdx_sbom", "report", "sign"})
         /\ step = "cyclonedx_sbom" => (s \in Pending <=> s \in {"cyclonedx_sbom", "spdx_sbom", "report", "sign"})
         /\ step = "spdx_sbom" => (s \in Pending <=> s \in {"spdx_sbom", "report", "sign"})
         /\ step = "report" => (s \in Pending <=> s \in {"report", "sign"})
         /\ step = "sign" => (s \in Pending <=> s = "sign")
         /\ step = "evidence" => s \notin Pending
  <1> USE DEF BuildSteps, ReleaseSteps
  <1>1. step \in Pending BY DEF Moves
  <1>2. s \in StepsOf(cmd.name) BY StepOwners
  <1>3. QED BY <1>1, <1>2, Between, Ranks

\* The order of the steps of an export.
LEMMA ExportOrder ==
  ASSUME NEW step, Moves(step), cmd.name = "export"
  PROVE  /\ step = "validate" => {"identity", "describe", "overlay"} \subseteq Pending
         /\ step = "identity" => "validate" \notin Pending /\ {"describe", "overlay"} \subseteq Pending
         /\ step = "describe" => "validate" \notin Pending /\ "identity" \notin Pending /\ "overlay" \in Pending
         /\ step = "overlay" => "validate" \notin Pending /\ "identity" \notin Pending /\ "describe" \notin Pending
  <1>1. StepsOf(cmd.name) = {"validate", "identity", "describe", "overlay"} BY StepsAre
  <1>2. QED BY <1>1, Between, Ranks

-----------------------------------------------------------------------------
(* Types of the data.                                                      *)

\* What the steps write has its type.
LEMMA DescribesIs ==
  ASSUME NEW iso \in Nat, NEW packages \in Nat, NEW commit \in Nat, NEW dirty \in BOOLEAN
  PROVE  /\ Describes(iso, packages, commit, dirty) \in Description
         /\ Describes(iso, packages, commit, dirty) # None
         /\ Describes(iso, packages, commit, dirty).iso = iso
         /\ Describes(iso, packages, commit, dirty).packages = packages
         /\ Describes(iso, packages, commit, dirty).commit = commit
         /\ Describes(iso, packages, commit, dirty).dirty = dirty
  BY NoneAssumption DEF Describes, Description

\* The files of a role are described one by one.
LEMMA DirFacts ==
  ASSUME DataTyping, NEW role \in Roles
  PROVE  /\ dir[role] \in [DOMAIN Releases -> Description \cup {None}]
         /\ \A r \in DOMAIN Releases :
              dir[role][r] # None =>
                /\ dir[role][r] \in Description /\ dir[role][r].iso \in Nat /\ dir[role][r].packages \in Nat
                /\ dir[role][r].commit \in Nat /\ dir[role][r].dirty \in BOOLEAN
  <1>1. dir[role] \in [DOMAIN Releases -> Description \cup {None}] BY DEF DataTyping
  <1>2. QED BY <1>1 DEF Description

\* Every role is written by one step, some are also archived.
LEMMA RoleWrites ==
  ASSUME DataTyping, NEW step, Makes(step)
  PROVE  /\ step \notin {"archive-iso", "place"} => dir'["iso"] = dir["iso"]
         /\ step = "archive-iso" => dir'["iso"] = [r \in DOMAIN Releases |-> None]
         /\ step = "place" => dir'["iso"] = [dir["iso"] EXCEPT ![cmd.build] = Describes(work, 0, 0, FALSE)]
         /\ step \notin {"archive-manifest", "record"} => dir'["manifest"] = dir["manifest"]
         /\ step = "archive-manifest" =>
              dir'["manifest"] = [r \in DOMAIN Releases |-> IF r \in cmd.files THEN None ELSE dir["manifest"][r]]
         /\ step = "record" =>
              dir'["manifest"] = [dir["manifest"] EXCEPT ![cmd.build] =
                                   Describes(dir["iso"][cmd.build].iso, 0, Head_, cmd.dirty)]
         /\ step # "install" => dir'["packages"] = dir["packages"] /\ dir'["verified"] = dir["verified"]
         /\ step = "install" =>
              /\ dir'["packages"] = [dir["packages"] EXCEPT ![cmd.release] = Describes(0, work, 0, FALSE)]
              /\ dir'["verified"] = [dir["verified"] EXCEPT ![cmd.release] = Describes(0, work, 0, FALSE)]
         /\ step # "checksum" => dir'["checksum"] = dir["checksum"]
         /\ step = "checksum" =>
              dir'["checksum"] = [dir["checksum"] EXCEPT ![cmd.release] = Describes(ThisIso, 0, 0, FALSE)]
         /\ \A sbom \in {"cyclonedx_sbom", "spdx_sbom"} :
              /\ step # sbom => dir'[sbom] = dir[sbom]
              /\ step = sbom =>
                   dir'[sbom] = [dir[sbom] EXCEPT ![cmd.release] = Describes(0, ThesePackages, cmd.commit, FALSE)]
         /\ step # "report" => dir'["report"] = dir["report"]
         /\ step = "report" =>
              dir'["report"] = [dir["report"] EXCEPT ![cmd.release] =
                                 Describes(ThisIso, ThesePackages, cmd.commit, FALSE)]
         /\ step # "sign" => dir'["checksum_signature"] = dir["checksum_signature"]
         /\ step = "sign" =>
              IF Releases[cmd.release].stage = "alpha" THEN dir'["checksum_signature"] = dir["checksum_signature"]
              ELSE \E what \in {dir["checksum"][cmd.release], None} :
                     /\ dir'["checksum_signature"] = [dir["checksum_signature"] EXCEPT ![cmd.release] = what]
                     /\ cmd' # Idle => what = dir["checksum"][cmd.release]
         /\ DOMAIN dir' = Roles
  <1> USE DEF Makes, Frame, Roles
  <1>0. DOMAIN dir = Roles BY DEF DataTyping
  <1>1. CASE step \notin {"archive-iso", "archive-manifest", "place", "record", "install", "checksum",
                          "cyclonedx_sbom", "spdx_sbom", "report", "sign"}
    BY <1>0, <1>1
  <1>2. CASE step \in {"archive-iso", "archive-manifest", "place", "record"} BY <1>0, <1>2 DEF DoesBuild
  <1>3. CASE step = "install" BY <1>0, <1>3 DEF DoesFinish
  <1>7. CASE step = "checksum"
    <2>1. dir' = [dir EXCEPT !["checksum"][cmd.release] = Describes(ThisIso, 0, 0, FALSE)]
      BY <1>7 DEF DoesFinish
    <2>2. QED BY <1>0, <1>7, <2>1
  <1>8. CASE step = "report"
    <2>1. dir' = [dir EXCEPT !["report"][cmd.release] = Describes(ThisIso, ThesePackages, cmd.commit, FALSE)]
      BY <1>8 DEF DoesFinish
    <2>2. QED BY <1>0, <1>8, <2>1
  <1>4. CASE step \in {"cyclonedx_sbom", "spdx_sbom"}
    <2>1. dir' = [dir EXCEPT ![step][cmd.release] = Describes(0, ThesePackages, cmd.commit, FALSE)]
      BY <1>4 DEF DoesFinish
    <2>2. CASE step = "cyclonedx_sbom" BY <1>0, <2>1, <2>2
    <2>3. CASE step = "spdx_sbom" BY <1>0, <2>1, <2>3
    <2>4. QED BY <1>4, <2>2, <2>3
  <1>5. CASE step = "sign" BY <1>0, <1>5 DEF DoesFinish
  <1>6. QED BY <1>1, <1>2, <1>3, <1>4, <1>5, <1>7, <1>8

\* Two releases that follow one another.
LEMMA ReleasesFacts == Len(Releases) \in Nat /\ DOMAIN Releases = 1 .. Len(Releases)
  BY ReleasesAssumption

\* A tree with a file changed.
LEMMA TreeExcept ==
  ASSUME NEW t \in Version, NEW f \in Files, NEW v \in Nat,
         f = "release.toml" => v \in DOMAIN Releases
  PROVE  [t EXCEPT ![f] = v] \in Version
  <1>1. t \in [Files -> Nat] /\ t["release.toml"] \in DOMAIN Releases BY DEF Version
  <1>2. "release.toml" \in Files BY DEF Files
  <1>3. QED BY <1>1, <1>2 DEF Version

\* The tree, what is committed, and who may change them.
LEMMA SourceStep ==
  ASSUME CmdTyping, DataTyping, [Next]_vars
  PROVE  /\ UNCHANGED scenario
         /\ commits' = commits \/ commits' = Append(commits, tree)
         /\ Quiet /\ cmd.name \in Commands => UNCHANGED source
         /\ tree' \in Version
  <1>0. tree \in Version /\ scenario \in Scenario BY DEF DataTyping
  <1>1. CASE Starts BY <1>0, <1>1 DEF Starts, data, source
  <1>2. CASE Fails BY <1>0, <1>2 DEF Fails, data, source
  <1>3. CASE \E step : Makes(step) BY <1>0, <1>3 DEF Makes, Frame, source
  <1>4. CASE Renders
    <2>1. cmd.release \in Nat /\ Head(cmd.steps) \in Rendered
      BY <1>4, TailProperties DEF Renders, Rendering
    <2>2. Head(cmd.steps) \in Files /\ Head(cmd.steps) # "release.toml" BY <2>1 DEF Files, Rendered
    <2>3. tree' \in Version BY <1>0, <1>4, <2>1, <2>2, TreeExcept DEF Renders
    <2>4. QED BY <1>4, <2>3 DEF Renders, Commands
  <1>5. CASE Rests
    <2>0. UNCHANGED scenario BY <1>5 DEF Rests
    <2>1. CASE Others
      <3>0. Quiet => cmd = Idle
        BY <2>1 DEF Others, EditSource, NextRelease, GitCommit, GitRestore, Disturb, Busy, Quiet
      <3>1. Quiet => cmd.name \notin Commands BY <3>0 DEF Idle, Commands
      <3>2. CASE \E f \in Written : EditSource(f)
        <4>1. PICK f \in Written : EditSource(f) BY <3>2
        <4>2. f \in Files /\ f # "release.toml" BY DEF Files, Written
        <4>3. tree[f] + 1 \in Nat BY <4>2, TreeParts
        <4>4. tree' = [tree EXCEPT ![f] = tree[f] + 1] /\ UNCHANGED commits BY <4>1 DEF EditSource
        <4>5. tree' \in Version BY <1>0, <4>2, <4>3, <4>4, TreeExcept
        <4>6. QED BY <2>0, <3>1, <4>4, <4>5
      <3>3. CASE NextRelease
        <4>1. tree' = [tree EXCEPT !["release.toml"] = Toml + 1] /\ UNCHANGED commits /\ Toml < scenario.last
          BY <3>3 DEF NextRelease, Toml
        <4>2. scenario.last \in DOMAIN Releases BY <1>0 DEF Scenario
        <4>3. Toml + 1 \in DOMAIN Releases /\ Toml + 1 \in Nat BY <4>1, <4>2, TreeParts, ReleasesFacts
        <4>4. tree' \in Version BY <1>0, <4>1, <4>3, TreeExcept DEF Files
        <4>5. QED BY <2>0, <3>1, <4>1, <4>4
      <3>4. CASE GitCommit BY <1>0, <2>0, <3>1, <3>4 DEF GitCommit
      <3>5. CASE GitRestore BY <2>0, <3>1, <3>5, TreeParts DEF GitRestore
      <3>6. QED BY <2>1, <3>2, <3>3, <3>4, <3>5 DEF Others
    <2>2. CASE UNCHANGED source BY <1>0, <2>0, <2>2 DEF source
    <2>3. QED
      BY <1>5, <2>1, <2>2
      DEF Rests, VerifyExport, Prove, RunGate, ExtractGate, HardwareMatrix, BootCandidate, RecordResult, ReviewPackage, WriteI18nResult, WriteEvidenceByHand,
          Evidence, vars
  <1>6. QED BY <1>1, <1>2, <1>3, <1>4, <1>5, Acts

\* What is committed stays so.
LEMMA CommitsGrow ==
  ASSUME DataTyping, commits' = commits \/ commits' = Append(commits, tree)
  PROVE  /\ commits' \in Seq(Version) /\ commits' # << >>
         /\ DOMAIN commits \subseteq DOMAIN commits'
         /\ \A c \in DOMAIN commits : commits'[c] = commits[c]
  <1>0. tree \in Version /\ commits \in Seq(Version) /\ commits # << >> BY DEF DataTyping
  <1>1. CASE commits' = commits BY <1>0, <1>1
  <1>2. CASE commits' = Append(commits, tree)
    <2>1. /\ commits' \in Seq(Version) /\ Len(commits') = Len(commits) + 1
          /\ \A i \in 1 .. Len(commits) : commits'[i] = commits[i]
      BY <1>0, <1>2, AppendProperties
    <2>2. DOMAIN commits = 1 .. Len(commits) /\ DOMAIN commits' = 1 .. (Len(commits) + 1) /\ Len(commits) \in Nat
      BY <1>0, <2>1
    <2>3. commits' # << >> BY <2>1, <2>2, EmptySeq
    <2>4. QED BY <2>1, <2>2, <2>3
  <1>3. QED BY <1>1, <1>2

\* The images ever built stay, and the target directory has the last or none.
LEMMA ImagesStep ==
  ASSUME Inv, [Next]_vars
  PROVE  /\ images' \in Seq(Image) /\ work' \in 0 .. Len(images')
         /\ DOMAIN images \subseteq DOMAIN images'
         /\ \A i \in DOMAIN images : images'[i] = images[i]
         /\ UNCHANGED <<images, work>> \/ \E step \in {"stage", "kiwi"} : Makes(step)
  <1>0. /\ images \in Seq(Image) /\ work \in 0 .. Len(images) /\ Len(images) \in Nat
        /\ CmdTyping /\ DataTyping /\ CmdValues
    BY DEF Inv, DataTyping
  <1>1. UNCHANGED <<images, work>> \/ \E step \in {"stage", "kiwi"} : Makes(step)
    BY <1>0, Acts DEF Rests, Starts, Renders, Fails, Makes, Frame, data, candidate
  <1>2. CASE UNCHANGED <<images, work>> BY <1>0, <1>2
  <1>3. CASE Makes("stage") BY <1>0, <1>3 DEF Makes, DoesBuild
  <1>4. CASE Makes("kiwi")
    <2>1. PICK shipped \in [DOMAIN scenario.inventory -> 0 .. 2] :
            images' = Append(images, [files |-> cmd.files, commit |-> cmd.commit, shipped |-> shipped])
      BY <1>4 DEF Makes, DoesBuild
    <2>2. work' = Len(images) + 1 BY <1>4 DEF Makes, DoesBuild
    <2>3. Moves("kiwi") BY <1>4 DEF Makes
    <2>4. cmd.name = "build" /\ AtWork("build") BY <2>3, StepOwners DEF Moves, BuildSteps
    <2>5. "stage" \notin Pending /\ "kiwi" \in Pending BY <2>3, BuildOrder DEF BuildSteps
    <2>6. cmd.files \in [ImageFiles -> Nat] BY <1>0, <2>4, <2>5 DEF CmdValues, Building
    <2>7. cmd.commit \in Nat BY <2>4, AtWorkFacts DEF Commands
    <2> DEFINE image == [files |-> cmd.files, commit |-> cmd.commit, shipped |-> shipped]
    <2>8. image \in Image BY <2>6, <2>7 DEF Image
    <2> HIDE DEF image
    <2>9. /\ images' \in Seq(Image) /\ Len(images') = Len(images) + 1
          /\ \A i \in 1 .. Len(images) : images'[i] = images[i]
      BY <1>0, <2>1, <2>8, AppendProperties DEF image
    <2>10. DOMAIN images = 1 .. Len(images) /\ DOMAIN images' = 1 .. (Len(images) + 1) BY <1>0, <2>9
    <2>11. QED BY <1>0, <1>1, <2>2, <2>9, <2>10
  <1>5. QED BY <1>1, <1>2, <1>3, <1>4

\* What the finishing steps build on: the ISO of the release they took.
LEMMA TakenFacts ==
  ASSUME Inv, NEW step, Moves(step),
         step \in {"install", "checksum", "cyclonedx_sbom", "spdx_sbom", "report", "sign", "evidence"}
  PROVE  /\ cmd.name \in {"build", "artifacts"} /\ cmd.release \in DOMAIN Releases
         /\ Releasing("validate") /\ Releasing("clean") /\ Releasing("candidate")
         /\ work \in DOMAIN images /\ work \in Nat /\ cmd.commit \in Nat
         /\ dir["iso"][cmd.release] # None /\ dir["manifest"][cmd.release] # None
         /\ ThisIso \in Nat /\ ThisIso \in DOMAIN images
         /\ dir["manifest"][cmd.release].commit = cmd.commit
         /\ step # "install" => /\ Releasing("install") /\ ThesePackages = work
                                /\ dir["packages"][cmd.release] = Describes(0, work, 0, FALSE)
  <1>1. cmd.name \in {"build", "artifacts"} BY StepOwners DEF ReleaseSteps
  <1>2. /\ Releasing("validate") /\ Releasing("clean") /\ Releasing("candidate")
        /\ step # "install" => Releasing("install")
    BY <1>1, FinishOrder DEF Releasing, ReleaseSteps
  <1>3. cmd.release \in DOMAIN Releases BY <1>2 DEF Inv, CmdValues
  <1>4. /\ work # 0 /\ dir["iso"][cmd.release] # None /\ dir["manifest"][cmd.release] # None
        /\ dir["manifest"][cmd.release].commit = cmd.commit
        /\ step # "install" => dir["packages"][cmd.release] = Describes(0, work, 0, FALSE)
    BY <1>2 DEF Inv, FilesInv
  <1>5. work \in DOMAIN images /\ work \in Nat BY <1>4 DEF Inv, DataTyping
  <1>6. ThisIso \in DOMAIN images /\ ThisIso \in Nat
    <2>1. ThisIso \in DOMAIN images BY <1>3, <1>4 DEF Inv, DirTyping, ThisIso
    <2>2. images \in Seq(Image) BY DEF Inv, DataTyping
    <2>3. QED BY <2>1, <2>2
  <1>7. step # "install" => ThesePackages = work BY <1>4 DEF ThesePackages, Describes
  <1>8. cmd.commit \in Nat BY <1>1, AtWorkFacts DEF Moves, Commands
  <1>9. QED BY <1>1, <1>2, <1>3, <1>4, <1>5, <1>6, <1>7, <1>8

\* What a build has when it places the ISO and its manifest.
LEMMA PlacedFacts ==
  ASSUME Inv, NEW step, Moves(step), step \in {"place", "status", "record"}
  PROVE  /\ cmd.name = "build" /\ cmd.build \in DOMAIN Releases
         /\ work \in DOMAIN images /\ work \in Nat /\ Building("kiwi") /\ Building("source") /\ Building("archive-iso")
         /\ "install" \in Pending /\ "record" \in Pending
         /\ step = "place" => "place" \in Pending
         /\ step # "place" => Building("place") /\ dir["iso"][cmd.build] # None /\ dir["iso"][cmd.build].iso = work
         /\ step = "record" => Building("status")
         /\ cmd.dirty \in BOOLEAN
  <1>1. cmd.name = "build" BY StepOwners DEF BuildSteps
  <1>2. /\ Building("kiwi") /\ Building("source") /\ Building("archive-iso")
        /\ step # "place" => Building("place")
        /\ step = "record" => Building("status")
        /\ "record" \in Pending /\ (step = "place" => "place" \in Pending)
    BY <1>1, BuildOrder DEF Building, BuildSteps
  <1>3. "install" \in Pending BY <1>1, FinishOrder DEF BuildSteps, ReleaseSteps
  <1>4. cmd.build \in DOMAIN Releases /\ work # 0 BY <1>2 DEF Inv, CmdValues
  <1>5. work \in DOMAIN images /\ work \in Nat BY <1>4 DEF Inv, DataTyping
  <1>6. step # "place" => dir["iso"][cmd.build] # None /\ dir["iso"][cmd.build].iso = work
    BY <1>2 DEF Inv, CmdValues
  <1>7. cmd.dirty \in BOOLEAN BY <1>1, AtWorkFacts DEF Moves, Commands
  <1>8. QED BY <1>1, <1>2, <1>3, <1>4, <1>5, <1>6, <1>7

\* A directory with another entry.
LEMMA DirExcept ==
  ASSUME NEW d \in [Roles -> [DOMAIN Releases -> Description \cup {None}]],
         NEW role, NEW r, NEW what \in Description \cup {None}
  PROVE  [d EXCEPT ![role][r] = what] \in [Roles -> [DOMAIN Releases -> Description \cup {None}]]
  OBVIOUS

\* The directory keeps its type.
LEMMA DirStep ==
  ASSUME Inv, [Next]_vars
  PROVE  dir' \in [Roles -> [DOMAIN Releases -> Description \cup {None}]]
  <1>0. DataTyping /\ CmdTyping /\ dir \in [Roles -> [DOMAIN Releases -> Description \cup {None}]]
    BY DEF Inv, DataTyping
  <1>1. CASE UNCHANGED dir BY <1>0, <1>1
  <1>2. CASE \E step : Makes(step)
    <2>1. PICK step : Makes(step) BY <1>2
    <2>2. Moves(step) BY <2>1 DEF Makes
    <2>3. CASE step \in {"archive-iso", "archive-manifest"}
      <3>1. \E g \in [DOMAIN Releases -> Description \cup {None}] : \E role : dir' = [dir EXCEPT ![role] = g]
        <4>1. CASE step = "archive-iso"
          <5>1. dir' = [dir EXCEPT !["iso"] = [r \in DOMAIN Releases |-> None]]
            BY <2>1, <4>1 DEF Makes, DoesBuild
          <5>2. QED BY <5>1
        <4>2. CASE step = "archive-manifest"
          <5>1. dir' = [dir EXCEPT !["manifest"] =
                         [r \in DOMAIN Releases |-> IF r \in cmd.files THEN None ELSE dir["manifest"][r]]]
            BY <1>0, <2>1, <4>2 DEF Makes, DoesBuild, Roles
          <5>2. \A r \in DOMAIN Releases : dir["manifest"][r] \in Description \cup {None}
            BY <1>0 DEF Roles
          <5>3. [r \in DOMAIN Releases |-> IF r \in cmd.files THEN None ELSE dir["manifest"][r]]
                  \in [DOMAIN Releases -> Description \cup {None}]
            BY <5>2
          <5>4. QED BY <5>1, <5>3
        <4>3. QED BY <2>3, <4>1, <4>2
      <3>2. QED BY <1>0, <3>1
    <2>4. CASE step = "place"
      <3>1. Describes(work, 0, 0, FALSE) \in Description BY <2>2, <2>4, PlacedFacts, DescribesIs
      <3>2. dir' = [dir EXCEPT !["iso"][cmd.build] = Describes(work, 0, 0, FALSE)]
        BY <2>1, <2>4 DEF Makes, DoesBuild
      <3>3. QED BY <1>0, <3>1, <3>2, DirExcept
    <2>5. CASE step = "record"
      <3>1. Describes(dir["iso"][cmd.build].iso, 0, Head_, cmd.dirty) \in Description
        BY <1>0, <2>2, <2>5, PlacedFacts, DescribesIs, TreeParts
      <3>2. dir' = [dir EXCEPT !["manifest"][cmd.build] = Describes(dir["iso"][cmd.build].iso, 0, Head_, cmd.dirty)]
        BY <2>1, <2>5 DEF Makes, DoesBuild
      <3>3. QED BY <1>0, <3>1, <3>2, DirExcept
    <2>6. CASE step = "install"
      <3> DEFINE what == Describes(0, work, 0, FALSE)
      <3>1. what \in Description BY <2>2, <2>6, TakenFacts, DescribesIs
      <3>2. dir' = [dir EXCEPT !["packages"][cmd.release] = what, !["verified"][cmd.release] = what]
        BY <2>1, <2>6 DEF Makes, DoesFinish
      <3> HIDE DEF what
      <3>3. QED BY <1>0, <3>1, <3>2
    <2>7. CASE step = "checksum"
      <3>1. Describes(ThisIso, 0, 0, FALSE) \in Description BY <2>2, <2>7, TakenFacts, DescribesIs
      <3>2. dir' = [dir EXCEPT !["checksum"][cmd.release] = Describes(ThisIso, 0, 0, FALSE)]
        BY <2>1, <2>7 DEF Makes, DoesFinish
      <3>3. QED BY <1>0, <3>1, <3>2, DirExcept
    <2>8. CASE step \in {"cyclonedx_sbom", "spdx_sbom"}
      <3>1. Describes(0, ThesePackages, cmd.commit, FALSE) \in Description
        <4>1. ThesePackages \in Nat /\ cmd.commit \in Nat BY <2>2, <2>8, TakenFacts
        <4>2. QED BY <4>1, DescribesIs
      <3>2. dir' = [dir EXCEPT ![step][cmd.release] = Describes(0, ThesePackages, cmd.commit, FALSE)]
        BY <2>1, <2>8 DEF Makes, DoesFinish
      <3>3. QED BY <1>0, <3>1, <3>2, DirExcept
    <2>9. CASE step = "report"
      <3>1. Describes(ThisIso, ThesePackages, cmd.commit, FALSE) \in Description
        <4>1. step \in {"install", "checksum", "cyclonedx_sbom", "spdx_sbom", "report", "sign", "evidence"}
              /\ step # "install"
          BY <2>9
        <4>3. ThesePackages \in Nat /\ cmd.commit \in Nat /\ ThisIso \in Nat BY <2>2, <4>1, TakenFacts
        <4>2. QED BY <4>3, DescribesIs
      <3>2. dir' = [dir EXCEPT !["report"][cmd.release] = Describes(ThisIso, ThesePackages, cmd.commit, FALSE)]
        BY <2>1, <2>9 DEF Makes, DoesFinish
      <3>3. QED BY <1>0, <3>1, <3>2, DirExcept
    <2>10. CASE step = "sign"
      <3>1. cmd.release \in DOMAIN Releases BY <2>2, <2>10, TakenFacts
      <3>2. dir["checksum"][cmd.release] \in Description \cup {None} BY <1>0, <3>1 DEF Roles
      <3>3. \/ UNCHANGED dir
            \/ \E what \in {dir["checksum"][cmd.release], None} :
                 dir' = [dir EXCEPT !["checksum_signature"][cmd.release] = what]
        BY <2>1, <2>10 DEF Makes, DoesFinish
      <3>4. QED BY <1>0, <3>2, <3>3, DirExcept
    <2>11. CASE step \notin {"archive-iso", "archive-manifest", "place", "record", "install", "checksum",
                             "cyclonedx_sbom", "spdx_sbom", "report", "sign"}
      BY <1>0, <2>1, <2>11 DEF Makes, Frame
    <2>12. QED BY <2>3, <2>4, <2>5, <2>6, <2>7, <2>8, <2>9, <2>10, <2>11
  <1>3. QED BY <1>0, <1>1, <1>2, Acts DEF Rests, Starts, Renders, Fails, data, candidate

-----------------------------------------------------------------------------
(* Results and reviews.                                                    *)

\* The one file of a role.
LEMMA OneFacts ==
  ASSUME NEW role, One(role)
  PROVE  /\ TheName(role) \in DOMAIN Releases /\ dir[role][TheName(role)] # None
         /\ The(role) = dir[role][TheName(role)] /\ The(role) # None
         /\ \A r \in DOMAIN Releases : dir[role][r] # None => r = TheName(role)
  <1>1. IsFiniteSet(DOMAIN Releases)
    <2>1. Len(Releases) \in Nat /\ DOMAIN Releases = 1 .. Len(Releases) BY ReleasesFacts
    <2>2. IsFiniteSet(1 .. Len(Releases)) BY <2>1, FS_Interval
    <2>3. QED BY <2>1, <2>2
  <1>2. IsFiniteSet(Names(role)) BY <1>1, FS_Subset DEF Names
  <1>3. \E x : Names(role) = {x} BY <1>2, FS_Singleton DEF One
  <1>4. PICK x : Names(role) = {x} BY <1>3
  <1>5. TheName(role) \in Names(role) BY <1>4 DEF TheName
  <1>6. \A r \in Names(role) : r = TheName(role) BY <1>4, <1>5
  <1>7. QED BY <1>5, <1>6 DEF Names, The

\* The ISOs a result of a gate can be of: that of the test machine, and the one
\* there is.
Tested == ({guest} \ {0}) \cup {dir["iso"][r].iso : r \in Names("iso")}

\* The results are those of health, of a gate or of the localization, and they
\* are dropped before a build.
GateRan ==
  /\ cmd = Idle
  /\ \E t \in {"installer", "hardware-matrix"} : \E iso \in Tested : \E passed \in BOOLEAN :
       results' = [results EXCEPT ![t] = [iso |-> iso, passed |-> passed, shipped |-> << >>]]
  /\ UNCHANGED <<source, cmd, export, candidate, reviews, bundle, guest, scenario>>

Localized ==
  /\ cmd = Idle
  /\ \E given \in Reviews : WriteI18nResult(given)
  /\ UNCHANGED <<source, cmd, export, candidate, reviews, bundle, guest, scenario>>

Dropped ==
  /\ "fresh" \in scenario.careful /\ cmd = Idle /\ Unbegun' /\ Discard
  /\ UNCHANGED <<source, export, candidate, reviews, bundle, scenario>>

\* The test machine is made anew.
Booted ==
  /\ cmd = Idle
  /\ \E r \in Names("iso") : guest' = dir["iso"][r].iso
  /\ UNCHANGED <<source, cmd, export, candidate, reviews, results, bundle, scenario>>

\* What a gate does.
LEMMA GateSteps ==
  ASSUME DataTyping, UNCHANGED scenario, NEW t \in scenario.gates, RunGate(t)
  PROVE  GateRan \/ Booted
  <1>1. t \in {"installer", "hardware-matrix"} BY DEF DataTyping, Scenario
  <1>2. CASE ExtractGate
    <2>1. guest \in Tested BY <1>2 DEF ExtractGate, Tested
    <2>2. RecordResult("installer", guest, TRUE) BY <1>2 DEF ExtractGate
    <2>3. QED BY <2>1, <2>2 DEF GateRan, RecordResult, Busy
  <1>3. CASE \E r \in Names("iso") : BootCandidate(r) BY <1>3 DEF Booted, BootCandidate, Busy
  <1>4. CASE HardwareMatrix
    <2>1. PICK r \in Names("iso"), passed \in BOOLEAN : RecordResult("hardware-matrix", dir["iso"][r].iso, passed)
      BY <1>4 DEF HardwareMatrix
    <2>2. dir["iso"][r].iso \in Tested BY <2>1 DEF Tested
    <2>3. QED BY <2>1, <2>2 DEF GateRan, RecordResult, Busy
  <1>5. QED BY <1>2, <1>3, <1>4 DEF RunGate

\* Who writes results, and who makes the test machine.
LEMMA ResultsStep ==
  ASSUME CmdTyping, DataTyping, [Next]_vars
  PROVE  \/ UNCHANGED <<results, guest>> /\ (cmd'.name = "build" /\ "fresh" \in scenario.careful => cmd.name = "build")
         \/ Makes("health") \/ Dropped \/ GateRan \/ Localized \/ Booted
  <1>1. CASE Starts
    <2>1. cmd = Idle BY <1>1 DEF Starts, Busy
    <2>2. QED BY <1>1, <2>1 DEF Starts, Prepares, Dropped
  <1>2. CASE Renders
    <2>1. UNCHANGED <<results, guest>> BY <1>2 DEF Renders, proof
    <2>2. cmd'.name # "build" BY <1>2 DEF Renders
    <2>3. QED BY <2>1, <2>2
  <1>3. CASE Fails
    <2>1. UNCHANGED <<results, guest>> /\ cmd' = Idle BY <1>3 DEF Fails, data, proof
    <2>2. QED BY <2>1 DEF Idle
  <1>4. CASE \E step : Makes(step)
    <2>1. PICK step : Makes(step) BY <1>4
    <2>2. CASE step = "health" BY <2>1, <2>2
    <2>3. CASE step # "health"
      <3>1. UNCHANGED <<results, guest>> BY <2>1, <2>3 DEF Makes, Frame
      <3>2. cmd' = Idle \/ cmd'.name = cmd.name BY <2>1 DEF Makes, Moves
      <3>3. QED BY <3>1, <3>2 DEF Idle
    <2>4. QED BY <2>2, <2>3
  <1>5. CASE Rests
    <2>0. UNCHANGED <<cmd, scenario>> BY <1>5 DEF Rests
    <2>1. CASE Prove
      <3>1. CASE \E t \in scenario.gates : RunGate(t) BY <2>0, <3>1, GateSteps
      <3>2. CASE \E p \in DOMAIN scenario.inventory : ReviewPackage(p) BY <2>0, <3>2 DEF ReviewPackage
      <3>3. CASE \E given \in Reviews : WriteI18nResult(given)
        BY <2>0, <3>3 DEF Localized, WriteI18nResult, Busy
      <3>4. QED BY <2>1, <3>1, <3>2, <3>3 DEF Prove
    <2>2. CASE UNCHANGED <<results, guest>> BY <2>0, <2>2
    <2>3. QED BY <1>5, <2>1, <2>2 DEF Rests, VerifyExport, WriteEvidenceByHand, Evidence, proof, vars
  <1>6. QED BY <1>1, <1>2, <1>3, <1>4, <1>5, Acts

\* The shipped packages of an image.
LEMMA ShippedFacts ==
  ASSUME DataTyping, NEW i \in DOMAIN images
  PROVE  /\ images[i] \in Image /\ images[i].shipped \in [DOMAIN scenario.inventory -> 0 .. 2]
         /\ DOMAIN images[i].files = ImageFiles
  <1>1. images[i] \in Image BY DEF DataTyping
  <1>2. QED BY <1>1 DEF Image

\* Reviews are only added, of packages the release there is ships.
LEMMA ReviewsStep ==
  ASSUME Inv, [Next]_vars
  PROVE  /\ reviews' \in [DOMAIN scenario.inventory -> SUBSET Review]
         /\ \A p \in DOMAIN scenario.inventory : reviews[p] \subseteq reviews'[p]
  <1>0. CmdTyping /\ DataTyping /\ DirTyping /\ reviews \in [DOMAIN scenario.inventory -> SUBSET Review]
    BY DEF Inv, DataTyping
  <1>1. UNCHANGED reviews \/ \E p \in DOMAIN scenario.inventory : ReviewPackage(p)
    BY <1>0, Acts
    DEF Rests, Starts, Renders, Fails, Makes, Frame, data, proof, VerifyExport, Prove, RunGate, ExtractGate, HardwareMatrix, BootCandidate, RecordResult,
        WriteI18nResult, WriteEvidenceByHand, Evidence, vars
  <1>2. CASE UNCHANGED reviews BY <1>0, <1>2
  <1>3. CASE \E p \in DOMAIN scenario.inventory : ReviewPackage(p)
    <2>1. PICK p \in DOMAIN scenario.inventory : ReviewPackage(p) BY <1>3
    <2> DEFINE i == The("packages").packages
    <2>2. i \in DOMAIN images BY <1>0, <2>1, OneFacts DEF ReviewPackage, DirTyping
    <2>3. images[i].shipped[p] \in 0 .. 2 BY <1>0, <2>2, ShippedFacts
    <2>4. PICK passed \in BOOLEAN :
            reviews' = [reviews EXCEPT ![p] = @ \cup {[version |-> images[i].shipped[p], passed |-> passed]}]
      BY <2>1 DEF ReviewPackage
    <2> DEFINE review == [version |-> images[i].shipped[p], passed |-> passed]
    <2>5. review \in Review BY <2>3 DEF Review
    <2> HIDE DEF review
    <2>6. reviews' = [reviews EXCEPT ![p] = reviews[p] \cup {review}] BY <1>0, <2>4 DEF review
    <2>7. QED BY <1>0, <2>5, <2>6
  <1>4. QED BY <1>1, <1>2, <1>3

\* The data keep their types.
LEMMA DataTypingStep == Inv /\ [Next]_vars => DataTyping'
  <1> SUFFICES ASSUME Inv, [Next]_vars PROVE DataTyping'
    OBVIOUS
  <1>0. CmdTyping /\ DataTyping BY DEF Inv
  <1>1. UNCHANGED scenario /\ tree' \in Version BY <1>0, SourceStep
  <1>2. commits' \in Seq(Version) /\ commits' # << >> BY <1>0, SourceStep, CommitsGrow
  <1>3. images' \in Seq(Image) /\ work' \in 0 .. Len(images') BY ImagesStep
  <1>4. dir' \in [Roles -> [DOMAIN Releases -> Description \cup {None}]] BY DirStep
  <1>5. reviews' \in [DOMAIN scenario.inventory -> SUBSET Review] BY ReviewsStep
  <1>6. DOMAIN results' = ResultNames
    <2>0. DOMAIN results = ResultNames BY <1>0 DEF DataTyping
    <2>1. CASE UNCHANGED results BY <2>0, <2>1
    <2>2. CASE Makes("health") BY <2>0, <2>2 DEF Makes, DoesBuild
    <2>3. CASE GateRan BY <2>0, <2>3 DEF GateRan
    <2>4. CASE Localized BY <2>0, <2>4 DEF Localized, WriteI18nResult
    <2>5. CASE Dropped BY <2>0, <2>5 DEF Dropped, Discard
    <2>6. QED BY <1>0, <2>1, <2>2, <2>3, <2>4, <2>5, ResultsStep DEF Booted
  <1>7. Image' = Image /\ scenario' \in Scenario BY <1>0, <1>1 DEF Image, DataTyping
  <1>8. QED BY <1>1, <1>2, <1>3, <1>4, <1>5, <1>6, <1>7 DEF DataTyping

-----------------------------------------------------------------------------
(* The directory and what the command knows.                               *)

\* The command rests, begins or ends, or makes a step.
LEMMA Course ==
  ASSUME CmdTyping, DataTyping, [Next]_vars
  PROVE  \/ UNCHANGED <<cmd, images, work, dir>>
         \/ Unbegun' /\ UNCHANGED <<export, images, work, dir, reviews, bundle>>
         \/ \E step : Makes(step)
  <1>1. CASE Fails
    <2>1. cmd' = Idle BY <1>1 DEF Fails
    <2>2. Unbegun' BY <2>1 DEF Idle, Unbegun, Commands
    <2>3. QED BY <1>1, <2>2 DEF Fails, data, candidate, proof
  <1>2. QED BY <1>1, Acts DEF Rests, Starts, Renders, data, candidate, proof

\* Who gives the ISO its name.
LEMMA IsoWrites ==
  ASSUME DataTyping, NEW step, Makes(step)
  PROVE  /\ step \notin {"archive-iso", "place"} => dir'["iso"] = dir["iso"]
         /\ step = "archive-iso" => \A r \in DOMAIN Releases : dir'["iso"][r] = None
         /\ step = "place" =>
              /\ \A r \in DOMAIN Releases : r # cmd.build => dir'["iso"][r] = dir["iso"][r]
              /\ cmd.build \in DOMAIN Releases => dir'["iso"][cmd.build] = Describes(work, 0, 0, FALSE)
  <1>0. dir["iso"] \in [DOMAIN Releases -> Description \cup {None}] BY DirFacts DEF Roles
  <1>1. /\ step \notin {"archive-iso", "place"} => dir'["iso"] = dir["iso"]
        /\ step = "archive-iso" => dir'["iso"] = [r \in DOMAIN Releases |-> None]
        /\ step = "place" => dir'["iso"] = [dir["iso"] EXCEPT ![cmd.build] = Describes(work, 0, 0, FALSE)]
    BY RoleWrites
  <1>2. QED BY <1>0, <1>1

\* Who writes the build manifest (build-and-run-vm.sh, write_build_manifest).
LEMMA ManifestWrites ==
  ASSUME DataTyping, NEW step, Makes(step)
  PROVE  /\ step \notin {"archive-manifest", "record"} => dir'["manifest"] = dir["manifest"]
         /\ step = "archive-manifest" =>
              \A r \in DOMAIN Releases : dir'["manifest"][r] = None \/ dir'["manifest"][r] = dir["manifest"][r]
         /\ step = "record" =>
              /\ \A r \in DOMAIN Releases : r # cmd.build => dir'["manifest"][r] = dir["manifest"][r]
              /\ cmd.build \in DOMAIN Releases =>
                   dir'["manifest"][cmd.build] = Describes(dir["iso"][cmd.build].iso, 0, Head_, cmd.dirty)
  <1>0. dir["manifest"] \in [DOMAIN Releases -> Description \cup {None}] BY DirFacts DEF Roles
  <1>1. /\ step \notin {"archive-manifest", "record"} => dir'["manifest"] = dir["manifest"]
        /\ step = "archive-manifest" =>
             dir'["manifest"] = [r \in DOMAIN Releases |-> IF r \in cmd.files THEN None ELSE dir["manifest"][r]]
        /\ step = "record" =>
             dir'["manifest"] = [dir["manifest"] EXCEPT ![cmd.build] =
                                  Describes(dir["iso"][cmd.build].iso, 0, Head_, cmd.dirty)]
    BY RoleWrites
  <1>2. QED BY <1>0, <1>1

\* Who writes the packages of a release (build-desktop-alpha6.sh).
LEMMA PackagesWrites ==
  ASSUME DataTyping, NEW step, Makes(step)
  PROVE  /\ step # "install" => dir'["packages"] = dir["packages"]
         /\ step = "install" =>
              /\ \A r \in DOMAIN Releases : r # cmd.release => dir'["packages"][r] = dir["packages"][r]
              /\ cmd.release \in DOMAIN Releases => dir'["packages"][cmd.release] = Describes(0, work, 0, FALSE)
  <1>0. dir["packages"] \in [DOMAIN Releases -> Description \cup {None}] BY DirFacts DEF Roles
  <1>1. /\ step # "install" => dir'["packages"] = dir["packages"]
        /\ step = "install" =>
             dir'["packages"] = [dir["packages"] EXCEPT ![cmd.release] = Describes(0, work, 0, FALSE)]
    BY RoleWrites
  <1>2. QED BY <1>0, <1>1

\* An ISO and a packages list are those of a build.
LEMMA DirTypingStep == Inv /\ [Next]_vars => DirTyping'
  <1> SUFFICES ASSUME Inv, [Next]_vars, NEW r \in DOMAIN Releases
               PROVE  /\ dir'["iso"][r] # None => dir'["iso"][r].iso \in DOMAIN images'
                      /\ dir'["packages"][r] # None => dir'["packages"][r].packages \in DOMAIN images'
    BY DEF DirTyping
  <1>0. CmdTyping /\ DataTyping /\ DirTyping BY DEF Inv
  <1>1. DOMAIN images \subseteq DOMAIN images' BY ImagesStep
  <1>2. CASE UNCHANGED dir BY <1>0, <1>1, <1>2 DEF DirTyping
  <1>3. CASE \E step : Makes(step)
    <2>1. PICK step : Makes(step) BY <1>3
    <2>2. Moves(step) BY <2>1 DEF Makes
    <2>3. dir'["iso"][r] # None => dir'["iso"][r].iso \in DOMAIN images'
      <3>1. CASE step = "archive-iso" BY <1>0, <2>1, <3>1, IsoWrites
      <3>2. CASE step = "place"
        <4>1. cmd.build \in DOMAIN Releases /\ work \in DOMAIN images /\ work \in Nat
          BY <2>2, <3>2, PlacedFacts
        <4>2. r # cmd.build => dir'["iso"][r] = dir["iso"][r] BY <1>0, <2>1, <3>2, IsoWrites
        <4>3. dir'["iso"][cmd.build] = Describes(work, 0, 0, FALSE) BY <1>0, <2>1, <3>2, <4>1, IsoWrites
        <4>4. dir'["iso"][cmd.build].iso = work BY <4>3 DEF Describes
        <4>5. QED BY <1>0, <1>1, <4>1, <4>2, <4>4 DEF DirTyping
      <3>3. CASE step \notin {"archive-iso", "place"} BY <1>0, <1>1, <2>1, <3>3, IsoWrites DEF DirTyping
      <3>4. QED BY <3>1, <3>2, <3>3
    <2>4. dir'["packages"][r] # None => dir'["packages"][r].packages \in DOMAIN images'
      <3>1. CASE step = "install"
        <4>1. cmd.release \in DOMAIN Releases /\ work \in DOMAIN images /\ work \in Nat
          BY <2>2, <3>1, TakenFacts
        <4>2. r # cmd.release => dir'["packages"][r] = dir["packages"][r] BY <1>0, <2>1, <3>1, PackagesWrites
        <4>3. dir'["packages"][cmd.release] = Describes(0, work, 0, FALSE)
          BY <1>0, <2>1, <3>1, <4>1, PackagesWrites
        <4>4. dir'["packages"][cmd.release].packages = work BY <4>3 DEF Describes
        <4>5. QED BY <1>0, <1>1, <4>1, <4>2, <4>4 DEF DirTyping
      <3>2. CASE step # "install"
        <4>1. dir'["packages"] = dir["packages"] BY <1>0, <2>1, <3>2, PackagesWrites
        <4>2. QED BY <1>0, <1>1, <4>1 DEF DirTyping
      <3>3. QED BY <3>1, <3>2
    <2>5. QED BY <2>3, <2>4
  <1>4. QED BY <1>0, <1>2, <1>3, Course

\* What the command remembers is what its steps read.
LEMMA CmdValuesStep == Inv /\ [Next]_vars => CmdValues'
  <1> SUFFICES ASSUME Inv, [Next]_vars PROVE CmdValues'
    OBVIOUS
  <1>0. CmdTyping /\ DataTyping /\ CmdValues BY DEF Inv
  <1>1. CASE UNCHANGED <<cmd, images, work, dir>>
    BY <1>0, <1>1 DEF CmdValues, Exporting, Building, Releasing, Pending
  <1>2. CASE Unbegun'
    <2>1. /\ ~Exporting("validate")' /\ ~Exporting("describe")'
          /\ ~Releasing("validate")'
          /\ ~Building("source")' /\ ~Building("stage")' /\ ~Building("archive-iso")' /\ ~Building("kiwi")'
          /\ ~Building("place")'
      BY <1>2, Undone, StepsAre DEF ReleaseSteps, BuildSteps
    <2>2. QED BY <2>1 DEF CmdValues
  <1>3. CASE \E step : Makes(step)
    <2>1. PICK step : Makes(step) BY <1>3
    <2>2. Moves(step) /\ Frame(step) /\ DoesExport(step) /\ DoesBuild(step) BY <2>1 DEF Makes
    <2>3. Exporting("validate")' \/ Releasing("validate")' => cmd'.release \in DOMAIN Releases
      <3>1. CASE step = "validate" BY <1>0, <2>2, <3>1, DoneIs, TreeParts DEF DoesExport
      <3>2. CASE step # "validate" BY <1>0, <2>2, <3>2, DoneIs DEF Frame, CmdValues
      <3>3. QED BY <3>1, <3>2
    <2>4. Exporting("describe")' => cmd'.files \in [Described -> Nat]
      <3>0. Exporting("describe")' => cmd.name = "export" /\ cmd' # Idle BY <2>2, DoneIs DEF Exporting
      <3>1. CASE step = "describe" BY <1>0, <2>2, <3>1, DoneIs, TreeParts DEF DoesExport
      <3>2. CASE step # "describe" BY <1>0, <2>2, <3>0, <3>2, DoneIs, StepOwners DEF Frame, CmdValues
      <3>3. QED BY <3>1, <3>2
    <2>5. Building("source")' => cmd'.build \in DOMAIN Releases
      <3>1. CASE step = "source" BY <1>0, <2>2, <3>1, DoneIs, TreeParts DEF DoesBuild
      <3>2. CASE step # "source" BY <1>0, <2>2, <3>2, DoneIs DEF Frame, CmdValues
      <3>3. QED BY <3>1, <3>2
    <2>6. Building("stage")' /\ "kiwi" \in Pending' => cmd'.files \in [ImageFiles -> Nat]
      <3> SUFFICES ASSUME Building("stage")', "kiwi" \in Pending' PROVE cmd'.files \in [ImageFiles -> Nat]
        OBVIOUS
      <3>0. cmd' # Idle /\ cmd.name = "build" /\ "kiwi" \in Pending /\ step # "kiwi"
        BY <2>2, DoneIs DEF Building
      <3>1. CASE step = "stage" BY <1>0, <2>2, <3>1, TreeParts DEF DoesBuild
      <3>2. CASE step = "archive-iso" BY <2>2, <3>0, <3>2, BuildOrder DEF BuildSteps
      <3>3. CASE step \notin {"stage", "archive-iso"}
        <4>1. Building("stage") BY <2>2, <3>3, DoneIs
        <4>2. step # "describe" BY <2>2, <3>0, StepOwners
        <4>3. cmd'.files = cmd.files BY <2>2, <3>0, <3>3, <4>2 DEF Frame
        <4>4. QED BY <1>0, <3>0, <4>1, <4>3 DEF CmdValues
      <3>4. QED BY <3>1, <3>2, <3>3
    <2>7. Building("archive-iso")' /\ "archive-manifest" \in Pending' => cmd'.files \subseteq DOMAIN Releases
      <3> SUFFICES ASSUME Building("archive-iso")', "archive-manifest" \in Pending'
                   PROVE  cmd'.files \subseteq DOMAIN Releases
        OBVIOUS
      <3>0. cmd' # Idle /\ cmd.name = "build" /\ "archive-manifest" \in Pending
        BY <2>2, DoneIs DEF Building
      <3>1. CASE step = "archive-iso" BY <1>0, <2>2, <3>1 DEF DoesBuild
      <3>2. CASE step # "archive-iso"
        <4>1. Building("archive-iso") BY <2>2, <3>2, DoneIs
        <4>2. step \notin {"describe", "stage"} BY <2>2, <3>0, <4>1, StepOwners, BuildOrder DEF Building, BuildSteps
        <4>3. cmd'.files = cmd.files BY <2>2, <3>0, <3>2, <4>2 DEF Frame
        <4>4. QED BY <1>0, <3>0, <4>1, <4>3 DEF CmdValues
      <3>3. QED BY <3>1, <3>2
    <2>8. Building("kiwi")' => work' # 0
      <3> SUFFICES ASSUME Building("kiwi")' PROVE work' # 0
        OBVIOUS
      <3>1. CASE step = "kiwi"
        <4>1. work' = Len(images) + 1 BY <2>2, <3>1 DEF DoesBuild
        <4>2. Len(images) \in Nat BY <1>0 DEF DataTyping
        <4>3. QED BY <4>1, <4>2
      <3>2. CASE step # "kiwi"
        <4>1. Building("kiwi") BY <2>2, <3>2, DoneIs
        <4>2. step # "stage" BY <2>2, <4>1, BuildOrder DEF Building, BuildSteps
        <4>3. work' = work BY <2>2, <3>2, <4>2 DEF Frame
        <4>4. QED BY <1>0, <4>1, <4>3 DEF CmdValues
      <3>3. QED BY <3>1, <3>2
    <2>9. Building("place")' => dir'["iso"][cmd'.build] # None /\ dir'["iso"][cmd'.build].iso = work'
      <3> SUFFICES ASSUME Building("place")'
                   PROVE  dir'["iso"][cmd'.build] # None /\ dir'["iso"][cmd'.build].iso = work'
        OBVIOUS
      <3>0. cmd' # Idle /\ cmd.name = "build" BY <2>2, DoneIs DEF Building
      <3>1. CASE step = "place"
        <4>1. cmd.build \in DOMAIN Releases /\ work \in Nat BY <2>2, <3>1, PlacedFacts
        <4>2. dir'["iso"][cmd.build] = Describes(work, 0, 0, FALSE) BY <1>0, <2>1, <3>1, <4>1, IsoWrites
        <4>3. cmd'.build = cmd.build /\ work' = work BY <2>2, <3>0, <3>1 DEF Frame
        <4>4. Describes(work, 0, 0, FALSE).iso = work BY DEF Describes
        <4>5. Describes(work, 0, 0, FALSE) # None
          <5>1. work \in Nat BY <4>1
          <5>2. Describes(work, 0, 0, FALSE) \in Description BY <5>1 DEF Describes, Description
          <5>3. QED BY <5>2, NoneAssumption
        <4>6. QED BY <4>2, <4>3, <4>4, <4>5
      <3>2. CASE step # "place"
        <4>1. Building("place") BY <2>2, <3>2, DoneIs
        <4>2. step \notin {"source", "stage", "kiwi", "archive-iso"}
          BY <2>2, <4>1, BuildOrder DEF Building, BuildSteps
        <4>3. cmd'.build = cmd.build /\ work' = work BY <2>2, <3>0, <4>2 DEF Frame
        <4>4. dir'["iso"] = dir["iso"] BY <1>0, <2>1, <3>2, <4>2, IsoWrites
        <4>5. QED BY <1>0, <4>1, <4>3, <4>4 DEF CmdValues
      <3>3. QED BY <3>1, <3>2
    <2>10. QED BY <2>3, <2>4, <2>5, <2>6, <2>7, <2>8, <2>9 DEF CmdValues
  <1>4. QED BY <1>0, <1>1, <1>2, <1>3, Course

-----------------------------------------------------------------------------
(* One ISO, and what was written for it.                                   *)

\* There is one ISO at most: the old ones are archived before the new one is
\* placed.
LEMMA IsoInvStep == Inv /\ [Next]_vars => IsoInv'
  <1> SUFFICES ASSUME Inv, [Next]_vars PROVE IsoInv'
    OBVIOUS
  <1>0. CmdTyping /\ DataTyping /\ IsoInv BY DEF Inv
  <1>1. CASE UNCHANGED <<cmd, images, work, dir>> BY <1>0, <1>1 DEF IsoInv, Building, Pending
  <1>2. CASE Unbegun' /\ UNCHANGED dir
    <2>1. ~Building("archive-iso")' BY <1>2, Undone DEF ReleaseSteps, BuildSteps
    <2>2. QED BY <1>0, <1>2, <2>1 DEF IsoInv
  <1>3. CASE \E step : Makes(step)
    <2>1. PICK step : Makes(step) BY <1>3
    <2>2. Moves(step) BY <2>1 DEF Makes
    <2>3. CASE step = "archive-iso"
      <3>1. \A r \in DOMAIN Releases : dir'["iso"][r] = None BY <1>0, <2>1, <2>3, IsoWrites
      <3>2. QED BY <3>1 DEF IsoInv
    <2>4. CASE step = "place"
      <3>1. /\ Building("archive-iso") /\ "place" \in Pending /\ cmd.build \in DOMAIN Releases
        BY <2>2, <2>4, PlacedFacts
      <3>2. \A r \in DOMAIN Releases : dir["iso"][r] = None BY <1>0, <3>1 DEF IsoInv
      <3>3. \A r \in DOMAIN Releases : r # cmd.build => dir'["iso"][r] = None
        BY <1>0, <2>1, <2>4, <3>2, IsoWrites
      <3>4. ~(Building("archive-iso")' /\ "place" \in Pending') BY <2>2, <2>4, DoneIs
      <3>5. QED BY <3>3, <3>4 DEF IsoInv
    <2>5. CASE step \notin {"archive-iso", "place"}
      <3>1. dir'["iso"] = dir["iso"] BY <1>0, <2>1, <2>5, IsoWrites
      <3>2. Building("archive-iso")' /\ "place" \in Pending' => Building("archive-iso") /\ "place" \in Pending
        BY <2>2, <2>5, DoneIs
      <3>3. QED BY <1>0, <3>1, <3>2 DEF IsoInv
    <2>6. QED BY <2>3, <2>4, <2>5
  <1>4. QED BY <1>0, <1>1, <1>2, <1>3, Course

FinishSteps == {"install", "checksum", "cyclonedx_sbom", "spdx_sbom", "report", "sign", "evidence"}

\* When a finishing step is made, the command makes a later one.
LEMMA Finishing ==
  ASSUME Inv, NEW step, Moves(step), NEW s, Releasing(s),
         s \in {"candidate", "install", "checksum", "cyclonedx_sbom", "spdx_sbom", "report", "sign"}
  PROVE  /\ step \in FinishSteps /\ Releasing("candidate")
         /\ s = "sign" => step = "evidence"
  <1>1. cmd.name \in {"build", "artifacts"} /\ s \notin Pending BY DEF Releasing
  <1>2. step \in ReleaseSteps \cup BuildSteps BY <1>1, StepOwners
  <1>3. s \in ReleaseSteps /\ s # "evidence" BY DEF ReleaseSteps
  <1>4. step \in FinishSteps /\ (s = "sign" => step = "evidence")
    <2>1. step \notin BuildSteps /\ step \notin {"check", "validate", "clean", "health"} /\ step # "candidate"
      BY <1>1, <1>3, FinishOrder
    <2>2. step \in FinishSteps BY <1>2, <2>1 DEF ReleaseSteps, FinishSteps
    <2>3. QED BY <1>1, <1>3, <2>2, FinishOrder DEF FinishSteps
  <1>5. Releasing("candidate") BY <1>4, TakenFacts DEF FinishSteps
  <1>6. QED BY <1>4, <1>5

\* What a finishing step leaves as it is.
LEMMA FinishKeeps ==
  ASSUME Inv, NEW step \in FinishSteps, Makes(step)
  PROVE  /\ dir'["iso"] = dir["iso"] /\ dir'["manifest"] = dir["manifest"]
         /\ UNCHANGED <<images, work, source, reviews, results, scenario, export>>
         /\ cmd' # Idle => cmd'.release = cmd.release /\ cmd'.commit = cmd.commit
         /\ step # "install" => dir'["packages"] = dir["packages"]
         /\ step # "checksum" => dir'["checksum"] = dir["checksum"]
         /\ \A sbom \in {"cyclonedx_sbom", "spdx_sbom"} : step # sbom => dir'[sbom] = dir[sbom]
         /\ step # "report" => dir'["report"] = dir["report"]
         /\ step # "sign" => dir'["checksum_signature"] = dir["checksum_signature"]
  <1>0. DataTyping BY DEF Inv
  <1>1. Frame(step) BY DEF Makes
  <1>2. /\ dir'["iso"] = dir["iso"] /\ dir'["manifest"] = dir["manifest"]
        /\ step # "install" => dir'["packages"] = dir["packages"]
        /\ step # "checksum" => dir'["checksum"] = dir["checksum"]
        /\ step # "report" => dir'["report"] = dir["report"]
        /\ step # "sign" => dir'["checksum_signature"] = dir["checksum_signature"]
    BY <1>0, RoleWrites DEF FinishSteps
  <1>3. ASSUME NEW sbom \in {"cyclonedx_sbom", "spdx_sbom"}, step # sbom
        PROVE  dir'[sbom] = dir[sbom]
    <2>1. step # "cyclonedx_sbom" => dir'["cyclonedx_sbom"] = dir["cyclonedx_sbom"] BY <1>0, RoleWrites
    <2>2. step # "spdx_sbom" => dir'["spdx_sbom"] = dir["spdx_sbom"] BY <1>0, RoleWrites
    <2>3. QED BY <1>3, <2>1, <2>2
  <1>4. /\ UNCHANGED <<images, work, source, reviews, results, scenario, export>>
        /\ cmd' # Idle => cmd'.release = cmd.release /\ cmd'.commit = cmd.commit
    BY <1>1 DEF Frame, FinishSteps
  <1>5. QED BY <1>2, <1>3, <1>4

\* What a finishing step writes.
LEMMA FinishWrites ==
  ASSUME Inv, NEW step \in FinishSteps, Makes(step), cmd' # Idle
  PROVE  LET r == cmd.release IN
         /\ step = "install" => dir'["packages"][r] = Describes(0, work, 0, FALSE)
         /\ step = "checksum" => dir'["checksum"][r] = Describes(dir["iso"][r].iso, 0, 0, FALSE)
         /\ \A sbom \in {"cyclonedx_sbom", "spdx_sbom"} :
              step = sbom => dir'[sbom][r] = Describes(0, work, cmd.commit, FALSE)
         /\ step = "report" => dir'["report"][r] = Describes(dir["iso"][r].iso, work, cmd.commit, FALSE)
         /\ step = "sign" /\ Releases[r].stage # "alpha" => dir'["checksum_signature"][r] = dir["checksum"][r]
  <1> DEFINE r == cmd.release
  <1>0. DataTyping /\ Moves(step) BY DEF Inv, Makes
  <1>1. r \in DOMAIN Releases /\ (step # "install" => ThesePackages = work)
    BY <1>0, TakenFacts DEF FinishSteps
  <1>2. step = "install" => dir'["packages"][r] = Describes(0, work, 0, FALSE)
    BY <1>0, <1>1, PackagesWrites
  <1>3. step = "checksum" => dir'["checksum"][r] = Describes(dir["iso"][r].iso, 0, 0, FALSE)
    <2>1. step = "checksum" =>
            dir'["checksum"] = [dir["checksum"] EXCEPT ![r] = Describes(ThisIso, 0, 0, FALSE)]
      BY <1>0, RoleWrites
    <2>2. dir["checksum"] \in [DOMAIN Releases -> Description \cup {None}] BY <1>0, DirFacts DEF Roles
    <2>3. QED BY <1>1, <2>1, <2>2 DEF ThisIso
  <1>4. ASSUME NEW sbom \in {"cyclonedx_sbom", "spdx_sbom"}, step = sbom
        PROVE  dir'[sbom][r] = Describes(0, work, cmd.commit, FALSE)
    <2>1. dir'[sbom] = [dir[sbom] EXCEPT ![r] = Describes(0, ThesePackages, cmd.commit, FALSE)]
      BY <1>0, <1>4, RoleWrites
    <2>2. dir[sbom] \in [DOMAIN Releases -> Description \cup {None}] BY <1>0, DirFacts DEF Roles
    <2>3. QED BY <1>1, <1>4, <2>1, <2>2
  <1>5. step = "report" => dir'["report"][r] = Describes(dir["iso"][r].iso, work, cmd.commit, FALSE)
    <2>1. step = "report" =>
            dir'["report"] = [dir["report"] EXCEPT ![r] = Describes(ThisIso, ThesePackages, cmd.commit, FALSE)]
      BY <1>0, RoleWrites
    <2>2. dir["report"] \in [DOMAIN Releases -> Description \cup {None}] BY <1>0, DirFacts DEF Roles
    <2>3. QED BY <1>1, <2>1, <2>2 DEF ThisIso
  <1>6. step = "sign" /\ Releases[r].stage # "alpha" => dir'["checksum_signature"][r] = dir["checksum"][r]
    <2>1. step = "sign" /\ Releases[r].stage # "alpha" =>
            \E what \in {dir["checksum"][r], None} :
              /\ dir'["checksum_signature"] = [dir["checksum_signature"] EXCEPT ![r] = what]
              /\ cmd' # Idle => what = dir["checksum"][r]
      BY <1>0, RoleWrites
    <2>2. dir["checksum_signature"] \in [DOMAIN Releases -> Description \cup {None}]
      BY <1>0, DirFacts DEF Roles
    <2>3. QED BY <1>1, <2>1, <2>2
  <1>7. QED BY <1>2, <1>3, <1>4, <1>5, <1>6

\* What a release command wrote is still there while it runs.
LEMMA FilesInvStep == Inv /\ [Next]_vars => FilesInv'
  <1> SUFFICES ASSUME Inv, [Next]_vars PROVE FilesInv'
    OBVIOUS
  <1>0. CmdTyping /\ DataTyping /\ FilesInv BY DEF Inv
  <1>1. CASE UNCHANGED <<cmd, images, work, dir>>
    <2>1. \A s : Releasing(s)' <=> Releasing(s) BY <1>1 DEF Releasing, Pending
    <2>2. QED BY <1>0, <1>1, <2>1 DEF FilesInv
  <1>2. CASE Unbegun'
    <2>1. /\ ~Releasing("candidate")' /\ ~Releasing("install")' /\ ~Releasing("checksum")'
          /\ ~Releasing("cyclonedx_sbom")' /\ ~Releasing("spdx_sbom")' /\ ~Releasing("report")'
          /\ ~Releasing("sign")'
      BY <1>2, Undone DEF ReleaseSteps
    <2>2. QED BY <2>1 DEF FilesInv
  <1>3. CASE \E step : Makes(step)
    <2>1. PICK step : Makes(step) BY <1>3
    <2>2. Moves(step) /\ Frame(step) /\ DoesFinish(step) BY <2>1 DEF Makes
    <2> DEFINE r == cmd.release
    <2>3. \A s : Releasing(s)' => cmd' # Idle /\ (Releasing(s) \/ s = step) BY <2>2, DoneIs
    <2>4. \A s \in {"candidate", "install", "checksum", "cyclonedx_sbom", "spdx_sbom", "report", "sign"} :
            Releasing(s)' /\ step # "candidate" => /\ step \in FinishSteps
                                                   /\ s = "sign" => step \in {"sign", "evidence"}
      <3> SUFFICES ASSUME NEW s \in {"candidate", "install", "checksum", "cyclonedx_sbom", "spdx_sbom", "report",
                                     "sign"}, Releasing(s)', step # "candidate"
                   PROVE  /\ step \in FinishSteps
                          /\ s = "sign" => step \in {"sign", "evidence"}
        OBVIOUS
      <3>1. CASE s = step BY <3>1 DEF FinishSteps
      <3>2. CASE s # step
        <4>1. Releasing(s) BY <2>3, <3>2
        <4>2. QED BY <2>2, <4>1, Finishing
      <3>3. QED BY <3>1, <3>2
    <2>5. CASE step = "candidate"
      <3>1. \A s \in {"install", "checksum", "cyclonedx_sbom", "spdx_sbom", "report", "sign"} : ~Releasing(s)'
        <4> SUFFICES ASSUME NEW s \in {"install", "checksum", "cyclonedx_sbom", "spdx_sbom", "report", "sign"},
                            Releasing(s)'
                     PROVE  FALSE
          OBVIOUS
        <4>1. Releasing(s) BY <2>3, <2>5
        <4>2. step \in FinishSteps BY <2>2, <4>1, Finishing
        <4>3. QED BY <2>5, <4>2 DEF FinishSteps
      <3>2. cmd' # Idle => /\ IsCandidate(r) /\ cmd'.commit = Head_ /\ cmd'.release = r
                           /\ UNCHANGED <<images, work, dir>>
        BY <2>2, <2>5 DEF Frame, DoesFinish
      <3>3. Releasing("candidate")' =>
              /\ work' # 0 /\ dir'["iso"][cmd'.release] # None /\ dir'["manifest"][cmd'.release] # None
              /\ dir'["manifest"][cmd'.release].commit = cmd'.commit
        BY <2>3, <3>2 DEF IsCandidate
      <3>4. QED BY <3>1, <3>3 DEF FilesInv
    <2>6. CASE step \in FinishSteps
      <3> SUFFICES ASSUME cmd' # Idle PROVE FilesInv'
        BY <2>3 DEF FilesInv
      <3>1. /\ dir'["iso"] = dir["iso"] /\ dir'["manifest"] = dir["manifest"] /\ work' = work
            /\ cmd'.release = r /\ cmd'.commit = cmd.commit
        BY <2>1, <2>6, FinishKeeps
      <3>2. Releasing("candidate") BY <2>2, <2>6, TakenFacts DEF FinishSteps
      <3>3. /\ work' # 0 /\ dir'["iso"][cmd'.release] # None /\ dir'["manifest"][cmd'.release] # None
            /\ dir'["manifest"][cmd'.release].commit = cmd'.commit
        BY <1>0, <3>1, <3>2 DEF FilesInv
      <3>4. Releasing("install")' => dir'["packages"][cmd'.release] = Describes(0, work', 0, FALSE)
        <4>1. CASE step = "install" BY <2>1, <2>6, <3>1, <4>1, FinishWrites
        <4>2. CASE step # "install"
          <5>1. dir'["packages"] = dir["packages"] BY <2>1, <2>6, <4>2, FinishKeeps
          <5>2. QED BY <1>0, <2>3, <3>1, <4>2, <5>1 DEF FilesInv
        <4>3. QED BY <4>1, <4>2
      <3>5. Releasing("checksum")' =>
              dir'["checksum"][cmd'.release] = Describes(dir'["iso"][cmd'.release].iso, 0, 0, FALSE)
        <4>1. CASE step = "checksum" BY <2>1, <2>6, <3>1, <4>1, FinishWrites
        <4>2. CASE step # "checksum"
          <5>1. dir'["checksum"] = dir["checksum"] BY <2>1, <2>6, <4>2, FinishKeeps
          <5>2. QED BY <1>0, <2>3, <3>1, <4>2, <5>1 DEF FilesInv
        <4>3. QED BY <4>1, <4>2
      <3>6. ASSUME NEW sbom \in {"cyclonedx_sbom", "spdx_sbom"}, Releasing(sbom)'
            PROVE  dir'[sbom][cmd'.release] = Describes(0, work', cmd'.commit, FALSE)
        <4>1. CASE step = sbom BY <2>1, <2>6, <3>1, <4>1, FinishWrites
        <4>2. CASE step # sbom
          <5>1. dir'[sbom] = dir[sbom] BY <2>1, <2>6, <4>2, FinishKeeps
          <5>2. Releasing(sbom) BY <2>3, <3>6, <4>2
          <5>3. QED BY <1>0, <3>1, <5>1, <5>2 DEF FilesInv
        <4>3. QED BY <4>1, <4>2
      <3>7. Releasing("report")' =>
              dir'["report"][cmd'.release]
                = Describes(dir'["iso"][cmd'.release].iso, work', cmd'.commit, FALSE)
        <4>1. CASE step = "report" BY <2>1, <2>6, <3>1, <4>1, FinishWrites
        <4>2. CASE step # "report"
          <5>1. dir'["report"] = dir["report"] BY <2>1, <2>6, <4>2, FinishKeeps
          <5>2. QED BY <1>0, <2>3, <3>1, <4>2, <5>1 DEF FilesInv
        <4>3. QED BY <4>1, <4>2
      <3>8. Releasing("sign")' /\ Releases[cmd'.release].stage # "alpha" =>
              dir'["checksum_signature"][cmd'.release] = dir'["checksum"][cmd'.release]
        <4> SUFFICES ASSUME Releasing("sign")', Releases[cmd'.release].stage # "alpha"
                     PROVE  dir'["checksum_signature"][cmd'.release] = dir'["checksum"][cmd'.release]
          OBVIOUS
        <4>1. step \in {"sign", "evidence"} BY <2>4, <2>6 DEF FinishSteps
        <4>2. dir'["checksum"] = dir["checksum"] BY <2>1, <2>6, <4>1, FinishKeeps
        <4>3. CASE step = "sign" BY <2>1, <2>6, <3>1, <4>2, <4>3, FinishWrites
        <4>4. CASE step = "evidence"
          <5>1. dir'["checksum_signature"] = dir["checksum_signature"] BY <2>1, <2>6, <4>4, FinishKeeps
          <5>2. QED BY <1>0, <2>3, <3>1, <4>2, <4>4, <5>1 DEF FilesInv
        <4>5. QED BY <4>1, <4>3, <4>4
      <3>9. QED BY <3>3, <3>4, <3>5, <3>6, <3>7, <3>8 DEF FilesInv
    <2>7. CASE step # "candidate" /\ step \notin FinishSteps
      <3>1. \A s \in {"candidate", "install", "checksum", "cyclonedx_sbom", "spdx_sbom", "report", "sign"} :
              ~Releasing(s)'
        BY <2>4, <2>7
      <3>2. QED BY <3>1 DEF FilesInv
    <2>8. QED BY <2>5, <2>6, <2>7
  <1>4. QED BY <1>0, <1>1, <1>2, <1>3, Course

-----------------------------------------------------------------------------
(* The tree a command reads.                                               *)

\* The last image of a list with one more.
LEMMA NewImage ==
  ASSUME DataTyping, NEW image, images' = Append(images, image), work' = Len(images) + 1
  PROVE  images'[work'] = image /\ work' # 0 /\ work' \notin DOMAIN images
  <1>1. images \in Seq(Image) BY DEF DataTyping
  <1>2. Len(images) \in Nat /\ DOMAIN images = 1 .. Len(images) BY <1>1
  <1>3. QED BY <1>1, <1>2

\* What a command remembers of the tree is still so, for nobody else changes it.
LEMMA QuietInvStep == Inv /\ [Next]_vars => QuietInv'
  <1> SUFFICES ASSUME Inv, [Next]_vars, Quiet' PROVE QuietInv'
    BY DEF QuietInv
  <1>0. CmdTyping /\ DataTyping /\ QuietInv BY DEF Inv
  <1>1. UNCHANGED scenario /\ Quiet BY <1>0, SourceStep DEF Quiet
  <1>2. CASE UNCHANGED <<cmd, images, work, dir>>
    <2>1. CASE cmd.name \in Commands
      <3>1. UNCHANGED source BY <1>0, <1>1, <2>1, SourceStep
      <3>2. QED BY <1>0, <1>1, <1>2, <3>1
              DEF QuietInv, Exporting, Building, Releasing, Pending, source, Toml, Head_, ImageOf
    <2>2. CASE cmd.name \notin Commands
      BY <1>2, <2>2 DEF QuietInv, Exporting, Building, Releasing, Commands
    <2>3. QED BY <2>1, <2>2
  <1>3. CASE Unbegun'
    <2>1. /\ ~Exporting("validate")' /\ ~Exporting("identity")' /\ ~Exporting("describe")'
          /\ ~Releasing("validate")' /\ ~Releasing("clean")'
          /\ ~Building("source")' /\ ~Building("stage")' /\ ~Building("kiwi")'
      BY <1>3, Undone, StepsAre DEF ReleaseSteps, BuildSteps
    <2>2. QED BY <2>1 DEF QuietInv
  <1>4. CASE \E step : Makes(step)
    <2>1. PICK step : Makes(step) BY <1>4
    <2>2. Moves(step) /\ Frame(step) /\ DoesExport(step) /\ DoesBuild(step) BY <2>1 DEF Makes
    <2>3. tree' = tree /\ commits' = commits BY <2>2 DEF Frame, source
    <2>4. Toml' = Toml /\ Head_' = Head_ /\ ImageOf(tree)' = ImageOf(tree) BY <2>3 DEF Toml, Head_, ImageOf
    <2>5. ASSUME Exporting("identity")'
          PROVE  cmd'.commit \in DOMAIN commits /\ (~cmd'.dirty => tree = commits[cmd'.commit])
      <3>0. cmd' # Idle /\ cmd.name = "export" BY <2>2, <2>5, DoneIs DEF Exporting
      <3>1. CASE step = "identity" BY <1>0, <2>2, <3>1, TreeParts DEF DoesExport, Dirty
      <3>2. CASE step # "identity"
        <4>1. Exporting("identity") BY <2>2, <2>5, <3>2, DoneIs
        <4>2. step \notin {"identity", "source", "candidate", "status"} BY <2>2, <3>0, <3>2, StepOwners
        <4>3. cmd'.commit = cmd.commit /\ cmd'.dirty = cmd.dirty BY <2>2, <3>0, <4>2 DEF Frame
        <4>4. QED BY <1>0, <1>1, <4>1, <4>3 DEF QuietInv
      <3>3. QED BY <3>1, <3>2
    <2>6. ASSUME Exporting("describe")' PROVE cmd'.files = [f \in Described |-> tree[f]]
      <3>0. cmd' # Idle /\ cmd.name = "export" BY <2>2, <2>6, DoneIs DEF Exporting
      <3>1. CASE step = "describe" BY <2>2, <3>1 DEF DoesExport
      <3>2. CASE step # "describe"
        <4>1. Exporting("describe") BY <2>2, <2>6, <3>2, DoneIs
        <4>2. step \notin {"describe", "stage", "archive-iso"} BY <2>2, <3>0, <3>2, StepOwners
        <4>3. cmd'.files = cmd.files BY <2>2, <3>0, <4>2 DEF Frame
        <4>4. QED BY <1>0, <1>1, <4>1, <4>3 DEF QuietInv
      <3>3. QED BY <3>1, <3>2
    <2>7. ASSUME Exporting("validate")' \/ Releasing("validate")' PROVE cmd'.release = Toml
      <3>0. cmd' # Idle BY <2>2, <2>7, DoneIs
      <3>1. CASE step = "validate" BY <2>2, <3>1 DEF DoesExport
      <3>2. CASE step # "validate"
        <4>1. Exporting("validate") \/ Releasing("validate") BY <2>2, <2>7, <3>2, DoneIs
        <4>2. cmd'.release = cmd.release BY <2>2, <3>0, <3>2 DEF Frame
        <4>3. QED BY <1>0, <1>1, <4>1, <4>2 DEF QuietInv
      <3>3. QED BY <3>1, <3>2
    <2>8. ASSUME Releasing("clean")' PROVE tree = commits[Head_]
      <3>1. CASE step = "clean" BY <2>2, <3>1 DEF DoesBuild, Dirty
      <3>2. CASE step # "clean"
        <4>1. Releasing("clean") BY <2>2, <2>8, <3>2, DoneIs
        <4>2. QED BY <1>0, <1>1, <4>1 DEF QuietInv
      <3>3. QED BY <3>1, <3>2
    <2>9. ASSUME Building("source")' PROVE Toml = cmd'.build /\ \A f \in Rendered : tree[f] = cmd'.build
      <3>0. cmd' # Idle BY <2>2, <2>9, DoneIs
      <3>1. CASE step = "source" BY <2>2, <3>1 DEF DoesBuild, Fresh, Stale
      <3>2. CASE step # "source"
        <4>1. Building("source") BY <2>2, <2>9, <3>2, DoneIs
        <4>2. cmd'.build = cmd.build BY <2>2, <3>0, <3>2 DEF Frame
        <4>3. QED BY <1>0, <1>1, <4>1, <4>2 DEF QuietInv
      <3>3. QED BY <3>1, <3>2
    <2>10. ASSUME Building("stage")', "kiwi" \in Pending' PROVE cmd'.files = ImageOf(tree)
      <3>0. cmd' # Idle /\ cmd.name = "build" /\ "kiwi" \in Pending /\ step # "kiwi"
        BY <2>2, <2>10, DoneIs DEF Building
      <3>1. CASE step = "stage" BY <2>2, <3>1 DEF DoesBuild
      <3>2. CASE step # "stage"
        <4>1. Building("stage") BY <2>2, <2>10, <3>2, DoneIs
        <4>2. step \notin {"describe", "stage", "archive-iso"}
          BY <2>2, <3>0, <3>2, StepOwners, BuildOrder DEF BuildSteps
        <4>3. cmd'.files = cmd.files BY <2>2, <3>0, <4>2 DEF Frame
        <4>4. QED BY <1>0, <1>1, <3>0, <4>1, <4>3 DEF QuietInv
      <3>3. QED BY <3>1, <3>2
    <2>11. ASSUME Building("kiwi")' PROVE images'[work'].files = ImageOf(tree)
      <3>0. cmd' # Idle /\ cmd.name = "build" BY <2>2, <2>11, DoneIs DEF Building
      <3>1. CASE step = "kiwi"
        <4>1. Building("stage") /\ "kiwi" \in Pending BY <2>2, <3>0, <3>1, BuildOrder DEF Building, BuildSteps
        <4>2. cmd.files = ImageOf(tree) BY <1>0, <1>1, <4>1 DEF QuietInv
        <4>3. PICK shipped \in [DOMAIN scenario.inventory -> 0 .. 2] :
                images' = Append(images, [files |-> cmd.files, commit |-> cmd.commit, shipped |-> shipped])
          BY <2>2, <3>1 DEF DoesBuild
        <4>4. work' = Len(images) + 1 BY <2>2, <3>1 DEF DoesBuild
        <4>5. QED BY <1>0, <4>2, <4>3, <4>4, NewImage
      <3>2. CASE step # "kiwi"
        <4>1. Building("kiwi") BY <2>2, <2>11, <3>2, DoneIs
        <4>2. step # "stage" BY <2>2, <4>1, BuildOrder DEF Building, BuildSteps
        <4>3. images' = images /\ work' = work BY <2>2, <3>2, <4>2 DEF Frame
        <4>4. QED BY <1>0, <1>1, <4>1, <4>3 DEF QuietInv
      <3>3. QED BY <3>1, <3>2
    <2>12. QED BY <2>3, <2>4, <2>5, <2>6, <2>7, <2>8, <2>9, <2>10, <2>11 DEF QuietInv
  <1>5. QED BY <1>0, <1>2, <1>3, <1>4, Course

-----------------------------------------------------------------------------
(* What was exported, built and bundled stays that of its commit.          *)

\* Who writes the export.
LEMMA ExportStep ==
  ASSUME CmdTyping, DataTyping, [Next]_vars
  PROVE  UNCHANGED export \/ VerifyExport \/ \E step \in {"describe", "overlay"} : Makes(step)
  <1>1. CASE Starts \/ Renders \/ Fails BY <1>1 DEF Starts, Renders, Fails, data
  <1>2. CASE \E step : Makes(step) BY <1>2 DEF Makes, Frame
  <1>3. CASE Rests
    BY <1>3 DEF Rests, Prove, RunGate, ExtractGate, HardwareMatrix, BootCandidate, RecordResult, ReviewPackage, WriteI18nResult, WriteEvidenceByHand, Evidence,
                vars
  <1>4. QED BY <1>1, <1>2, <1>3, Acts

\* An export of a clean tree is its commit, and only such a one is verified.
LEMMA ExportInvStep == Inv /\ [Next]_vars => ExportInv'
  <1> SUFFICES ASSUME Inv, [Next]_vars, Quiet', export' # None PROVE ExportInv'
    BY DEF ExportInv
  <1> DEFINE Whole(e, committed) ==
               /\ DOMAIN e = {"commit", "dirty", "verified", "files"}
               /\ e.commit \in DOMAIN committed
               /\ ~e.dirty => e.files = ImageOf(committed[e.commit])
               /\ e.verified => ~e.dirty
  <1>0. CmdTyping /\ DataTyping /\ QuietInv /\ (Quiet /\ export # None => Whole(export, commits))
    BY DEF Inv, ExportInv
  <1>1. Quiet BY <1>0, SourceStep DEF Quiet
  <1>2. DOMAIN commits \subseteq DOMAIN commits' /\ \A c \in DOMAIN commits : commits'[c] = commits[c]
    BY <1>0, SourceStep, CommitsGrow
  <1>3. \A e : Whole(e, commits) => Whole(e, commits') BY <1>2
  <1>4. Whole(export', commits) => ExportInv' BY <1>3 DEF ExportInv
  <1>5. CASE UNCHANGED export BY <1>0, <1>1, <1>4, <1>5
  <1>6. CASE VerifyExport
    <2>1. export # None /\ ~export.dirty /\ export' = [export EXCEPT !.verified = TRUE]
      BY <1>6 DEF VerifyExport, Verifiable
    <2>2. Whole(export, commits) BY <1>0, <1>1, <2>1
    <2>3. Whole(export', commits) BY <2>1, <2>2
    <2>4. QED BY <1>4, <2>3
  <1>7. CASE Makes("describe") BY <1>7 DEF Makes, DoesExport
  <1>8. CASE Makes("overlay")
    <2>1. Moves("overlay") /\ DoesExport("overlay") BY <1>8 DEF Makes
    <2>2. cmd.name = "export" BY <2>1, StepOwners
    <2>3. Exporting("identity") /\ Exporting("describe") BY <2>1, <2>2, ExportOrder DEF Exporting
    <2>4. /\ cmd.commit \in DOMAIN commits /\ (~cmd.dirty => tree = commits[cmd.commit])
          /\ cmd.files = [f \in Described |-> tree[f]]
      BY <1>0, <1>1, <2>3 DEF QuietInv
    <2>5. export' = [commit |-> cmd.commit, dirty |-> cmd.dirty, verified |-> FALSE,
                     files |-> [f \in ImageFiles |-> IF f \in Described THEN cmd.files[f] ELSE tree[f]]]
      BY <2>1 DEF DoesExport
    <2>6. [f \in ImageFiles |-> IF f \in Described THEN cmd.files[f] ELSE tree[f]] = ImageOf(tree)
      BY <2>4 DEF ImageOf
    <2>7. export' = [commit |-> cmd.commit, dirty |-> cmd.dirty, verified |-> FALSE, files |-> ImageOf(tree)]
      BY <2>5, <2>6
    <2>8. Whole(export', commits) BY <2>4, <2>7
    <2>9. QED BY <1>4, <2>8
  <1>9. QED BY <1>0, <1>5, <1>6, <1>7, <1>8, ExportStep

\* What artifact-manifest has seen when it writes.
Bundles(tests) ==
  /\ \A role \in RequiredRoles(Toml) : One(role)
  /\ IsoSource
  /\ \A t \in tests : ValidResult(t)
  /\ tests = RequiredResults(Toml)
  /\ bundle' = [release |-> Toml, iso |-> The("iso").iso,
                commit |-> dir["manifest"][TheName("iso")].commit,
                roles |-> [role \in RequiredRoles(Toml) |-> The(role)],
                results |-> [t \in tests |-> results[t]]]
  /\ UNCHANGED <<source, export, candidate, reviews, results, scenario>>

\* The evidence manifest is written by the script, or by hand.
LEMMA BundleStep ==
  ASSUME CmdTyping, DataTyping, [Next]_vars
  PROVE  \/ UNCHANGED bundle
         \/ /\ \E tests : Bundles(tests)
            /\ Makes("evidence") \/ (cmd = Idle /\ cmd' = cmd /\ "script" \notin scenario.careful)
  <1>1. CASE Starts \/ Renders \/ Fails BY <1>1 DEF Starts, Renders, Fails, data, proof
  <1>2. CASE \E step : Makes(step)
    <2>1. PICK step : Makes(step) BY <1>2
    <2>2. CASE step # "evidence" BY <2>1, <2>2 DEF Makes, Frame
    <2>3. CASE step = "evidence"
      <3>1. ArtifactManifest(RequiredResults(Toml)) BY <2>1, <2>3 DEF Makes, DoesFinish
      <3>2. UNCHANGED <<source, export, candidate, reviews, results, scenario>>
        BY <2>1, <2>3 DEF Makes, Frame, candidate
      <3>3. UNCHANGED bundle \/ Bundles(RequiredResults(Toml)) BY <3>1, <3>2 DEF ArtifactManifest, Bundles
      <3>4. QED BY <2>1, <2>3, <3>3
    <2>4. QED BY <2>2, <2>3
  <1>3. CASE Rests
    <2>1. CASE WriteEvidenceByHand
      <3>1. PICK tests : Evidence(tests) BY <2>1 DEF WriteEvidenceByHand
      <3>2. cmd = Idle /\ cmd' = cmd /\ "script" \notin scenario.careful
        BY <2>1 DEF WriteEvidenceByHand, Busy
      <3>3. UNCHANGED scenario BY SourceStep
      <3>4. UNCHANGED bundle \/ Bundles(tests) BY <3>1, <3>3 DEF Evidence, ArtifactManifest, Bundles
      <3>5. QED BY <3>2, <3>4
    <2>2. CASE ~WriteEvidenceByHand
      BY <1>3, <2>2 DEF Rests, VerifyExport, Prove, RunGate, ExtractGate, HardwareMatrix, BootCandidate, RecordResult, ReviewPackage, WriteI18nResult, vars, proof
    <2>3. QED BY <2>1, <2>2
  <1>4. QED BY <1>1, <1>2, <1>3, Acts

\* What an evidence manifest takes its name, ISO and commit from.
LEMMA BundleNames ==
  ASSUME DataTyping, NEW tests, Bundles(tests)
  PROVE  LET r == bundle'.release IN
         /\ r \in DOMAIN Releases /\ r = Toml /\ TheName("iso") = r /\ The("iso") = dir["iso"][r]
         /\ dir["iso"][r] # None /\ dir["manifest"][r] # None /\ ~dir["manifest"][r].dirty
         /\ dir["manifest"][r].iso = dir["iso"][r].iso
         /\ bundle'.iso = dir["iso"][r].iso /\ bundle'.commit = dir["manifest"][r].commit
         /\ bundle'.roles = [role \in RequiredRoles(r) |-> The(role)]
         /\ bundle'.results = [t \in RequiredResults(r) |-> results[t]]
         /\ \A role \in RequiredRoles(r) : One(role)
         /\ UNCHANGED <<tree, commits, images, dir, reviews, results, scenario>>
  <1>1. "iso" \in RequiredRoles(Toml) BY DEF RequiredRoles
  <1>2. One("iso") BY <1>1 DEF Bundles
  <1>3. TheName("iso") = Toml /\ bundle'.release = Toml BY DEF Bundles, IsoSource
  <1>4. Toml \in DOMAIN Releases /\ dir["iso"][Toml] # None /\ The("iso") = dir["iso"][Toml]
    BY <1>2, <1>3, OneFacts
  <1>5. QED BY <1>3, <1>4 DEF Bundles, IsoSource, source, candidate

\* What was built from a commit stays so.
LEMMA BuiltFromStays ==
  ASSUME Inv, [Next]_vars, NEW i, NEW c, NEW r, BuiltFrom(images, commits, i, c, r)
  PROVE  BuiltFrom(images', commits', i, c, r)
  <1>0. CmdTyping /\ DataTyping BY DEF Inv
  <1>1. DOMAIN commits \subseteq DOMAIN commits' /\ \A d \in DOMAIN commits : commits'[d] = commits[d]
    BY <1>0, SourceStep, CommitsGrow
  <1>2. DOMAIN images \subseteq DOMAIN images' /\ \A j \in DOMAIN images : images'[j] = images[j]
    BY ImagesStep
  <1>3. QED BY <1>1, <1>2 DEF BuiltFrom

\* A clean build manifest names the commit its ISO was built from.
LEMMA ManifestInvStep == Inv /\ [Next]_vars => ManifestInv'
  <1> SUFFICES ASSUME Inv, [Next]_vars, Quiet' PROVE ManifestInv'
    BY DEF ManifestInv
  <1>0. CmdTyping /\ DataTyping /\ QuietInv /\ ManifestInv BY DEF Inv
  <1>1. Quiet BY <1>0, SourceStep DEF Quiet
  <1>2. ASSUME NEW r \in DOMAIN Releases, dir'["manifest"][r] # None, ~dir'["manifest"][r].dirty
        PROVE  BuiltFrom(images', commits', dir'["manifest"][r].iso, dir'["manifest"][r].commit, r)
    <2>1. CASE dir'["manifest"][r] = dir["manifest"][r]
      <3>1. BuiltFrom(images, commits, dir["manifest"][r].iso, dir["manifest"][r].commit, r)
        BY <1>0, <1>1, <1>2, <2>1 DEF ManifestInv
      <3>2. BuiltFrom(images', commits', dir["manifest"][r].iso, dir["manifest"][r].commit, r)
        BY <3>1, BuiltFromStays
      <3>3. QED BY <2>1, <3>2
    <2>2. CASE dir'["manifest"][r] # dir["manifest"][r]
      <3>1. PICK step : Makes(step) BY <1>0, <2>2, Course
      <3>2. step \in {"archive-manifest", "record"} BY <1>0, <2>2, <3>1, ManifestWrites
      <3>3. step = "record" BY <1>0, <1>2, <2>2, <3>1, <3>2, ManifestWrites
      <3>4. r = cmd.build BY <1>0, <2>2, <3>1, <3>3, ManifestWrites
      <3>5. Moves("record") /\ Frame("record") BY <3>1, <3>3 DEF Makes
      <3>6. /\ cmd.name = "build" /\ Building("kiwi") /\ Building("source") /\ work \in DOMAIN images
            /\ work \in Nat /\ dir["iso"][r].iso = work
        BY <3>4, <3>5, PlacedFacts
      <3>7. Releasing("clean")
        <4>1. "clean" \notin Pending BY <3>5, <3>6, FinishOrder DEF BuildSteps, ReleaseSteps
        <4>2. QED BY <3>6, <4>1 DEF Releasing
      <3>8. /\ images[work].files = ImageOf(tree) /\ tree = commits[Head_]
            /\ \A f \in Rendered : tree[f] = r
        BY <1>0, <1>1, <3>4, <3>6, <3>7 DEF QuietInv
      <3>9. BuiltFrom(images, commits, work, Head_, r) BY <1>0, <3>6, <3>8, TreeParts DEF BuiltFrom
      <3>10. dir'["manifest"][r] = Describes(work, 0, Head_, cmd.dirty)
        BY <1>0, <3>1, <3>3, <3>4, <3>6, ManifestWrites
      <3>11. dir'["manifest"][r].iso = work /\ dir'["manifest"][r].commit = Head_ BY <3>10 DEF Describes
      <3>12. BuiltFrom(images', commits', work, Head_, r) BY <3>9, BuiltFromStays
      <3>13. QED BY <3>11, <3>12
    <2>3. QED BY <2>1, <2>2
  <1>3. ASSUME bundle' # None
        PROVE  BuiltFrom(images', commits', bundle'.iso, bundle'.commit, bundle'.release)
    <2>1. CASE UNCHANGED bundle
      <3>1. BuiltFrom(images, commits, bundle.iso, bundle.commit, bundle.release)
        BY <1>0, <1>1, <1>3, <2>1 DEF ManifestInv
      <3>2. BuiltFrom(images', commits', bundle.iso, bundle.commit, bundle.release) BY <3>1, BuiltFromStays
      <3>3. QED BY <2>1, <3>2
    <2>2. CASE \E tests : Bundles(tests)
      <3>1. PICK tests : Bundles(tests) BY <2>2
      <3>2. /\ bundle'.release \in DOMAIN Releases
            /\ dir["manifest"][bundle'.release] # None /\ ~dir["manifest"][bundle'.release].dirty
            /\ dir["manifest"][bundle'.release].iso = bundle'.iso
            /\ dir["manifest"][bundle'.release].commit = bundle'.commit
        BY <1>0, <3>1, BundleNames
      <3>3. BuiltFrom(images, commits, bundle'.iso, bundle'.commit, bundle'.release)
        BY <1>0, <1>1, <3>2 DEF ManifestInv
      <3>4. QED BY <3>3, BuiltFromStays
    <2>3. QED BY <1>0, <2>1, <2>2, BundleStep
  <1>4. QED BY <1>2, <1>3 DEF ManifestInv

-----------------------------------------------------------------------------
(* Whose the results are.                                                  *)

\* What the results of the tests become, and the test machine.
LEMMA GatedStep ==
  ASSUME CmdTyping, DataTyping, [Next]_vars, "fresh" \in scenario.careful
  PROVE  \/ /\ \A t \in Gated : results'[t] = results[t]
            /\ UNCHANGED guest /\ (cmd'.name = "build" => cmd.name = "build")
         \/ Dropped /\ \A t \in Gated : results'[t] = None
         \/ GateRan \/ Localized \/ Booted
  <1>0. DOMAIN results = ResultNames BY DEF DataTyping
  <1>1. CASE Dropped
    <2>1. results' = [t \in DOMAIN results |-> None] BY <1>1 DEF Dropped, Discard
    <2>2. QED BY <1>0, <1>1, <2>1 DEF Gated
  <1>2. CASE Makes("health")
    <2>1. results' = [results EXCEPT !["obs-repositories"] = [iso |-> 0, passed |-> TRUE, shipped |-> << >>]]
      BY <1>2 DEF Makes, DoesBuild
    <2>2. UNCHANGED guest /\ (cmd' = Idle \/ cmd'.name = cmd.name) BY <1>2 DEF Makes, Frame, Moves
    <2>3. cmd'.name = "build" => cmd.name = "build" BY <2>2 DEF Idle
    <2>4. \A t \in Gated : results'[t] = results[t] BY <1>0, <2>1 DEF Gated
    <2>5. QED BY <2>2, <2>3, <2>4
  <1>3. QED BY <1>1, <1>2, ResultsStep

\* A result that a gate or the localization has just written names the ISO.
LEMMA NewResult ==
  ASSUME Inv, "fresh" \in scenario.careful, GateRan \/ Localized, NEW t \in Gated, NEW r \in DOMAIN Releases,
         dir["iso"][r] # None, dir["manifest"][r] # None, dir["manifest"][r].iso = dir["iso"][r].iso
  PROVE  results'[t] = results[t] \/ results'[t].iso = dir["iso"][r].iso
  <1>0. DOMAIN results = ResultNames /\ IsoInv /\ FreshInv BY DEF Inv, DataTyping
  <1>1. CASE GateRan
    <2>1. PICK u \in {"installer", "hardware-matrix"}, iso \in Tested, passed \in BOOLEAN :
            results' = [results EXCEPT ![u] = [iso |-> iso, passed |-> passed, shipped |-> << >>]]
      BY <1>1 DEF GateRan
    <2>2. iso = dir["iso"][r].iso
      <3>1. CASE iso = guest /\ guest # 0 BY <1>0, <3>1 DEF FreshInv
      <3>2. CASE \E s \in Names("iso") : iso = dir["iso"][s].iso BY <1>0, <3>2 DEF IsoInv, Names
      <3>3. QED BY <3>1, <3>2 DEF Tested
    <2>3. QED BY <1>0, <2>1, <2>2 DEF Gated, ResultNames
  <1>2. CASE Localized
    <2>1. PICK given \in Reviews : WriteI18nResult(given) BY <1>2 DEF Localized
    <2>2. One("iso") /\ One("manifest") /\ TheName("manifest") = TheName("iso") BY <2>1 DEF WriteI18nResult
    <2>3. r = TheName("manifest") BY <2>2, OneFacts
    <2>4. The("manifest").iso = dir["iso"][r].iso BY <2>2, <2>3, OneFacts
    <2>5. PICK shipped : results' = [results EXCEPT !["i18n"] =
                                      [iso |-> The("manifest").iso, passed |-> TRUE, shipped |-> shipped]]
      BY <2>1 DEF WriteI18nResult
    <2>6. QED BY <1>0, <2>4, <2>5 DEF Gated, ResultNames
  <1>3. QED BY <1>1, <1>2

\* A careful coordinator has no results, and no test machine, of an ISO that is
\* gone.
LEMMA FreshInvStep == Inv /\ [Next]_vars => FreshInv'
  <1> SUFFICES ASSUME Inv, [Next]_vars, ("fresh" \in scenario.careful)' PROVE FreshInv'
    BY DEF FreshInv
  <1>0. CmdTyping /\ DataTyping /\ FreshInv /\ IsoInv BY DEF Inv
  <1>1. "fresh" \in scenario.careful BY <1>0, SourceStep
  <1>2. /\ cmd.name = "build" => guest = 0 /\ \A t \in Gated : results[t] = None
        /\ \A r \in DOMAIN Releases : guest # 0 /\ dir["iso"][r] # None => guest = dir["iso"][r].iso
        /\ \A t \in Gated, r \in DOMAIN Releases :
             results[t] # None /\ dir["iso"][r] # None /\ dir["manifest"][r] # None
               /\ dir["manifest"][r].iso = dir["iso"][r].iso =>
             results[t].iso = dir["iso"][r].iso
    BY <1>0, <1>1 DEF FreshInv
  <1>3. CASE Dropped /\ \A t \in Gated : results'[t] = None BY <1>3 DEF FreshInv, Dropped, Discard
  <1>4. CASE GateRan \/ Localized
    <2>1. cmd' = Idle /\ UNCHANGED <<dir, guest>> BY <1>4 DEF GateRan, Localized, candidate
    <2>2. cmd'.name # "build" BY <2>1 DEF Idle
    <2>3. ASSUME NEW t \in Gated, NEW r \in DOMAIN Releases,
                 results'[t] # None, dir["iso"][r] # None, dir["manifest"][r] # None,
                 dir["manifest"][r].iso = dir["iso"][r].iso
          PROVE  results'[t].iso = dir["iso"][r].iso
      BY <1>1, <1>2, <1>4, <2>3, NewResult
    <2>4. QED BY <1>2, <2>1, <2>2, <2>3 DEF FreshInv
  <1>5. CASE Booted
    <2>1. cmd' = Idle /\ UNCHANGED <<dir, results>> BY <1>5 DEF Booted, candidate
    <2>2. cmd'.name # "build" BY <2>1 DEF Idle
    <2>3. PICK s \in Names("iso") : guest' = dir["iso"][s].iso BY <1>5 DEF Booted
    <2>4. \A r \in DOMAIN Releases : dir["iso"][r] # None => r = s BY <1>0 DEF IsoInv, Names
    <2>5. \A r \in DOMAIN Releases : dir["iso"][r] # None => guest' = dir["iso"][r].iso BY <2>3, <2>4
    <2>6. QED BY <1>2, <2>1, <2>2, <2>5 DEF FreshInv
  <1>6. CASE /\ \A t \in Gated : results'[t] = results[t]
             /\ UNCHANGED guest /\ (cmd'.name = "build" => cmd.name = "build")
    <2>1. CASE cmd.name = "build"
      <3>1. guest' = 0 /\ \A t \in Gated : results'[t] = None BY <1>2, <1>6, <2>1
      <3>2. QED BY <3>1 DEF FreshInv
    <2>2. CASE cmd.name # "build"
      <3>1. dir'["iso"] = dir["iso"] /\ dir'["manifest"] = dir["manifest"]
        <4>1. CASE UNCHANGED dir BY <4>1
        <4>2. CASE \E step : Makes(step)
          <5>1. PICK step : Makes(step) BY <4>2
          <5>2. step \notin BuildSteps BY <2>2, <5>1, StepOwners DEF Makes
          <5>3. QED BY <1>0, <5>1, <5>2, IsoWrites, ManifestWrites DEF BuildSteps
        <4>3. QED BY <1>0, <4>1, <4>2, Course
      <3>2. QED BY <1>2, <1>6, <2>2, <3>1 DEF FreshInv
    <2>3. QED BY <2>1, <2>2
  <1>7. QED BY <1>0, <1>1, <1>3, <1>4, <1>5, <1>6, GatedStep

-----------------------------------------------------------------------------
(* What an orderly build leaves behind.                                    *)

\* A build that is about to make a step has made those before, not those after.
LEMMA AtBuild ==
  ASSUME CmdTyping, NEW step, At(step), step \notin Rendered, cmd.name = "build",
         NEW s \in ReleaseSteps \cup BuildSteps
  PROVE  /\ step \in ReleaseSteps \cup BuildSteps
         /\ step \in Pending
         /\ Rank(s) < Rank(step) => s \notin Pending
         /\ Rank(step) < Rank(s) /\ s # "evidence" => s \in Pending
  <1>1. AtWork("build") /\ step \in StepsOf("build")
    BY AtFacts, AtWorkFacts DEF Commands
  <1>2. step \in Pending /\ \A t \in Pending : t = step \/ Rank(step) < Rank(t) BY AtFacts
  <1>3. Rank(s) \in Nat /\ Rank(step) \in Nat BY RankIsNat
  <1>4. Rank(s) < Rank(step) => s \notin Pending BY <1>2, <1>3
  <1>5. Rank(step) < Rank(s) /\ s # "evidence" => s \in Pending
    BY <1>1, <1>2, StepsAre DEF AtWork, Tidy
  <1>6. QED BY <1>1, <1>2, <1>4, <1>5, StepsAre

\* What is left of a build when KIWI is done.
LEMMA LeftOver ==
  ASSUME CmdTyping, Building("kiwi")
  PROVE  /\ Building("source")
         /\ "place" \in Pending => "install" \in Pending
  <1>1. cmd.name = "build" /\ "kiwi" \notin Pending BY DEF Building
  <1>2. AtWork("build")
    <2>1. cmd # Idle /\ cmd \notin Rendering BY <1>1 DEF Idle, Rendering
    <2>2. QED BY <1>1, <2>1, AtWorkFacts DEF CmdTyping, Commands
  <1>3. \A s \in Pending : \A t \in StepsOf("build") \ {"evidence"} : Rank(s) < Rank(t) => t \in Pending
    BY <1>1, <1>2 DEF AtWork, Tidy
  <1>4. {"kiwi", "install"} \subseteq StepsOf("build") \ {"evidence"}
    BY StepsAre DEF ReleaseSteps, BuildSteps
  <1>5. "source" \notin Pending BY <1>1, <1>3, <1>4, Ranks
  <1>6. "place" \in Pending => "install" \in Pending BY <1>3, <1>4, Ranks
  <1>7. QED BY <1>1, <1>5, <1>6 DEF Building

\* Without changes from others and failures of its own an orderly build, once
\* KIWI is done, ends with the packages of the new ISO.
LEMMA Interrupted ==
  ASSUME Inv, Orderly, Fails
  PROVE  ~(Building("kiwi") /\ "install" \in Pending)
  <1> SUFFICES ASSUME Building("kiwi"), "install" \in Pending PROVE FALSE
    OBVIOUS
  <1>0. CmdTyping /\ DataTyping /\ CmdValues /\ QuietInv /\ ShipInv BY DEF Inv
  <1>1. cmd.name = "build" /\ "kiwi" \notin Pending BY DEF Building
  <1>2. "sound" \in scenario.careful /\ Quiet BY DEF Orderly, Quiet
  <1>3. BuiltByKiwi BY <1>1 DEF BuiltByKiwi, Pending
  <1>4. /\ Toml = cmd.build /\ \A f \in Rendered : tree[f] = cmd.build
        /\ images[work].files = ImageOf(tree)
    BY <1>0, <1>2, LeftOver DEF QuietInv
  <1>5. images[work].files["config.xml"] = cmd.build
    <2>1. "config.xml" \in Rendered /\ "config.xml" \in ImageFiles
      BY DEF Rendered, ImageFiles, Described
    <2>2. QED BY <1>4, <2>1 DEF ImageOf
  <1>6. ASSUME NEW step \in {"check", "validate", "identity", "clean", "source", "kiwi"}, At(step)
        PROVE  FALSE
    <2>1. step \notin Rendered BY DEF Rendered
    <2>2. "kiwi" \in ReleaseSteps \cup BuildSteps /\ "kiwi" # "evidence" BY DEF BuildSteps
    <2>3. /\ step \in ReleaseSteps \cup BuildSteps /\ step \in Pending
          /\ Rank(step) < Rank("kiwi") => "kiwi" \in Pending
      BY <1>0, <1>1, <1>6, <2>1, <2>2, AtBuild
    <2>4. step # "identity" BY <2>3 DEF ReleaseSteps, BuildSteps
    <2>5. step # "kiwi" BY <1>1, <2>3
    <2>6. Rank(step) < Rank("kiwi") BY <1>6, <2>4, <2>5, Ranks
    <2>7. QED BY <1>1, <2>3, <2>6
  <1>7. ~At("candidate") \/ IsCandidate(cmd.release)
    <2> SUFFICES ASSUME At("candidate") PROVE IsCandidate(cmd.release)
      OBVIOUS
    <2>1. "candidate" \notin Rendered BY DEF Rendered
    <2>2. {"validate", "clean", "place", "record"} \subseteq ReleaseSteps \cup BuildSteps
      BY DEF ReleaseSteps, BuildSteps
    <2>3. \A s \in {"validate", "clean", "place", "record"} : Rank(s) < Rank("candidate") BY Ranks
    <2>4. \A s \in {"validate", "clean", "place", "record"} : s \notin Pending
      BY <1>0, <1>1, <2>1, <2>2, <2>3, AtBuild
    <2>5. /\ Releasing("validate") /\ Releasing("clean") /\ Building("place") /\ Building("record")
      BY <1>1, <2>4 DEF Releasing, Building
    <2>6. /\ cmd.release = Toml /\ tree = commits[Head_] BY <1>0, <1>2, <2>5 DEF QuietInv
    <2>7. work # 0 /\ dir["iso"][cmd.build] # None BY <1>0, <2>5 DEF CmdValues
    <2>8. /\ dir["manifest"][cmd.build] # None /\ ~dir["manifest"][cmd.build].dirty
          /\ dir["manifest"][cmd.build].commit = Head_
      BY <1>0, <2>5 DEF ShipInv
    <2>9. QED BY <1>4, <1>5, <2>6, <2>7, <2>8 DEF IsCandidate, Dirty
  <1>8. QED BY <1>2, <1>3, <1>4, <1>5, <1>6, <1>7 DEF Fails

\* The command rests, begins or ends with nothing half done, or makes a step.
LEMMA ShipCourse ==
  ASSUME Inv, Orderly, [Next]_vars
  PROVE  \/ UNCHANGED <<cmd, images, work, dir>>
         \/ /\ Unbegun' /\ ~(Building("kiwi") /\ "install" \in Pending)
            /\ UNCHANGED <<export, images, work, dir, reviews, bundle>>
         \/ \E step : Makes(step)
  <1>0. CmdTyping /\ DataTyping BY DEF Inv
  <1>1. CASE Fails
    <2>1. cmd' = Idle BY <1>1 DEF Fails
    <2>2. Unbegun' BY <2>1 DEF Idle, Unbegun, Commands
    <2>3. QED BY <1>1, <2>2, Interrupted DEF Fails, data, candidate, proof
  <1>2. CASE Starts
    <2>1. ~Building("kiwi") BY <1>2 DEF Starts, Busy, Building, Idle
    <2>2. QED BY <1>2, <2>1 DEF Starts, data, candidate, proof
  <1>3. CASE Renders
    <2>1. ~Building("kiwi") BY <1>3 DEF Renders, Building
    <2>2. QED BY <1>3, <2>1 DEF Renders, data, candidate, proof
  <1>4. QED BY <1>0, <1>1, <1>2, <1>3, Acts DEF Rests, candidate

\* KIWI's packages list is that of the ISO.
LEMMA WorkIsPlaced ==
  ASSUME Inv, Orderly, [Next]_vars, work' # 0, ~(Building("kiwi")' /\ "place" \in Pending'),
         NEW r \in DOMAIN Releases, dir'["iso"][r] # None
  PROVE  dir'["iso"][r].iso = work'
  <1>0. CmdTyping /\ DataTyping /\ IsoInv /\ ShipInv BY DEF Inv
  <1>1. work # 0 /\ ~(Building("kiwi") /\ "place" \in Pending) /\ dir["iso"][r] # None => dir["iso"][r].iso = work
    BY <1>0 DEF ShipInv
  <1>2. CASE UNCHANGED <<cmd, images, work, dir>> BY <1>1, <1>2 DEF Building, Pending
  <1>3. CASE ~(Building("kiwi") /\ "install" \in Pending) /\ UNCHANGED <<work, dir>>
    BY <1>0, <1>1, <1>3, LeftOver
  <1>4. CASE \E step : Makes(step)
    <2>1. PICK step : Makes(step) BY <1>4
    <2>2. Moves(step) /\ Frame(step) /\ DoesBuild(step) BY <2>1 DEF Makes
    <2>3. step # "stage" BY <2>2 DEF DoesBuild
    <2>4. step # "kiwi"
      <3> SUFFICES ASSUME step = "kiwi" PROVE FALSE
        OBVIOUS
      <3>1. cmd.name = "build" /\ cmd' # Idle BY <2>2, StepOwners DEF BuildSteps, Moves
      <3>2. "place" \in Pending BY <2>2, BuildOrder DEF BuildSteps
      <3>3. "place" \in Pending' /\ "kiwi" \notin Pending' /\ cmd'.name = "build" BY <2>2, <3>1, <3>2, DoneIs
      <3>4. QED BY <3>3 DEF Building
    <2>5. work' = work BY <2>2, <2>3, <2>4 DEF Frame
    <2>6. CASE step = "archive-iso" BY <1>0, <2>1, <2>6, IsoWrites
    <2>7. CASE step = "place"
      <3>1. Building("archive-iso") /\ "place" \in Pending /\ cmd.build \in DOMAIN Releases
        BY <2>2, <2>7, PlacedFacts
      <3>2. dir["iso"][r] = None BY <1>0, <3>1 DEF IsoInv
      <3>3. r = cmd.build BY <1>0, <2>1, <2>7, <3>2, IsoWrites
      <3>4. dir'["iso"][r] = Describes(work, 0, 0, FALSE) BY <1>0, <2>1, <2>7, <3>1, <3>3, IsoWrites
      <3>5. QED BY <2>5, <3>4 DEF Describes
    <2>8. CASE step \notin {"archive-iso", "place"}
      <3>1. dir'["iso"] = dir["iso"] BY <1>0, <2>1, <2>8, IsoWrites
      <3>2. ASSUME Building("kiwi"), "place" \in Pending PROVE FALSE
        <4>1. cmd.name = "build" BY <3>2 DEF Building
        <4>2. step \notin {"sign", "evidence"} BY <2>2, <3>2, <4>1, BuildOrder DEF BuildSteps
        <4>3. step # "overlay" BY <2>2, <4>1, StepOwners
        <4>4. cmd' # Idle BY <2>2, <4>2, <4>3 DEF Moves
        <4>5. Building("kiwi")' /\ "place" \in Pending' BY <2>2, <2>8, <3>2, <4>1, <4>4, DoneIs DEF Building
        <4>6. QED BY <4>5
      <3>3. QED BY <1>1, <2>5, <3>1, <3>2
    <2>9. QED BY <2>6, <2>7, <2>8
  <1>5. QED BY <1>2, <1>3, <1>4, ShipCourse

\* The packages of the release are those of the ISO.
LEMMA PackagesAreInstalled ==
  ASSUME Inv, Orderly, [Next]_vars, ~(Building("kiwi")' /\ "install" \in Pending'),
         NEW r \in DOMAIN Releases, dir'["iso"][r] # None
  PROVE  dir'["packages"][r] # None /\ dir'["packages"][r].packages = dir'["iso"][r].iso
  <1>0. CmdTyping /\ DataTyping /\ IsoInv /\ ShipInv BY DEF Inv
  <1>1. ~(Building("kiwi") /\ "install" \in Pending) /\ dir["iso"][r] # None =>
          dir["packages"][r] # None /\ dir["packages"][r].packages = dir["iso"][r].iso
    BY <1>0 DEF ShipInv
  <1>2. CASE UNCHANGED <<cmd, images, work, dir>> BY <1>1, <1>2 DEF Building, Pending
  <1>3. CASE ~(Building("kiwi") /\ "install" \in Pending) /\ UNCHANGED dir BY <1>1, <1>3
  <1>4. CASE \E step : Makes(step)
    <2>1. PICK step : Makes(step) BY <1>4
    <2>2. Moves(step) /\ Frame(step) BY <2>1 DEF Makes
    <2>3. CASE step = "install"
      <3>1. /\ dir["iso"][cmd.release] # None /\ cmd.release \in DOMAIN Releases
            /\ work \in DOMAIN images /\ work \in Nat /\ cmd.name \in {"build", "artifacts"}
        BY <2>2, <2>3, TakenFacts
      <3>2. dir'["iso"] = dir["iso"] BY <2>1, <2>3, FinishKeeps DEF FinishSteps
      <3>3. r = cmd.release BY <1>0, <3>1, <3>2 DEF IsoInv
      <3>4. work # 0
        <4>1. images \in Seq(Image) BY <1>0 DEF DataTyping
        <4>2. DOMAIN images = 1 .. Len(images) BY <4>1
        <4>3. QED BY <3>1, <4>2
      <3>5. ~(Building("kiwi") /\ "place" \in Pending)
        BY <2>2, <2>3, BuildOrder DEF BuildSteps, Building
      <3>6. dir["iso"][r].iso = work BY <1>0, <3>2, <3>4, <3>5 DEF ShipInv
      <3>7. dir'["packages"][r] = Describes(0, work, 0, FALSE) BY <1>0, <2>1, <2>3, <3>1, <3>3, PackagesWrites
      <3>8. Describes(0, work, 0, FALSE).packages = work BY DEF Describes
      <3>9. Describes(0, work, 0, FALSE) # None
        <4>1. work \in Nat BY <3>1
        <4>2. Describes(0, work, 0, FALSE) \in Description BY <4>1 DEF Describes, Description
        <4>3. QED BY <4>2, NoneAssumption
      <3>10. QED BY <3>2, <3>6, <3>7, <3>8, <3>9
    <2>4. CASE step # "install"
      <3>1. ~(Building("kiwi") /\ "install" \in Pending)
        <4> SUFFICES ASSUME Building("kiwi"), "install" \in Pending PROVE FALSE
          OBVIOUS
        <4>1. cmd.name = "build" BY DEF Building
        <4>2. step \notin {"sign", "evidence"} BY <2>2, <4>1, FinishOrder DEF ReleaseSteps
        <4>3. step # "overlay" BY <2>2, <4>1, StepOwners
        <4>4. cmd' # Idle BY <2>2, <4>2, <4>3 DEF Moves
        <4>5. Building("kiwi")' /\ "install" \in Pending' BY <2>2, <2>4, <4>1, <4>4, DoneIs DEF Building
        <4>6. QED BY <4>5
      <3>2. step \notin {"archive-iso", "place"}
        <4> SUFFICES ASSUME step \in {"archive-iso", "place"} PROVE FALSE
          OBVIOUS
        <4>1. cmd.name = "build" BY <2>2, StepOwners DEF BuildSteps
        <4>2. "kiwi" \notin Pending BY <2>2, BuildOrder DEF BuildSteps
        <4>3. "install" \in Pending BY <2>2, <4>1, FinishOrder DEF BuildSteps, ReleaseSteps
        <4>4. QED BY <3>1, <4>1, <4>2, <4>3 DEF Building
      <3>3. dir'["iso"] = dir["iso"] BY <1>0, <2>1, <3>2, IsoWrites
      <3>4. dir'["packages"] = dir["packages"] BY <1>0, <2>1, <2>4, PackagesWrites
      <3>5. QED BY <1>1, <3>1, <3>3, <3>4
    <2>5. QED BY <2>3, <2>4
  <1>5. QED BY <1>2, <1>3, <1>4, ShipCourse

\* What an i18n-result says of the release there is.
LEMMA NewLocalization ==
  ASSUME DataTyping, Localized
  PROVE  /\ One("iso") /\ One("manifest") /\ One("packages") /\ TheName("manifest") = TheName("iso")
         /\ \E given \in Reviews :
              LET shipped == images[The("packages").packages].shipped IN
              /\ results'["i18n"] = [iso |-> The("manifest").iso, passed |-> TRUE, shipped |-> shipped]
              /\ \A p \in DOMAIN scenario.inventory : shipped[p] # 0 =>
                   IF p \in DOMAIN given THEN ReviewPasses(given[p], shipped[p]) ELSE InventoryPasses(p)
  <1>1. PICK given \in Reviews : WriteI18nResult(given) BY DEF Localized
  <1>2. DOMAIN results = ResultNames /\ "i18n" \in ResultNames BY DEF DataTyping, ResultNames
  <1>3. QED BY <1>1, <1>2 DEF WriteI18nResult

\* A localization result is about the packages in the ISO.
LEMMA LocalizationShips ==
  ASSUME Inv, Orderly, [Next]_vars, results'["i18n"] # None,
         NEW r \in DOMAIN Releases, dir'["iso"][r] # None
  PROVE  results'["i18n"].shipped = images'[dir'["iso"][r].iso].shipped
  <1>0. /\ CmdTyping /\ DataTyping /\ DirTyping /\ ShipInv /\ FreshInv
        /\ "fresh" \in scenario.careful /\ "i18n" \in Gated
    BY DEF Inv, Orderly, Gated, ResultNames
  <1>1. \A i \in DOMAIN images : images'[i] = images[i] BY ImagesStep
  <1>2. dir["iso"][r] # None => dir["iso"][r].iso \in DOMAIN images BY <1>0 DEF DirTyping
  <1>3. results["i18n"] # None /\ dir["iso"][r] # None =>
          results["i18n"].shipped = images[dir["iso"][r].iso].shipped
    BY <1>0 DEF ShipInv
  <1>4. CASE Dropped /\ \A t \in Gated : results'[t] = None BY <1>0, <1>4
  <1>5. CASE GateRan \/ Booted
    <2>1. UNCHANGED dir BY <1>5 DEF GateRan, Booted, candidate
    <2>2. results'["i18n"] = results["i18n"]
      <3>1. CASE GateRan
        <4>1. PICK t \in {"installer", "hardware-matrix"}, iso \in Tested, passed \in BOOLEAN :
                results' = [results EXCEPT ![t] = [iso |-> iso, passed |-> passed, shipped |-> << >>]]
          BY <3>1 DEF GateRan
        <4>2. QED BY <4>1
      <3>2. CASE Booted BY <3>2 DEF Booted
      <3>3. QED BY <1>5, <3>1, <3>2
    <2>3. QED BY <1>1, <1>2, <1>3, <2>1, <2>2
  <1>6. CASE Localized
    <2>1. cmd = Idle /\ UNCHANGED <<images, dir>> BY <1>6 DEF Localized, candidate
    <2>2. ~Building("kiwi") BY <2>1 DEF Building, Idle
    <2>3. dir["packages"][r] # None /\ dir["packages"][r].packages = dir["iso"][r].iso
      BY <1>0, <2>1, <2>2 DEF ShipInv
    <2>4. /\ One("packages")
          /\ results'["i18n"].shipped = images[The("packages").packages].shipped
      BY <1>0, <1>6, NewLocalization
    <2>5. The("packages") = dir["packages"][r] BY <2>3, <2>4, OneFacts
    <2>6. QED BY <2>1, <2>3, <2>4, <2>5
  <1>7. CASE \A t \in Gated : results'[t] = results[t]
    <2>1. cmd.name # "build" BY <1>0, <1>7 DEF FreshInv
    <2>2. dir'["iso"][r] = dir["iso"][r]
      <3>1. CASE UNCHANGED dir BY <3>1
      <3>2. CASE \E step : Makes(step)
        <4>1. PICK step : Makes(step) BY <3>2
        <4>2. step \notin {"archive-iso", "place"} BY <2>1, <4>1, StepOwners DEF Makes, BuildSteps
        <4>3. QED BY <1>0, <4>1, <4>2, IsoWrites
      <3>3. QED BY <1>0, <3>1, <3>2, Course
    <2>3. QED BY <1>0, <1>1, <1>2, <1>3, <1>7, <2>2
  <1>8. QED BY <1>0, <1>4, <1>5, <1>6, <1>7, GatedStep

\* An orderly build manifest is of a clean tree, and of its commit.
LEMMA ManifestIsClean ==
  ASSUME Inv, Orderly, [Next]_vars
  PROVE  /\ Building("status")' => ~cmd'.dirty
         /\ Building("record")' => /\ dir'["manifest"][cmd'.build] # None /\ ~dir'["manifest"][cmd'.build].dirty
                                   /\ dir'["manifest"][cmd'.build].commit = Head_'
  <1>0. CmdTyping /\ DataTyping /\ ShipInv /\ QuietInv /\ Quiet BY DEF Inv, Orderly, Quiet
  <1>1. /\ Building("status") => ~cmd.dirty
        /\ Building("record") => /\ dir["manifest"][cmd.build] # None /\ ~dir["manifest"][cmd.build].dirty
                                 /\ dir["manifest"][cmd.build].commit = Head_
    BY <1>0 DEF ShipInv
  <1>2. CASE UNCHANGED <<cmd, images, work, dir>>
    <2>1. CASE cmd.name \in Commands
      <3>1. UNCHANGED source BY <1>0, <2>1, SourceStep
      <3>2. QED BY <1>1, <1>2, <3>1 DEF Building, Pending, Head_, source
    <2>2. CASE cmd.name \notin Commands BY <1>2, <2>2 DEF Building, Commands
    <2>3. QED BY <2>1, <2>2
  <1>3. CASE Unbegun'
    <2>1. ~Building("status")' /\ ~Building("record")' BY <1>3, Undone DEF ReleaseSteps, BuildSteps
    <2>2. QED BY <2>1
  <1>4. CASE \E step : Makes(step)
    <2>1. PICK step : Makes(step) BY <1>4
    <2>2. Moves(step) /\ Frame(step) /\ DoesBuild(step) BY <2>1 DEF Makes
    <2>3. Head_' = Head_ BY <2>2 DEF Frame, source, Head_
    <2>4. ASSUME Building("status")' PROVE ~cmd'.dirty
      <3>0. cmd' # Idle /\ cmd.name = "build" BY <2>2, <2>4, DoneIs DEF Building
      <3>1. CASE step = "status"
        <4>1. "clean" \notin Pending BY <2>2, <3>0, <3>1, FinishOrder DEF BuildSteps, ReleaseSteps
        <4>2. Releasing("clean") BY <3>0, <4>1 DEF Releasing
        <4>3. ~Dirty BY <1>0, <4>2 DEF QuietInv, Dirty
        <4>4. QED BY <2>2, <3>1, <4>3 DEF DoesBuild
      <3>2. CASE step # "status"
        <4>1. Building("status") BY <2>2, <2>4, <3>2, DoneIs
        <4>2. step # "identity" BY <2>2, <3>0, StepOwners
        <4>3. cmd'.dirty = cmd.dirty BY <2>2, <3>0, <3>2, <4>2 DEF Frame
        <4>4. QED BY <1>1, <4>1, <4>3
      <3>3. QED BY <3>1, <3>2
    <2>5. ASSUME Building("record")'
          PROVE  /\ dir'["manifest"][cmd'.build] # None /\ ~dir'["manifest"][cmd'.build].dirty
                 /\ dir'["manifest"][cmd'.build].commit = Head_'
      <3>0. cmd' # Idle /\ cmd.name = "build" BY <2>2, <2>5, DoneIs DEF Building
      <3>1. CASE step = "record"
        <4>1. /\ cmd.build \in DOMAIN Releases /\ work \in Nat /\ Building("status")
              /\ dir["iso"][cmd.build].iso = work
          BY <2>2, <3>1, PlacedFacts
        <4>2. cmd.dirty = FALSE
          <5>1. cmd.dirty \in BOOLEAN BY <2>2, <3>0, AtWorkFacts DEF Moves, Commands
          <5>2. QED BY <1>1, <4>1, <5>1
        <4>3. dir'["manifest"][cmd.build] = Describes(work, 0, Head_, FALSE)
          BY <1>0, <2>1, <3>1, <4>1, <4>2, ManifestWrites
        <4>4. cmd'.build = cmd.build BY <2>2, <3>0, <3>1 DEF Frame
        <4>5. /\ Describes(work, 0, Head_, FALSE).commit = Head_
              /\ Describes(work, 0, Head_, FALSE).dirty = FALSE
          BY DEF Describes
        <4>6. Describes(work, 0, Head_, FALSE) # None
          <5>1. work \in Nat /\ Head_ \in Nat BY <1>0, <4>1, TreeParts
          <5>2. Describes(work, 0, Head_, FALSE) \in Description BY <5>1 DEF Describes, Description
          <5>3. QED BY <5>2, NoneAssumption
        <4>7. QED BY <2>3, <4>3, <4>4, <4>5, <4>6
      <3>2. CASE step # "record"
        <4>1. Building("record") BY <2>2, <2>5, <3>2, DoneIs
        <4>2. step \notin {"archive-manifest", "source"} BY <2>2, <4>1, BuildOrder DEF Building, BuildSteps
        <4>3. dir'["manifest"] = dir["manifest"] BY <1>0, <2>1, <3>2, <4>2, ManifestWrites
        <4>4. cmd'.build = cmd.build BY <2>2, <3>0, <4>2 DEF Frame
        <4>5. QED BY <1>1, <2>3, <4>1, <4>3, <4>4
      <3>3. QED BY <3>1, <3>2
    <2>6. QED BY <2>4, <2>5
  <1>5. QED BY <1>0, <1>2, <1>3, <1>4, Course

\* An orderly build keeps the ISO, its packages and its localization together.
LEMMA ShipInvStep == Inv /\ [Next]_vars => ShipInv'
  <1> SUFFICES ASSUME Inv, [Next]_vars, Orderly' PROVE ShipInv'
    BY DEF ShipInv
  <1>0. CmdTyping /\ DataTyping BY DEF Inv
  <1>1. Orderly BY <1>0, SourceStep DEF Orderly
  <1>2. work' # 0 /\ ~(Building("kiwi")' /\ "place" \in Pending') =>
          \A r \in DOMAIN Releases : dir'["iso"][r] # None => dir'["iso"][r].iso = work'
    BY <1>1, WorkIsPlaced
  <1>3. ~(Building("kiwi")' /\ "install" \in Pending') =>
          \A r \in DOMAIN Releases :
            dir'["iso"][r] # None =>
              dir'["packages"][r] # None /\ dir'["packages"][r].packages = dir'["iso"][r].iso
    BY <1>1, PackagesAreInstalled
  <1>4. results'["i18n"] # None =>
          \A r \in DOMAIN Releases :
            dir'["iso"][r] # None => results'["i18n"].shipped = images'[dir'["iso"][r].iso].shipped
    BY <1>1, LocalizationShips
  <1>5. QED BY <1>1, <1>2, <1>3, <1>4, ManifestIsClean DEF ShipInv

-----------------------------------------------------------------------------
(* Reviews and evidence.                                                   *)

\* A chosen review is one there is.
LEMMA GivenIsReview ==
  ASSUME DataTyping, NEW given \in Reviews, NEW p \in DOMAIN given
  PROVE  p \in DOMAIN scenario.inventory /\ given[p] \in reviews[p] /\ given[p] \in Review
  <1>1. PICK P \in SUBSET DOMAIN scenario.inventory :
          given \in {g \in [P -> UNION {reviews[q] : q \in P}] : \A q \in P : g[q] \in reviews[q]}
    BY DEF Reviews
  <1>2. DOMAIN given = P /\ \A q \in P : given[q] \in reviews[q] BY <1>1
  <1>3. p \in DOMAIN scenario.inventory /\ given[p] \in reviews[p] BY <1>2
  <1>4. reviews[p] \subseteq Review BY <1>3 DEF DataTyping
  <1>5. QED BY <1>3, <1>4

\* A localization result has the reviews it needs.
LEMMA ReviewInvStep == Inv /\ [Next]_vars => ReviewInv'
  <1> SUFFICES ASSUME Inv, [Next]_vars, results'["i18n"] # None PROVE ReviewInv'
    BY DEF ReviewInv
  <1>0. CmdTyping /\ DataTyping /\ DirTyping /\ ReviewInv /\ DOMAIN results = ResultNames
    BY DEF Inv, DataTyping
  <1>1. UNCHANGED scenario BY <1>0, SourceStep
  <1>2. \A p \in DOMAIN scenario.inventory : reviews[p] \subseteq reviews'[p] BY ReviewsStep
  <1>3. CASE results'["i18n"] = results["i18n"] BY <1>0, <1>1, <1>2, <1>3 DEF ReviewInv
  <1>4. CASE Localized
    <2>1. One("packages") BY <1>0, <1>4, NewLocalization
    <2>2. The("packages").packages \in DOMAIN images BY <1>0, <2>1, OneFacts DEF DirTyping
    <2> DEFINE shipped == images[The("packages").packages].shipped
    <2>3. shipped \in [DOMAIN scenario.inventory -> 0 .. 2] BY <1>0, <2>2, ShippedFacts
    <2>4. PICK given \in Reviews :
            /\ results'["i18n"] = [iso |-> The("manifest").iso, passed |-> TRUE, shipped |-> shipped]
            /\ \A p \in DOMAIN scenario.inventory : shipped[p] # 0 =>
                 IF p \in DOMAIN given THEN ReviewPasses(given[p], shipped[p]) ELSE InventoryPasses(p)
      BY <1>0, <1>4, NewLocalization
    <2>5. results'["i18n"].shipped = shipped BY <2>4
    <2> HIDE DEF shipped
    <2>6. ASSUME NEW p \in DOMAIN scenario.inventory, scenario.inventory[p] = "scheduled", shipped[p] # 0
          PROVE  [version |-> shipped[p], passed |-> TRUE] \in reviews[p]
      <3>1. p \in DOMAIN given /\ ReviewPasses(given[p], shipped[p])
        BY <2>4, <2>6 DEF InventoryPasses
      <3>2. given[p] \in reviews[p] /\ given[p] \in Review BY <1>0, <3>1, GivenIsReview
      <3>3. given[p] = [version |-> shipped[p], passed |-> TRUE] BY <3>1, <3>2 DEF ReviewPasses, Review
      <3>4. QED BY <3>2, <3>3
    <2>7. QED BY <1>1, <1>2, <2>3, <2>5, <2>6 DEF ReviewInv
  <1>5. CASE GateRan
    <2>1. PICK t \in {"installer", "hardware-matrix"}, iso \in Tested, passed \in BOOLEAN :
            results' = [results EXCEPT ![t] = [iso |-> iso, passed |-> passed, shipped |-> << >>]]
      BY <1>5 DEF GateRan
    <2>2. results'["i18n"] = results["i18n"] BY <2>1
    <2>3. QED BY <1>3, <2>2
  <1>6. CASE Makes("health")
    <2>1. results' = [results EXCEPT !["obs-repositories"] = [iso |-> 0, passed |-> TRUE, shipped |-> << >>]]
      BY <1>6 DEF Makes, DoesBuild
    <2>2. results'["i18n"] = results["i18n"] BY <2>1
    <2>3. QED BY <1>3, <2>2
  <1>7. CASE Dropped
    <2>1. results' = [t \in DOMAIN results |-> None] BY <1>7 DEF Dropped, Discard
    <2>2. "i18n" \in DOMAIN results BY <1>0 DEF ResultNames
    <2>3. QED BY <2>1, <2>2
  <1>8. CASE Booted BY <1>3, <1>8 DEF Booted
  <1>9. QED BY <1>0, <1>3, <1>4, <1>5, <1>6, <1>7, <1>8, ResultsStep

\* What the script bundles is what it wrote.
LEMMA ScriptBundles ==
  ASSUME Inv, Makes("evidence"), NEW tests, Bundles(tests)
  PROVE  LET r == bundle'.release IN
         /\ r = cmd.release /\ bundle'.commit = cmd.commit /\ work \in Nat
         /\ ~(Building("kiwi") /\ "install" \in Pending)
         /\ dir["packages"][r] = Describes(0, work, 0, FALSE)
         /\ dir["checksum"][r] = Describes(bundle'.iso, 0, 0, FALSE)
         /\ \A sbom \in {"cyclonedx_sbom", "spdx_sbom"} : dir[sbom][r] = Describes(0, work, cmd.commit, FALSE)
         /\ dir["report"][r] = Describes(bundle'.iso, work, cmd.commit, FALSE)
         /\ Releases[r].stage # "alpha" => dir["checksum_signature"][r] = dir["checksum"][r]
  <1> DEFINE r == bundle'.release
  <1>0. DataTyping /\ FilesInv /\ IsoInv /\ Moves("evidence") BY DEF Inv, Makes
  <1>1. /\ cmd.release \in DOMAIN Releases /\ dir["iso"][cmd.release] # None /\ work \in Nat
        /\ cmd.name \in {"build", "artifacts"} /\ Releasing("install")
        /\ dir["manifest"][cmd.release].commit = cmd.commit
    <2>1. PICK step : step = "evidence" OBVIOUS
    <2>2. Moves(step) /\ step \in {"install", "checksum", "cyclonedx_sbom", "spdx_sbom", "report", "sign", "evidence"}
          /\ step # "install"
      BY <1>0, <2>1
    <2>3. QED BY <2>2, TakenFacts
  <1>2. /\ r \in DOMAIN Releases /\ dir["iso"][r] # None /\ bundle'.iso = dir["iso"][r].iso
        /\ bundle'.commit = dir["manifest"][r].commit
    BY <1>0, BundleNames
  <1>3. r = cmd.release BY <1>0, <1>1, <1>2 DEF IsoInv
  <1>4. \A s \in {"checksum", "cyclonedx_sbom", "spdx_sbom", "report", "sign"} : Releasing(s)
    <2>1. \A s \in ReleaseSteps : s # "evidence" => s \notin Pending BY <1>0, <1>1, FinishOrder
    <2>2. QED BY <1>1, <2>1 DEF ReleaseSteps, Releasing
  <1>5. "install" \notin Pending BY <1>1 DEF Releasing
  <1>6. QED BY <1>0, <1>1, <1>2, <1>3, <1>4, <1>5 DEF FilesInv

\* The roles of an evidence manifest are those of its release.
LEMMA TheRoles ==
  ASSUME DataTyping, NEW tests, Bundles(tests), NEW role \in RequiredRoles(bundle'.release),
         dir[role][bundle'.release] # None
  PROVE  bundle'.roles[role] = dir[role][bundle'.release]
  <1>1. /\ bundle'.release \in DOMAIN Releases /\ One(role)
        /\ bundle'.roles = [q \in RequiredRoles(bundle'.release) |-> The(q)]
    BY BundleNames
  <1>2. bundle'.roles[role] = The(role) BY <1>1
  <1>3. QED BY <1>1, <1>2, OneFacts

\* What the evidence manifest of the script names belongs to its ISO.
LEMMA NewRolesAgree ==
  ASSUME Inv, NEW tests, Bundles(tests), Makes("evidence")
  PROVE  LET role == bundle'.roles IN
         /\ role["checksum"].iso = bundle'.iso /\ role["report"].iso = bundle'.iso
         /\ \A s \in {"cyclonedx_sbom", "spdx_sbom", "report"} :
              role[s].packages = role["packages"].packages /\ role[s].commit = bundle'.commit
         /\ Releases[bundle'.release].stage # "alpha" => role["checksum_signature"].iso = bundle'.iso
         /\ role["packages"].packages = work
  <1> DEFINE r == bundle'.release  role == bundle'.roles
  <1>0. DataTyping BY DEF Inv
  <1>1. /\ r = cmd.release /\ bundle'.commit = cmd.commit /\ work \in Nat
        /\ dir["packages"][r] = Describes(0, work, 0, FALSE)
        /\ dir["checksum"][r] = Describes(bundle'.iso, 0, 0, FALSE)
        /\ \A sbom \in {"cyclonedx_sbom", "spdx_sbom"} : dir[sbom][r] = Describes(0, work, cmd.commit, FALSE)
        /\ dir["report"][r] = Describes(bundle'.iso, work, cmd.commit, FALSE)
        /\ Releases[r].stage # "alpha" => dir["checksum_signature"][r] = dir["checksum"][r]
    BY ScriptBundles
  <1>2. /\ r \in DOMAIN Releases /\ dir["iso"][r] # None /\ bundle'.iso = dir["iso"][r].iso
        /\ dir["manifest"][r] # None /\ bundle'.commit = dir["manifest"][r].commit
    BY <1>0, BundleNames
  <1>3. bundle'.iso \in Nat BY <1>0, <1>2, DirFacts DEF Roles
  <1>4. bundle'.commit \in Nat BY <1>0, <1>2, DirFacts DEF Roles
  <1>5. ASSUME NEW iso \in Nat, NEW packages \in Nat, NEW commit \in Nat
        PROVE  Describes(iso, packages, commit, FALSE) # None
    <2>1. Describes(iso, packages, commit, FALSE) \in Description BY DEF Describes, Description
    <2>2. QED BY <2>1, NoneAssumption
  <1>6. {"packages", "report", "checksum", "cyclonedx_sbom", "spdx_sbom"} \subseteq RequiredRoles(r)
        /\ (Releases[r].stage # "alpha" => "checksum_signature" \in RequiredRoles(r))
    BY DEF RequiredRoles
  <1>7. role["packages"] = Describes(0, work, 0, FALSE)
    <2>1. dir["packages"][r] # None BY <1>1, <1>5
    <2>2. QED BY <1>0, <1>1, <1>6, <2>1, TheRoles
  <1>8. dir["checksum"][r] # None BY <1>1, <1>3, <1>5
  <1>9. role["checksum"] = Describes(bundle'.iso, 0, 0, FALSE) BY <1>0, <1>1, <1>6, <1>8, TheRoles
  <1>10. ASSUME NEW s \in {"cyclonedx_sbom", "spdx_sbom"}
         PROVE  role[s] = Describes(0, work, bundle'.commit, FALSE)
    <2>1. dir[s][r] = Describes(0, work, bundle'.commit, FALSE) BY <1>1
    <2>2. dir[s][r] # None BY <1>1, <1>4, <1>5, <2>1
    <2>3. s \in RequiredRoles(r) BY <1>6
    <2>4. QED BY <1>0, <2>1, <2>2, <2>3, TheRoles
  <1>11. role["report"] = Describes(bundle'.iso, work, bundle'.commit, FALSE)
    <2>1. dir["report"][r] # None BY <1>1, <1>3, <1>4, <1>5
    <2>2. QED BY <1>0, <1>1, <1>6, <2>1, TheRoles
  <1>12. Releases[r].stage # "alpha" => role["checksum_signature"] = Describes(bundle'.iso, 0, 0, FALSE)
    <2> SUFFICES ASSUME Releases[r].stage # "alpha"
                 PROVE  role["checksum_signature"] = Describes(bundle'.iso, 0, 0, FALSE)
      OBVIOUS
    <2>1. dir["checksum_signature"][r] = Describes(bundle'.iso, 0, 0, FALSE)
          /\ dir["checksum_signature"][r] # None
      BY <1>1, <1>8
    <2>2. "checksum_signature" \in RequiredRoles(r) BY <1>6
    <2>3. QED BY <1>0, <2>1, <2>2, TheRoles
  <1>13. \A s \in {"cyclonedx_sbom", "spdx_sbom", "report"} :
           role[s].packages = work /\ role[s].commit = bundle'.commit
    BY <1>10, <1>11 DEF Describes
  <1>14. role["checksum"].iso = bundle'.iso /\ role["report"].iso = bundle'.iso /\ role["packages"].packages = work
         /\ (Releases[r].stage # "alpha" => role["checksum_signature"].iso = bundle'.iso)
    BY <1>7, <1>9, <1>11, <1>12 DEF Describes
  <1>15. QED BY <1>13, <1>14

\* What an orderly evidence manifest names ships with its ISO, reviewed.
LEMMA NewPackagesShip ==
  ASSUME Inv, Orderly, NEW tests, Bundles(tests), Makes("evidence")
  PROVE  /\ bundle'.roles["packages"].packages = bundle'.iso
         /\ "i18n" \in DOMAIN bundle'.results =>
              /\ bundle'.results["i18n"].shipped = images[bundle'.iso].shipped
              /\ \A p \in DOMAIN scenario.inventory :
                   scenario.inventory[p] = "scheduled" /\ images[bundle'.iso].shipped[p] # 0 =>
                     [version |-> images[bundle'.iso].shipped[p], passed |-> TRUE] \in reviews[p]
  <1> DEFINE r == bundle'.release
  <1>0. DataTyping /\ ShipInv /\ ReviewInv BY DEF Inv
  <1>1. /\ r \in DOMAIN Releases /\ dir["iso"][r] # None /\ bundle'.iso = dir["iso"][r].iso
        /\ bundle'.results = [t \in RequiredResults(r) |-> results[t]] /\ r = Toml
    BY <1>0, BundleNames
  <1>2. ~(Building("kiwi") /\ "install" \in Pending) /\ dir["packages"][r] = Describes(0, work, 0, FALSE)
    BY ScriptBundles
  <1>3. bundle'.roles["packages"].packages = bundle'.iso
    <2>1. dir["packages"][r].packages = bundle'.iso BY <1>0, <1>1, <1>2 DEF ShipInv
    <2>2. bundle'.roles["packages"].packages = work BY NewRolesAgree
    <2>3. QED BY <1>2, <2>1, <2>2 DEF Describes
  <1>4. ASSUME "i18n" \in DOMAIN bundle'.results
        PROVE  results["i18n"] # None /\ bundle'.results["i18n"] = results["i18n"]
    <2>1. "i18n" \in RequiredResults(Toml) BY <1>1, <1>4
    <2>2. ValidResult("i18n") BY <2>1 DEF Bundles
    <2>3. QED BY <1>1, <2>1, <2>2 DEF ValidResult
  <1>5. results["i18n"] # None => results["i18n"].shipped = images[bundle'.iso].shipped
    BY <1>0, <1>1 DEF ShipInv
  <1>6. QED BY <1>0, <1>3, <1>4, <1>5 DEF ReviewInv

\* Its results are of its ISO, if they were dropped with the last one.
LEMMA NewEvidenceIsFresh ==
  ASSUME Inv, "fresh" \in scenario.careful, NEW tests, Bundles(tests),
         NEW t \in DOMAIN bundle'.results \ {"obs-repositories"}
  PROVE  bundle'.results[t].iso = bundle'.iso
  <1> DEFINE r == bundle'.release
  <1>0. DataTyping /\ FreshInv BY DEF Inv
  <1>1. /\ r \in DOMAIN Releases /\ dir["iso"][r] # None /\ bundle'.iso = dir["iso"][r].iso
        /\ dir["manifest"][r] # None /\ dir["manifest"][r].iso = dir["iso"][r].iso
        /\ bundle'.results = [u \in RequiredResults(r) |-> results[u]] /\ r = Toml
    BY <1>0, BundleNames
  <1>2. t \in RequiredResults(Toml) /\ bundle'.results[t] = results[t] BY <1>1
  <1>3. ValidResult(t) BY <1>2 DEF Bundles
  <1>4. results[t] # None BY <1>3 DEF ValidResult
  <1>5. t \in Gated BY <1>2 DEF RequiredResults, Gated, ResultNames
  <1>6. QED BY <1>0, <1>1, <1>2, <1>4, <1>5 DEF FreshInv

\* Evidence stays true of its ISO.
LEMMA BundleInvStep == Inv /\ [Next]_vars => BundleInv'
  <1> SUFFICES ASSUME Inv, [Next]_vars, bundle' # None PROVE BundleInv'
    BY DEF BundleInv, RolesAgree, PackagesShip, ScheduledPackagesWereReviewed, FreshEvidenceIsOfTheCandidate,
           EvidenceIsOfTheCandidate
  <1>0. CmdTyping /\ DataTyping /\ DirTyping /\ BundleInv BY DEF Inv
  <1>1. UNCHANGED scenario BY <1>0, SourceStep
  <1>2. \A p \in DOMAIN scenario.inventory : reviews[p] \subseteq reviews'[p] BY ReviewsStep
  <1>3. DOMAIN images \subseteq DOMAIN images' /\ \A i \in DOMAIN images : images'[i] = images[i]
    BY ImagesStep
  <1>4. CASE UNCHANGED bundle
    <2>1. bundle.iso \in DOMAIN images BY <1>0, <1>4 DEF BundleInv
    <2>2. images'[bundle.iso] = images[bundle.iso] BY <1>3, <2>1
    <2>3. RolesAgree' BY <1>0, <1>1, <1>4 DEF BundleInv, RolesAgree
    <2>4. PackagesShip' BY <1>0, <1>1, <1>4, <2>2 DEF BundleInv, PackagesShip
    <2>5. ScheduledPackagesWereReviewed'
      BY <1>0, <1>1, <1>2, <1>4, <2>2 DEF BundleInv, ScheduledPackagesWereReviewed
    <2>6. FreshEvidenceIsOfTheCandidate'
      BY <1>0, <1>1, <1>4 DEF BundleInv, FreshEvidenceIsOfTheCandidate, EvidenceIsOfTheCandidate
    <2>7. QED BY <1>3, <1>4, <2>1, <2>3, <2>4, <2>5, <2>6 DEF BundleInv
  <1>5. CASE \E tests : Bundles(tests) /\ (Makes("evidence") \/ "script" \notin scenario.careful)
    <2>1. PICK tests : Bundles(tests) /\ (Makes("evidence") \/ "script" \notin scenario.careful) BY <1>5
    <2>2. /\ UNCHANGED <<images, reviews>> /\ bundle'.release \in DOMAIN Releases
          /\ dir["iso"][bundle'.release] # None /\ bundle'.iso = dir["iso"][bundle'.release].iso
      BY <1>0, <2>1, BundleNames
    <2>3. bundle'.iso \in DOMAIN images' BY <1>0, <2>2 DEF DirTyping
    <2>4. RolesAgree' BY <1>1, <2>1, NewRolesAgree DEF RolesAgree
    <2>5. Orderly => Makes("evidence") BY <2>1 DEF Orderly
    <2>6. PackagesShip' BY <1>1, <2>1, <2>2, <2>5, NewPackagesShip DEF PackagesShip, Orderly
    <2>7. ScheduledPackagesWereReviewed'
      BY <1>1, <2>1, <2>2, <2>5, NewPackagesShip DEF ScheduledPackagesWereReviewed, Orderly
    <2>8. FreshEvidenceIsOfTheCandidate'
      BY <1>1, <2>1, NewEvidenceIsFresh DEF FreshEvidenceIsOfTheCandidate, EvidenceIsOfTheCandidate
    <2>9. QED BY <2>3, <2>4, <2>6, <2>7, <2>8 DEF BundleInv
  <1>6. QED BY <1>0, <1>4, <1>5, BundleStep

-----------------------------------------------------------------------------
(* The theorems.                                                           *)

\* Nothing is built, and nothing is running.
LEMMA Initially == Init => Inv
  <1> SUFFICES ASSUME Init PROVE Inv
    OBVIOUS
  <1>1. /\ scenario \in Scenario /\ cmd = Idle /\ export = None /\ images = << >> /\ work = 0 /\ bundle = None
        /\ tree = [f \in Files |-> IF f \in Written THEN 0 ELSE scenario.first] /\ commits = <<tree>>
        /\ dir = [artifact \in Roles |-> [r \in DOMAIN Releases |-> None]]
        /\ reviews = [p \in DOMAIN scenario.inventory |-> {}] /\ results = [t \in ResultNames |-> None]
    BY ScenariosAssumption DEF Init
  <1>2. scenario.first \in DOMAIN Releases /\ scenario.first \in Nat
    BY <1>1, ReleasesFacts DEF Scenario
  <1>3. "release.toml" \in Files /\ "release.toml" \notin Written BY DEF Files, Written
  <1>4. tree \in Version BY <1>1, <1>2, <1>3 DEF Version
  <1>5. DataTyping
    <2>1. commits \in Seq(Version) /\ commits # << >> BY <1>1, <1>4
    <2>2. images \in Seq(Image) /\ work \in 0 .. Len(images) BY <1>1
    <2>3. dir \in [Roles -> [DOMAIN Releases -> Description \cup {None}]] BY <1>1
    <2>4. reviews \in [DOMAIN scenario.inventory -> SUBSET Review] BY <1>1
    <2>5. DOMAIN results = ResultNames BY <1>1
    <2>6. QED BY <1>1, <1>4, <2>1, <2>2, <2>3, <2>4, <2>5 DEF DataTyping
  <1>6. \A r \in DOMAIN Releases : dir["iso"][r] = None /\ dir["packages"][r] = None /\ dir["manifest"][r] = None
    BY <1>1 DEF Roles
  <1>7. /\ \A s : ~Exporting(s) /\ ~Building(s) /\ ~Releasing(s)
    BY <1>1 DEF Exporting, Building, Releasing, Idle
  <1>8. \A t \in ResultNames : results[t] = None BY <1>1
  <1>9. results["i18n"] = None /\ Gated \subseteq ResultNames BY <1>8 DEF ResultNames, Gated
  <1>10. CmdTyping /\ DirTyping /\ CmdValues /\ IsoInv /\ FilesInv /\ QuietInv
    BY <1>1, <1>6, <1>7 DEF CmdTyping, DirTyping, CmdValues, IsoInv, FilesInv, QuietInv
  <1>11. ExportInv /\ ManifestInv BY <1>1, <1>6 DEF ExportInv, ManifestInv
  <1>12. FreshInv
    <2>1. cmd.name # "build" BY <1>1 DEF Idle
    <2>2. QED BY <1>6, <2>1 DEF FreshInv
  <1>13. ShipInv BY <1>1, <1>6, <1>7, <1>9 DEF ShipInv
  <1>14. ReviewInv BY <1>9 DEF ReviewInv
  <1>15. BundleInv
    BY <1>1 DEF BundleInv, RolesAgree, PackagesShip, ScheduledPackagesWereReviewed, FreshEvidenceIsOfTheCandidate,
                EvidenceIsOfTheCandidate
  <1>16. QED BY <1>5, <1>10, <1>11, <1>12, <1>13, <1>14, <1>15 DEF Inv

\* Every step keeps every part of the invariant, whatever the releases, the
\* scenario and the others do.
THEOREM ReleaseInvariance == Spec => []Inv
  <1>1. Inv /\ [Next]_vars => Inv'
    BY CmdTypingStep, DataTypingStep, DirTypingStep, CmdValuesStep, IsoInvStep, FilesInvStep, QuietInvStep,
       ExportInvStep, ManifestInvStep, FreshInvStep, ShipInvStep, ReviewInvStep, BundleInvStep DEF Inv
  <1>2. QED BY Initially, <1>1, PTL DEF Spec

\* What an evidence manifest names belongs together and to its ISO
\* (artifact_manifest, generate).
THEOREM ConsistentBundle == Spec => []BundleIsConsistent
  <1>1. Inv => BundleIsConsistent BY DEF Inv, BundleInv, BundleIsConsistent
  <1>2. QED BY ReleaseInvariance, <1>1, PTL

\* Scheduled translations are only in an ISO with evidence when that version was
\* reviewed (review_check, inventory_check).
THEOREM ReviewedPackages == Spec => []ScheduledPackagesWereReviewed
  <1>1. Inv => ScheduledPackagesWereReviewed BY DEF Inv, BundleInv
  <1>2. QED BY ReleaseInvariance, <1>1, PTL

\* The ISO of an evidence manifest was built from the commit it names
\* (write_build_manifest, iso_source_commit).
THEOREM CommitBuiltTheIso == Spec => []BundledCommitBuiltTheIso
  <1>1. Inv => BundledCommitBuiltTheIso
    BY DEF Inv, ManifestInv, BundledCommitBuiltTheIso, BuiltFrom, ImageOf, Quiet
  <1>2. QED BY ReleaseInvariance, <1>1, PTL

\* When the results and the test machine are dropped before each build, the
\* results of an evidence manifest are of its ISO (validate_test_result,
\* build-and-run-vm.sh:1005-1008).
THEOREM FreshEvidence == Spec => []FreshEvidenceIsOfTheCandidate
  <1>1. Inv => FreshEvidenceIsOfTheCandidate BY DEF Inv, BundleInv
  <1>2. QED BY ReleaseInvariance, <1>1, PTL

\* A verified export is its commit (export, verify_export).
THEOREM VerifiedExport == Spec => []VerifiedExportIsTheCommit
  <1>1. Inv => VerifiedExportIsTheCommit
    BY DEF Inv, ExportInv, VerifiedExportIsTheCommit, ImageOf, Quiet
  <1>2. QED BY ReleaseInvariance, <1>1, PTL

-----------------------------------------------------------------------------
(* Every number is that of a commit or of an ISO there is.                 *)

Numbers ==
  /\ Building("source") /\ "kiwi" \in Pending => cmd.commit \in DOMAIN commits
  /\ \A i \in DOMAIN images : images[i].commit \in DOMAIN commits
  /\ \A r \in DOMAIN Releases : dir["manifest"][r] # None => dir["manifest"][r].iso \in DOMAIN images
  /\ \A t \in ResultNames : results[t] # None => results[t].iso \in {0} \cup DOMAIN images
  /\ guest \in {0} \cup DOMAIN images

\* The commit a build is of.
LEMMA BuildsCommit ==
  ASSUME Inv, Numbers, [Next]_vars, Building("source")', "kiwi" \in Pending'
  PROVE  cmd'.commit \in DOMAIN commits'
  <1>0. CmdTyping /\ DataTyping BY DEF Inv
  <1>1. DOMAIN commits \subseteq DOMAIN commits' BY <1>0, SourceStep, CommitsGrow
  <1>2. CASE UNCHANGED cmd BY <1>1, <1>2 DEF Numbers, Building, Pending
  <1>3. CASE Unbegun' BY <1>3, Undone DEF ReleaseSteps, BuildSteps
  <1>4. CASE \E step : Makes(step)
    <2>1. PICK step : Makes(step) BY <1>4
    <2>2. Moves(step) /\ Frame(step) /\ DoesBuild(step) BY <2>1 DEF Makes
    <2>3. cmd' # Idle /\ cmd.name = "build" /\ "kiwi" \in Pending BY <2>2, DoneIs DEF Building
    <2>4. CASE step = "source" BY <1>0, <1>1, <2>2, <2>4, TreeParts DEF DoesBuild
    <2>5. CASE step # "source"
      <3>1. Building("source") BY <2>2, <2>5, DoneIs
      <3>2. step # "identity" BY <2>2, <2>3, StepOwners
      <3>3. step # "candidate" BY <2>2, <2>3, BuildOrder DEF BuildSteps
      <3>4. cmd'.commit = cmd.commit BY <2>2, <2>3, <2>5, <3>2, <3>3 DEF Frame
      <3>5. QED BY <1>1, <2>3, <3>1, <3>4 DEF Numbers
    <2>6. QED BY <2>4, <2>5
  <1>5. QED BY <1>0, <1>2, <1>3, <1>4, Course

\* The commit an image is of.
LEMMA ImageCommits ==
  ASSUME Inv, Numbers, [Next]_vars, NEW i \in DOMAIN images'
  PROVE  images'[i].commit \in DOMAIN commits'
  <1>0. CmdTyping /\ DataTyping BY DEF Inv
  <1>1. DOMAIN commits \subseteq DOMAIN commits' BY <1>0, SourceStep, CommitsGrow
  <1>2. CASE UNCHANGED images BY <1>1, <1>2 DEF Numbers
  <1>3. CASE Makes("stage") BY <1>1, <1>3 DEF Makes, DoesBuild, Numbers
  <1>4. CASE Makes("kiwi")
    <2>1. Moves("kiwi") /\ DoesBuild("kiwi") BY <1>4 DEF Makes
    <2>2. cmd.name = "build" /\ Building("source") /\ "kiwi" \in Pending
      BY <2>1, BuildOrder, StepOwners DEF BuildSteps, Building
    <2>3. cmd.commit \in DOMAIN commits' BY <1>1, <2>2 DEF Numbers
    <2>4. PICK shipped :
            images' = Append(images, [files |-> cmd.files, commit |-> cmd.commit, shipped |-> shipped])
      BY <2>1 DEF DoesBuild
    <2>5. images \in Seq(Image) BY <1>0 DEF DataTyping
    <2>6. i \in DOMAIN images \/ images'[i] = [files |-> cmd.files, commit |-> cmd.commit, shipped |-> shipped]
      BY <2>4, <2>5
    <2>7. CASE i \in DOMAIN images
      <3>1. images'[i] = images[i] BY <2>7, ImagesStep
      <3>2. QED BY <1>1, <2>7, <3>1 DEF Numbers
    <2>8. CASE images'[i] = [files |-> cmd.files, commit |-> cmd.commit, shipped |-> shipped]
      BY <2>3, <2>8
    <2>9. QED BY <2>6, <2>7, <2>8
  <1>5. QED BY <1>2, <1>3, <1>4, ImagesStep

\* The ISO a build manifest names.
LEMMA ManifestIsos ==
  ASSUME Inv, Numbers, [Next]_vars, NEW r \in DOMAIN Releases, dir'["manifest"][r] # None
  PROVE  dir'["manifest"][r].iso \in DOMAIN images'
  <1>0. CmdTyping /\ DataTyping BY DEF Inv
  <1>1. DOMAIN images \subseteq DOMAIN images' BY ImagesStep
  <1>2. CASE dir'["manifest"][r] = dir["manifest"][r] BY <1>1, <1>2 DEF Numbers
  <1>3. CASE dir'["manifest"][r] # dir["manifest"][r]
    <2>1. PICK step : Makes(step) BY <1>0, <1>3, Course
    <2>2. step \in {"archive-manifest", "record"} BY <1>0, <1>3, <2>1, ManifestWrites
    <2>3. step = "record" BY <1>0, <1>3, <2>1, <2>2, ManifestWrites
    <2>4. Moves(step) BY <2>1 DEF Makes
    <2>5. work \in DOMAIN images /\ dir["iso"][cmd.build].iso = work /\ cmd.build \in DOMAIN Releases
      BY <2>3, <2>4, PlacedFacts
    <2>6. r = cmd.build BY <1>0, <1>3, <2>1, <2>3, ManifestWrites
    <2>7. dir'["manifest"][r] = Describes(work, 0, Head_, cmd.dirty)
      BY <1>0, <2>1, <2>3, <2>5, <2>6, ManifestWrites
    <2>8. QED BY <1>1, <2>5, <2>7 DEF Describes
  <1>4. QED BY <1>2, <1>3

\* The ISO a result names.
LEMMA ResultIsos ==
  ASSUME Inv, Numbers, [Next]_vars, NEW t \in ResultNames, results'[t] # None
  PROVE  results'[t].iso \in {0} \cup DOMAIN images'
  <1>0. CmdTyping /\ DataTyping /\ DirTyping /\ DOMAIN results = ResultNames BY DEF Inv, DataTyping
  <1>1. DOMAIN images \subseteq DOMAIN images' BY ImagesStep
  <1>2. results'[t] = results[t] => results'[t].iso \in {0} \cup DOMAIN images' BY <1>1 DEF Numbers
  <1>3. CASE Makes("health")
    <2>1. results' = [results EXCEPT !["obs-repositories"] = [iso |-> 0, passed |-> TRUE, shipped |-> << >>]]
      BY <1>3 DEF Makes, DoesBuild
    <2>2. QED BY <1>0, <1>2, <2>1
  <1>4. CASE Dropped
    <2>1. results' = [u \in DOMAIN results |-> None] BY <1>4 DEF Dropped, Discard
    <2>2. QED BY <1>0, <2>1
  <1>5. CASE GateRan
    <2>1. PICK u \in {"installer", "hardware-matrix"}, iso \in Tested, passed \in BOOLEAN :
            results' = [results EXCEPT ![u] = [iso |-> iso, passed |-> passed, shipped |-> << >>]]
      BY <1>5 DEF GateRan
    <2>2. iso \in DOMAIN images BY <1>0 DEF Tested, Names, DirTyping, Numbers
    <2>3. QED BY <1>0, <1>1, <1>2, <2>1, <2>2
  <1>6. CASE Localized
    <2>1. PICK given \in Reviews : WriteI18nResult(given) BY <1>6 DEF Localized
    <2>2. One("manifest") BY <2>1 DEF WriteI18nResult
    <2>3. The("manifest").iso \in DOMAIN images BY <2>2, OneFacts DEF Numbers
    <2>4. PICK shipped : results' = [results EXCEPT !["i18n"] =
                                      [iso |-> The("manifest").iso, passed |-> TRUE, shipped |-> shipped]]
      BY <2>1 DEF WriteI18nResult
    <2>5. QED BY <1>0, <1>1, <1>2, <2>3, <2>4
  <1>7. CASE UNCHANGED results BY <1>2, <1>7
  <1>8. QED BY <1>0, <1>3, <1>4, <1>5, <1>6, <1>7, ResultsStep DEF Booted

\* The ISO the test machine is of.
LEMMA GuestIso ==
  ASSUME Inv, Numbers, [Next]_vars
  PROVE  guest' \in {0} \cup DOMAIN images'
  <1>0. CmdTyping /\ DataTyping /\ DirTyping BY DEF Inv
  <1>1. DOMAIN images \subseteq DOMAIN images' BY ImagesStep
  <1>2. CASE guest' = guest BY <1>1, <1>2 DEF Numbers
  <1>3. CASE Dropped BY <1>3 DEF Dropped, Discard
  <1>4. CASE Booted BY <1>0, <1>1, <1>4 DEF Booted, Names, DirTyping
  <1>5. CASE Makes("health") BY <1>2, <1>5 DEF Makes, Frame
  <1>6. CASE GateRan \/ Localized BY <1>2, <1>6 DEF GateRan, Localized
  <1>7. QED BY <1>0, <1>2, <1>3, <1>4, <1>5, <1>6, ResultsStep

\* Types: what is described, reviewed or tested is something that exists, in a
\* tree of whatever releases.
THEOREM ReleaseTyping == Spec => []TypeOK
  <1>1. Init => Numbers
    <2> SUFFICES ASSUME Init PROVE Numbers
      OBVIOUS
    <2>1. ~Building("source") BY DEF Init, Building, Idle
    <2>2. images = << >> BY DEF Init
    <2>3. \A r \in DOMAIN Releases : dir["manifest"][r] = None BY DEF Init, Roles
    <2>4. \A t \in ResultNames : results[t] = None BY DEF Init
    <2>5. guest = 0 BY DEF Init
    <2>6. QED BY <2>1, <2>2, <2>3, <2>4, <2>5 DEF Numbers
  <1>2. Inv /\ Numbers /\ [Next]_vars => Numbers'
    BY BuildsCommit, ImageCommits, ManifestIsos, ResultIsos, GuestIso DEF Numbers
  <1>3. Inv /\ Numbers => TypeOK
    <2> SUFFICES ASSUME Inv, Numbers PROVE TypeOK
      OBVIOUS
    <2>1. DataTyping /\ DirTyping BY DEF Inv
    <2>2. Version \subseteq [Files -> Nat] BY DEF Version
    <2>3. tree \in [Files -> Nat] /\ commits \in Seq([Files -> Nat]) BY <2>1, <2>2 DEF DataTyping
    <2>4. \A i \in DOMAIN images : DOMAIN images[i].files = ImageFiles BY <2>1, ShippedFacts
    <2>5. images \in Seq(Image) /\ work \in 0 .. Len(images) BY <2>1 DEF DataTyping
    <2>6. work \in {0} \cup DOMAIN images BY <2>5
    <2>7. QED BY <2>1, <2>3, <2>4, <2>6 DEF TypeOK, Numbers, DataTyping, DirTyping
  <1>4. QED BY <1>1, <1>2, <1>3, ReleaseInvariance, PTL DEF Spec

=============================================================================
