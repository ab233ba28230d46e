------------------------------ MODULE ObsProofs ------------------------------
(***************************************************************************)
(* Theorems about the local gate, for every set of architectures, manifests *)
(* and metadata, and about promotion and the health report, for any         *)
(* packages, sources, baseline, scenarios and lengths of the histories.     *)
(*                                                                         *)
(* Three things carry the argument about promotion.  What the build service *)
(* published and has not been changed since is what it built (CleanInv).  A *)
(* command knows what its earlier requests were answered, and it makes them *)
(* in an order (Ordered, Left).  The history of a package only grows, so    *)
(* the revision a check has seen is the latest one as long as the count     *)
(* agrees (SeenInv).                                                       *)
(***************************************************************************)
EXTENDS ObsManifest, ObsPromotion, SequenceTheorems, TLAPS

-----------------------------------------------------------------------------
(* The local gate.                                                         *)

AcceptedMeansChecked ==
  /\ input.kind \in {"manifest", "meta"}
  /\ input.kind = "meta" => input.value \in Metas
  /\ Accepted("manifest") => ManifestOk(input.value)
  /\ Accepted("meta") => MetaOk(input.value)

\* The verdict is the one the checks give, in every state.
LEMMA Checked == GateSpec => []AcceptedMeansChecked
<1>1. GateInit => AcceptedMeansChecked
  BY DEF GateInit, AcceptedMeansChecked, Accepted
<1>2. AcceptedMeansChecked /\ [GateNext]_gateVars => AcceptedMeansChecked'
  BY DEF AcceptedMeansChecked, Accepted, GateNext, Validate, CheckMeta, gateVars
<1> QED BY <1>1, <1>2, PTL DEF GateSpec

\* Rules that pass for the retained target never make it built anywhere: what
\* enables it is global, and the required disabling is more specific.
LEMMA RequiredFlagDisables ==
  ASSUME NEW rules \in SUBSET Rule, NEW arch \in Architectures, NEW default,
         FlagOk(rules, TRUE)
  PROVE  ~MayEnable(rules, "retained", arch, default)
<1> DEFINE matching == {r \in rules : Applies(r, "retained", arch)}
<1>1. DisableWhole \in matching
  BY DEF FlagOk, DisableWhole, Applies
<1>2. ASSUME NEW r \in matching, r.tag = "enable"
      PROVE  Specificity(r) = 0 /\ Specificity(DisableWhole) = 1
  <2>1. r \in Enables(rules)
    BY <1>2 DEF Enables, Applies
  <2>2. r.arch = NoName /\ r.repository # "retained" /\ r.repository \in {NoName, "retained"}
    BY <2>1, <1>2 DEF FlagOk, Enables
  <2> QED
    BY <2>2, NoNameAssumption DEF Specificity, DisableWhole
<1>3. ASSUME NEW r \in matching, r.tag = "enable",
             \A s \in matching : s.tag = "disable" => Specificity(s) <= Specificity(r)
      PROVE  FALSE
  <2>1. Specificity(DisableWhole) <= Specificity(r)
    BY <1>1, <1>3 DEF DisableWhole
  <2> QED
    BY <1>2, <1>3, <2>1
<1> QED BY <1>1, <1>3 DEF MayEnable

\* The same for a package, which need not repeat the disabling: either it has
\* no rule that applies and inherits, or a disabling outranks its global ones.
LEMMA OverrideKeepsDisabled ==
  ASSUME NEW rules \in SUBSET Rule, NEW arch \in Architectures,
         FlagOk(rules, FALSE)
  PROVE  ~MayEnable(rules, "retained", arch, FALSE)
<1>1. CASE DisableWhole \in rules
  <2>1. FlagOk(rules, TRUE)
    BY <1>1 DEF FlagOk
  <2> QED BY <2>1, RequiredFlagDisables
<1>2. CASE DisableWhole \notin rules
  <2>1. \A r \in rules : Applies(r, "retained", arch) => r.tag # "enable"
    BY <1>2 DEF FlagOk, Enables, Applies
  <2> QED BY <2>1 DEF MayEnable
<1> QED BY <1>1, <1>2

\* Metadata that passed the gate keeps the retained target unbuilt and
\* unpublished for every architecture (check_disabled_flag).
THEOREM Disabled == GateSpec => []DisabledStaysDisabled
<1>1. AcceptedMeansChecked => DisabledStaysDisabled
  <2> SUFFICES ASSUME AcceptedMeansChecked, Accepted("meta"), NEW arch \in Architectures
               PROVE  ~MayPublish(input.value, "retained", arch)
    BY DEF DisabledStaysDisabled
  <2>1. /\ FlagOk(input.value.project, TRUE) /\ FlagOk(input.value.package, FALSE)
        /\ input.value.project \in SUBSET Rule /\ input.value.package \in SUBSET Rule
    BY MetasAssumption DEF AcceptedMeansChecked, Accepted, MetaOk
  <2>2. MayEnable(input.value.project, "retained", arch, TRUE) = FALSE
    BY <2>1, RequiredFlagDisables DEF MayEnable
  <2> QED
    BY <2>1, <2>2, OverrideKeepsDisabled DEF MayPublish
<1> QED BY <1>1, Checked, PTL

\* What only staging carries never enters release nor can be promoted
\* (Manifest.validate, expected_source_packages, promote).
THEOREM StagingOnly ==
  GateSpec => []StagingOnlyStaysThere
<1>1. AcceptedMeansChecked => StagingOnlyStaysThere
  BY DEF AcceptedMeansChecked, StagingOnlyStaysThere, Accepted, ManifestOk, ListsOk,
         ExpectedSourcePackages, ActiveSourcePackages, MayPromote
<1> QED BY <1>1, Checked, PTL

\* An accepted manifest makes the ISO from a target that is built, of Leap
\* 16.1 (Manifest.validate).
THEOREM IsoTarget == GateSpec => []IsoHasLiveTarget
<1>1. AcceptedMeansChecked => IsoHasLiveTarget
  BY DEF AcceptedMeansChecked, IsoHasLiveTarget, Accepted, ManifestOk, TargetsOk, TargetOk
<1> QED BY <1>1, Checked, PTL

-----------------------------------------------------------------------------
(* Promotion and the health report.                                        *)

Revision == [source : Sources, request : Nat]
Request == [package : Package, source : Sources,
            origin : {"staging", "elsewhere"},
            state : {"new", "accepted", "revoked"}]
Seen == [Package -> [source : Sources, revision : Nat] \cup {None}]

PerPackage == {"provenance", "fetch", "seed"}

StepOf(kinds) ==
  {step \in [kind : kinds, package : Package \cup {None}] :
     step.kind \in PerPackage => step.package \in Package}
PromoteKinds == {"inventory", "result", "revise", "submit"}
HealthKinds == {"inventory", "provenance", "result", "list", "fetch", "write"}

Promotion == [name : {"promote"}, remote : {"staging"}, package : Package,
              pinned : Sources \cup {None}, execute : BOOLEAN,
              source : Sources \cup {None}, steps : Seq(StepOf(PromoteKinds))]
Rollback == [name : {"rollback"}, remote : {"staging"}, package : Package,
             execute : BOOLEAN, source : Sources, steps : Seq(StepOf({"copy"}))]
Seeding == [name : {"init-staging"}, remote : {"release"}, execute : BOOLEAN,
            seen : Seen, steps : Seq(StepOf({"read", "seed"}))]
Check == [name : {"health"}, remote : {"release"}, execute : {FALSE},
          seen : Seen, listed : [Package -> Sources \cup {None}],
          steps : Seq(StepOf(HealthKinds))]

\* The service's side, and the command's.
RemoteTyping ==
  /\ scenario \in Scenarios
  /\ history \in [Remotes -> [Package -> Seq(Revision)]]
  /\ binary \in [Remotes -> [Package -> Sources \cup {None}]]
  /\ state \in [Remotes -> [Package -> {"succeeded", "failed"}]]
  /\ dirty \in [Remotes -> BOOLEAN]
  /\ requests \in Seq(Request)
  /\ green \subseteq Package \X Sources
  /\ \A p \in Package : \A i \in DOMAIN history["release"][p] :
       history["release"][p][i].request \in {0} \cup DOMAIN requests

CmdTyping == cmd \in {Idle} \cup Promotion \cup Rollback \cup Seeding \cup Check

-----------------------------------------------------------------------------
(* The requests a command still has to make.                               *)

Rank(kind) ==
  CASE kind \in {"inventory", "read"} -> 1
    [] kind \in {"provenance", "seed"} -> 2
    [] kind = "result" -> 3
    [] kind \in {"list", "revise"} -> 4
    [] kind \in {"fetch", "submit"} -> 5
    [] kind = "write" -> 6
    [] OTHER -> 0

InOrder(steps) ==
  \A i, j \in DOMAIN steps :
    i < j => \/ Rank(steps[i].kind) < Rank(steps[j].kind)
             \/ /\ Rank(steps[i].kind) = Rank(steps[j].kind)
                /\ steps[i].kind \in PerPackage

Ordered == InOrder(cmd.steps)

Left(kind) == \E i \in DOMAIN cmd.steps : cmd.steps[i].kind = kind

\* The rest of a command after its first request.
LEMMA TailProperties ==
  ASSUME NEW S, NEW s \in Seq(S), s # << >>
  PROVE  /\ Tail(s) \in Seq(S)
         /\ Len(Tail(s)) = Len(s) - 1
         /\ DOMAIN Tail(s) = 1..(Len(s) - 1)
         /\ DOMAIN s = 1..Len(s) /\ Len(s) \in Nat /\ 1 \in DOMAIN s
         /\ Head(s) = s[1] /\ Head(s) \in S
         /\ \A i \in 1..(Len(s) - 1) : i + 1 \in DOMAIN s /\ Tail(s)[i] = s[i + 1]
         /\ \A j \in DOMAIN s : j = 1 \/ (j - 1 \in 1..(Len(s) - 1) /\ Tail(s)[j - 1] = s[j])
<1>1. /\ Tail(s) \in Seq(S) /\ Len(Tail(s)) = Len(s) - 1
      /\ \A i \in 1..(Len(s) - 1) : Tail(s)[i] = s[i + 1]
  BY HeadTailProperties
<1>2. /\ DOMAIN s = 1..Len(s) /\ Len(s) \in Nat /\ Len(s) # 0
      /\ DOMAIN Tail(s) = 1..(Len(s) - 1)
      /\ Head(s) = s[1] /\ Head(s) \in S
  BY <1>1
<1>3. \A j \in DOMAIN s : j = 1 \/ (j - 1 \in 1..(Len(s) - 1) /\ Tail(s)[j - 1] = s[j])
  BY <1>1, <1>2
<1> QED
  BY <1>1, <1>2, <1>3

\* What is left once the first request is answered.
Advances ==
  /\ cmd'.steps = Tail(cmd.steps)
  /\ Ordered'
  /\ \A kind : Left(kind)' => Left(kind)
  /\ \A kind : kind # Head(cmd.steps).kind /\ Left(kind) => Left(kind)'
  /\ \A kind : kind = Head(cmd.steps).kind /\ kind \notin PerPackage => ~Left(kind)'
  /\ \A kind : Rank(kind) < Rank(Head(cmd.steps).kind) => ~Left(kind)'
  /\ \A step : step # Head(cmd.steps) /\ (\E i \in DOMAIN cmd.steps : cmd.steps[i] = step)
                 => \E i \in DOMAIN cmd'.steps : cmd'.steps[i] = step

\* Requests are made in their order.
LEMMA StepsAdvance ==
  ASSUME NEW S, cmd.steps \in Seq(S), cmd.steps # << >>, Ordered,
         cmd'.steps = Tail(cmd.steps)
  PROVE  Advances
<1>1. /\ DOMAIN cmd'.steps = 1..(Len(cmd.steps) - 1)
      /\ DOMAIN cmd.steps = 1..Len(cmd.steps) /\ Len(cmd.steps) \in Nat
      /\ 1 \in DOMAIN cmd.steps
      /\ Head(cmd.steps) = cmd.steps[1]
      /\ \A i \in DOMAIN cmd'.steps :
           i + 1 \in DOMAIN cmd.steps /\ cmd'.steps[i] = cmd.steps[i + 1]
      /\ \A j \in DOMAIN cmd.steps : j # 1 =>
           j - 1 \in DOMAIN cmd'.steps /\ cmd'.steps[j - 1] = cmd.steps[j]
  BY TailProperties
<1>2. Ordered'
  BY <1>1 DEF Ordered, InOrder
<1>3. \A kind : Left(kind)' => Left(kind)
  BY <1>1 DEF Left
<1>4. ASSUME NEW kind, kind # Head(cmd.steps).kind, Left(kind)
      PROVE  Left(kind)'
  <2>1. PICK j \in DOMAIN cmd.steps : cmd.steps[j].kind = kind
    BY <1>4 DEF Left
  <2>2. j # 1
    BY <1>1, <1>4, <2>1
  <2> QED
    BY <1>1, <2>1, <2>2 DEF Left
<1>5. \A i \in DOMAIN cmd'.steps :
        \/ Rank(cmd.steps[1].kind) < Rank(cmd'.steps[i].kind)
        \/ /\ Rank(cmd.steps[1].kind) = Rank(cmd'.steps[i].kind)
           /\ cmd.steps[1].kind \in PerPackage
  <2> TAKE i \in DOMAIN cmd'.steps
  <2>1. i + 1 \in DOMAIN cmd.steps /\ 1 < i + 1 /\ cmd'.steps[i] = cmd.steps[i + 1]
    BY <1>1
  <2> QED BY <1>1, <2>1 DEF Ordered, InOrder
<1>6. \A kind : Rank(kind) \in Nat
  BY DEF Rank
<1>7. ASSUME NEW kind, kind = Head(cmd.steps).kind, kind \notin PerPackage,
             Left(kind)'
      PROVE  FALSE
  <2>1. PICK i \in DOMAIN cmd'.steps : cmd'.steps[i].kind = kind
    BY <1>7 DEF Left
  <2> QED BY <1>1, <1>5, <1>6, <1>7, <2>1
<1>8. ASSUME NEW kind, Rank(kind) < Rank(Head(cmd.steps).kind), Left(kind)'
      PROVE  FALSE
  <2>1. PICK i \in DOMAIN cmd'.steps : cmd'.steps[i].kind = kind
    BY <1>8 DEF Left
  <2>2. Rank(cmd.steps[1].kind) <= Rank(kind)
    BY <1>5, <1>6, <2>1
  <2> QED BY <1>1, <1>6, <1>8, <2>2
<1>9. \A step : step # Head(cmd.steps) /\ (\E i \in DOMAIN cmd.steps : cmd.steps[i] = step)
                  => \E i \in DOMAIN cmd'.steps : cmd'.steps[i] = step
  BY <1>1
<1> QED
  BY <1>2, <1>3, <1>4, <1>7, <1>8, <1>9 DEF Advances

\* The first request that is left has the least rank.
LEMMA HeadIsLeast ==
  ASSUME NEW S, cmd.steps \in Seq(S), cmd.steps # << >>, Ordered,
         NEW kind, Rank(kind) < Rank(Head(cmd.steps).kind)
  PROVE  ~Left(kind)
<1>1. /\ DOMAIN cmd.steps = 1..Len(cmd.steps) /\ Len(cmd.steps) \in Nat
      /\ 1 \in DOMAIN cmd.steps /\ Head(cmd.steps) = cmd.steps[1]
  BY TailProperties
<1>2. \A k : Rank(k) \in Nat
  BY DEF Rank
<1>3. ASSUME NEW i \in DOMAIN cmd.steps, cmd.steps[i].kind = kind
      PROVE  FALSE
  <2>1. i # 1 /\ 1 < i
    BY <1>1, <1>2, <1>3
  <2> QED BY <1>1, <1>2, <1>3, <2>1 DEF Ordered, InOrder
<1> QED
  BY <1>3 DEF Left

-----------------------------------------------------------------------------
(* The lists of requests the commands start with.                          *)

Within(steps, low, high) ==
  \A i \in DOMAIN steps : low <= Rank(steps[i].kind) /\ Rank(steps[i].kind) <= high

\* One list after another keeps the order when the ranks do.
LEMMA ConcatInOrder ==
  ASSUME NEW S, NEW s \in Seq(S), NEW t \in Seq(S), InOrder(s), InOrder(t),
         NEW low \in Nat, NEW mid \in Nat, NEW next \in Nat, NEW high \in Nat,
         Within(s, low, mid), Within(t, next, high),
         low <= mid, mid < next, next <= high
  PROVE  /\ s \o t \in Seq(S)
         /\ InOrder(s \o t)
         /\ Within(s \o t, low, high)
         /\ \A i \in DOMAIN s : \E j \in DOMAIN (s \o t) : (s \o t)[j] = s[i]
         /\ \A i \in DOMAIN t : \E j \in DOMAIN (s \o t) : (s \o t)[j] = t[i]
<1> DEFINE u == s \o t
<1>1. /\ u \in Seq(S) /\ Len(u) = Len(s) + Len(t)
      /\ \A i \in 1..(Len(s) + Len(t)) :
           u[i] = IF i <= Len(s) THEN s[i] ELSE t[i - Len(s)]
  BY ConcatProperties
<1> HIDE DEF u
<1>2. /\ DOMAIN u = 1..(Len(s) + Len(t)) /\ DOMAIN s = 1..Len(s)
      /\ DOMAIN t = 1..Len(t) /\ Len(s) \in Nat /\ Len(t) \in Nat
  BY <1>1
<1>3. \A i \in DOMAIN u : \/ i \in DOMAIN s /\ u[i] = s[i]
                          \/ /\ i - Len(s) \in DOMAIN t /\ i > Len(s)
                             /\ u[i] = t[i - Len(s)]
  BY <1>1, <1>2
<1>4. /\ \A i \in DOMAIN s : i \in DOMAIN u /\ u[i] = s[i]
      /\ \A i \in DOMAIN t : i + Len(s) \in DOMAIN u /\ u[i + Len(s)] = t[i]
  BY <1>1, <1>2
<1>5. \A k : Rank(k) \in Nat
  BY DEF Rank
<1>6. Within(u, low, high)
  BY <1>3, <1>5 DEF Within
<1>7. InOrder(u)
  <2> SUFFICES ASSUME NEW i \in DOMAIN u, NEW j \in DOMAIN u, i < j
               PROVE  \/ Rank(u[i].kind) < Rank(u[j].kind)
                      \/ /\ Rank(u[i].kind) = Rank(u[j].kind)
                         /\ u[i].kind \in PerPackage
    BY DEF InOrder
  <2>1. CASE i \in DOMAIN s /\ j \in DOMAIN s
    BY <1>4, <2>1 DEF InOrder
  <2>2. CASE i \in DOMAIN s /\ j \notin DOMAIN s
    <3>1. u[i] = s[i] /\ Rank(s[i].kind) <= mid
      BY <1>4, <2>2 DEF Within
    <3>2. /\ j - Len(s) \in DOMAIN t /\ u[j] = t[j - Len(s)]
          /\ next <= Rank(t[j - Len(s)].kind)
      BY <1>3, <2>2 DEF Within
    <3> QED BY <1>5, <3>1, <3>2
  <2>3. CASE i \notin DOMAIN s
    <3>1. j \notin DOMAIN s
      BY <1>2, <2>3
    <3>2. /\ i - Len(s) \in DOMAIN t /\ u[i] = t[i - Len(s)]
          /\ j - Len(s) \in DOMAIN t /\ u[j] = t[j - Len(s)]
          /\ i - Len(s) < j - Len(s)
      BY <1>2, <1>3, <2>3, <3>1
    <3> QED BY <3>2 DEF InOrder
  <2> QED BY <2>1, <2>2, <2>3
<1> QED
  BY <1>1, <1>4, <1>6, <1>7 DEF u

\* A list of requests whose ranks lie between two bounds, and what it contains.
Listed(S, s, low, high) == s \in Seq(S) /\ InOrder(s) /\ Within(s, low, high)
Includes(t, s) == \A i \in DOMAIN s : \E j \in DOMAIN t : t[j] = s[i]

\* The same, told by the two predicates.
LEMMA ConcatListed ==
  ASSUME NEW S, NEW s, NEW t,
         NEW low \in Nat, NEW mid \in Nat, NEW next \in Nat, NEW high \in Nat,
         Listed(S, s, low, mid), Listed(S, t, next, high),
         low <= mid, mid < next, next <= high
  PROVE  Listed(S, s \o t, low, high) /\ Includes(s \o t, s) /\ Includes(s \o t, t)
BY ConcatInOrder DEF Listed, Includes

\* What a part contains, the whole contains.
LEMMA IncludesMore ==
  ASSUME NEW r, NEW s, NEW t, Includes(t, s), Includes(s, r)
  PROVE  Includes(t, r)
BY DEF Includes

\* What is known of the packages of the scenario.
LEMMA ScenarioFacts ==
  ASSUME RemoteTyping
  PROVE  /\ scenario \in Scenario
         /\ scenario.packages \in Seq(AllPackages)
         /\ DOMAIN scenario.packages = 1..Len(scenario.packages)
         /\ Package \subseteq AllPackages
         /\ scenario.sources \subseteq Sources
<1>1. scenario \in Scenario
  BY ConstantsAssumption DEF RemoteTyping
<1>2. /\ scenario.packages \in Seq(AllPackages)
      /\ scenario.sources \subseteq Sources
  BY <1>1 DEF Scenario
<1> QED
  BY <1>1, <1>2 DEF Package

\* A list of one request.
LEMMA SingleStep ==
  ASSUME NEW K, NEW kind \in K, kind \notin PerPackage
  PROVE  /\ <<Step(kind)>> \in Seq(StepOf(K))
         /\ InOrder(<<Step(kind)>>)
         /\ Within(<<Step(kind)>>, Rank(kind), Rank(kind))
<1>1. Step(kind) \in StepOf(K) /\ Step(kind).kind = kind
  BY DEF Step, StepOf
<1>2. Rank(kind) \in Nat
  BY DEF Rank
<1> QED
  BY <1>1, <1>2 DEF InOrder, Within

\* One request for each package of the manifest.
LEMMA PackageSteps ==
  ASSUME RemoteTyping, NEW K, NEW kind \in K, kind \in PerPackage
  PROVE  /\ Of(kind) \in Seq(StepOf(K))
         /\ InOrder(Of(kind))
         /\ Within(Of(kind), Rank(kind), Rank(kind))
         /\ \A p \in Package :
              \E i \in DOMAIN Of(kind) : Of(kind)[i] = [kind |-> kind, package |-> p]
<1>1. /\ DOMAIN Of(kind) = 1..Len(scenario.packages)
      /\ Len(scenario.packages) \in Nat
      /\ \A i \in DOMAIN Of(kind) :
           /\ Of(kind)[i] = [kind |-> kind, package |-> scenario.packages[i]]
           /\ scenario.packages[i] \in Package
  BY ScenarioFacts DEF Of, Package
<1>2. Of(kind) = [i \in 1..Len(scenario.packages) |->
                    [kind |-> kind, package |-> scenario.packages[i]]]
  BY ScenarioFacts DEF Of
<1>3. \A i \in 1..Len(scenario.packages) :
        [kind |-> kind, package |-> scenario.packages[i]] \in StepOf(K)
  BY <1>1 DEF StepOf
<1>4. Of(kind) \in Seq(StepOf(K))
  BY <1>1, <1>2, <1>3
<1>5. \A i \in DOMAIN Of(kind) : Of(kind)[i].kind = kind
  <2> TAKE i \in DOMAIN Of(kind)
  <2>1. Of(kind)[i] = [kind |-> kind, package |-> scenario.packages[i]]
    BY <1>1
  <2> QED BY <2>1
<1>7. Rank(kind) \in Nat
  BY DEF Rank
<1>6. \A p \in Package :
        \E i \in DOMAIN Of(kind) : Of(kind)[i] = [kind |-> kind, package |-> p]
  BY <1>1, ScenarioFacts DEF Package
<1> QED
  BY <1>4, <1>5, <1>6, <1>7 DEF InOrder, Within

PromoteSteps == Gate \o <<Step("revise"), Step("submit")>>
HealthSteps ==
  <<Step("inventory")>> \o Of("provenance") \o <<Step("result"), Step("list")>>
    \o Of("fetch") \o <<Step("write")>>
SeedingSteps == <<Step("read")>> \o Of("seed")

\* A promotion starts with everything to do.
LEMMA PromoteStepsFacts ==
  /\ PromoteSteps \in Seq(StepOf(PromoteKinds))
  /\ InOrder(PromoteSteps)
  /\ \A kind \in PromoteKinds : \E i \in DOMAIN PromoteSteps : PromoteSteps[i].kind = kind
<1> DEFINE S == StepOf(PromoteKinds)
           t == <<Step("revise"), Step("submit")>>
<1>1. \A kind \in PromoteKinds : Step(kind) \in S /\ Step(kind).kind = kind
  BY DEF Step, StepOf, PromoteKinds, PerPackage
<1>2. /\ Gate \in Seq(S) /\ Len(Gate) = 2
      /\ Gate[1].kind = "inventory" /\ Gate[2].kind = "result"
      /\ t \in Seq(S) /\ Len(t) = 2
      /\ t[1].kind = "revise" /\ t[2].kind = "submit"
  <2> HIDE DEF S
  <2> QED BY <1>1 DEF Gate, PromoteKinds
<1>3. /\ PromoteSteps \in Seq(S)
      /\ DOMAIN PromoteSteps = 1..4
      /\ PromoteSteps[1].kind = "inventory" /\ PromoteSteps[2].kind = "result"
      /\ PromoteSteps[3].kind = "revise" /\ PromoteSteps[4].kind = "submit"
  <2> HIDE DEF S, t
  <2>1. /\ Gate \o t \in Seq(S) /\ Len(Gate \o t) = 4
        /\ \A i \in 1..4 : (Gate \o t)[i] = IF i <= 2 THEN Gate[i] ELSE t[i - 2]
    BY <1>2, ConcatProperties
  <2> QED BY <1>2, <2>1 DEF PromoteSteps, t
<1>4. /\ Rank("inventory") = 1 /\ Rank("result") = 3
      /\ Rank("revise") = 4 /\ Rank("submit") = 5
  BY DEF Rank
<1>5. InOrder(PromoteSteps)
  BY <1>3, <1>4 DEF InOrder
<1> QED
  BY <1>3, <1>5 DEF PromoteKinds

\* So does a health check, with a proof to find for every package.
LEMMA HealthStepsFacts ==
  ASSUME RemoteTyping
  PROVE  /\ HealthSteps \in Seq(StepOf(HealthKinds))
         /\ InOrder(HealthSteps)
         /\ \E i \in DOMAIN HealthSteps : HealthSteps[i].kind = "inventory"
         /\ \E i \in DOMAIN HealthSteps : HealthSteps[i].kind = "result"
         /\ \E i \in DOMAIN HealthSteps : HealthSteps[i].kind = "list"
         /\ \A p \in Package : \E i \in DOMAIN HealthSteps :
              HealthSteps[i] = [kind |-> "provenance", package |-> p]
<1> DEFINE S == StepOf(HealthKinds)
           a == <<Step("inventory")>>
           b == Of("provenance")
           c == <<Step("result"), Step("list")>>
           d == Of("fetch")
           e == <<Step("write")>>
<1>1. /\ Rank("inventory") = 1 /\ Rank("provenance") = 2 /\ Rank("result") = 3
      /\ Rank("list") = 4 /\ Rank("fetch") = 5 /\ Rank("write") = 6
  BY DEF Rank
<1>2. a \in Seq(S) /\ InOrder(a) /\ Within(a, 1, 1)
  BY <1>1, SingleStep DEF HealthKinds, PerPackage
<1>3. /\ b \in Seq(S) /\ InOrder(b) /\ Within(b, 2, 2)
      /\ \A p \in Package :
           \E i \in DOMAIN b : b[i] = [kind |-> "provenance", package |-> p]
  BY <1>1, PackageSteps DEF HealthKinds, PerPackage
<1>4. /\ c \in Seq(S) /\ InOrder(c) /\ Within(c, 3, 4)
      /\ 1 \in DOMAIN c /\ c[1].kind = "result"
      /\ 2 \in DOMAIN c /\ c[2].kind = "list"
  <2>1. /\ Step("result") \in S /\ Step("result").kind = "result"
        /\ Step("list") \in S /\ Step("list").kind = "list"
    BY DEF Step, StepOf, HealthKinds, PerPackage
  <2> QED BY <1>1, <2>1 DEF InOrder, Within
<1>5. d \in Seq(S) /\ InOrder(d) /\ Within(d, 5, 5)
  BY <1>1, PackageSteps DEF HealthKinds, PerPackage
<1>6. e \in Seq(S) /\ InOrder(e) /\ Within(e, 6, 6)
  BY <1>1, SingleStep DEF HealthKinds, PerPackage
<1>7. 1 \in DOMAIN a /\ a[1].kind = "inventory"
  BY DEF Step
<1> HIDE DEF S, a, b, c, d, e
<1> DEFINE ab == a \o b
           abc == ab \o c
           abcd == abc \o d
<1>8. Listed(S, ab, 1, 2) /\ Includes(ab, a) /\ Includes(ab, b)
  <2>1. Listed(S, a, 1, 1) /\ Listed(S, b, 2, 2)
    BY <1>2, <1>3 DEF Listed
  <2> QED BY <2>1, ConcatListed
<1> HIDE DEF ab
<1>9. Listed(S, abc, 1, 4) /\ Includes(abc, ab) /\ Includes(abc, c)
  <2>1. Listed(S, c, 3, 4)
    BY <1>4 DEF Listed
  <2> QED BY <1>8, <2>1, ConcatListed
<1> HIDE DEF abc
<1>10. Listed(S, abcd, 1, 5) /\ Includes(abcd, abc)
  <2>1. Listed(S, d, 5, 5)
    BY <1>5 DEF Listed
  <2> QED BY <1>9, <2>1, ConcatListed
<1> HIDE DEF abcd
<1>11. Listed(S, abcd \o e, 1, 6) /\ Includes(abcd \o e, abcd)
  <2>1. Listed(S, e, 6, 6)
    BY <1>6 DEF Listed
  <2> QED BY <1>10, <2>1, ConcatListed
<1>12. HealthSteps = abcd \o e
  BY DEF HealthSteps, abcd, abc, ab, a, b, c, d, e
<1>13. Includes(HealthSteps, abc)
  BY <1>10, <1>11, <1>12, IncludesMore
<1>14. Includes(HealthSteps, c) /\ Includes(HealthSteps, ab)
  BY <1>9, <1>13, IncludesMore
<1>18. Includes(HealthSteps, a) /\ Includes(HealthSteps, b)
  BY <1>8, <1>14, IncludesMore
<1>15. \A p \in Package : \E i \in DOMAIN HealthSteps :
              HealthSteps[i] = [kind |-> "provenance", package |-> p]
  BY <1>3, <1>18 DEF Includes
<1>16. \E i \in DOMAIN HealthSteps : HealthSteps[i].kind = "inventory"
  BY <1>7, <1>18 DEF Includes
<1>17. /\ \E i \in DOMAIN HealthSteps : HealthSteps[i].kind = "result"
       /\ \E i \in DOMAIN HealthSteps : HealthSteps[i].kind = "list"
  BY <1>4, <1>14 DEF Includes
<1> QED
  BY <1>11, <1>12, <1>15, <1>16, <1>17 DEF S, Listed

\* And the seeding of staging.
LEMMA SeedingStepsFacts ==
  ASSUME RemoteTyping
  PROVE  /\ SeedingSteps \in Seq(StepOf({"read", "seed"}))
         /\ InOrder(SeedingSteps)
<1> DEFINE S == StepOf({"read", "seed"})
<1>1. Rank("read") = 1 /\ Rank("seed") = 2
  BY DEF Rank
<1>2. /\ <<Step("read")>> \in Seq(S)
      /\ InOrder(<<Step("read")>>) /\ Within(<<Step("read")>>, 1, 1)
  BY <1>1, SingleStep DEF PerPackage
<1>3. /\ Of("seed") \in Seq(S)
      /\ InOrder(Of("seed")) /\ Within(Of("seed"), 2, 2)
  BY <1>1, PackageSteps DEF PerPackage
<1> HIDE DEF S
<1> DEFINE a == <<Step("read")>>
           b == Of("seed")
<1>4. /\ a \in Seq(S) /\ InOrder(a) /\ Within(a, 1, 1)
      /\ b \in Seq(S) /\ InOrder(b) /\ Within(b, 2, 2)
  BY <1>2, <1>3
<1> HIDE DEF a, b
<1>5. a \o b \in Seq(S) /\ InOrder(a \o b)
  BY <1>4, ConcatInOrder
<1> QED
  BY <1>5 DEF SeedingSteps, S, a, b

-----------------------------------------------------------------------------
(* One request of a command.                                               *)

\* A request is made by the command that has it first on its list.
LEMMA WhoAsks ==
  ASSUME CmdTyping
  PROVE  /\ \A kind : AtStep(kind) => cmd.steps # << >> /\ Head(cmd.steps).kind = kind
         /\ AtStep("revise") \/ AtStep("submit") => cmd \in Promotion
         /\ AtStep("inventory") \/ AtStep("result") => cmd \in Promotion \cup Check
         /\ AtStep("copy") => cmd \in Rollback
         /\ AtStep("read") \/ AtStep("seed") => cmd \in Seeding
         /\ AtStep("provenance") \/ AtStep("fetch") => cmd \in Check
         /\ AtStep("list") \/ AtStep("write") => cmd \in Check
         /\ AtStep("seed") \/ AtStep("provenance") \/ AtStep("fetch")
              => Subject \in Package
<1>1. \A kind : AtStep(kind) => cmd # Idle
  BY DEF AtStep, Idle
<1>2. ASSUME NEW kinds, cmd.steps \in Seq(StepOf(kinds)), cmd.steps # << >>
      PROVE  /\ Head(cmd.steps).kind \in kinds
             /\ Head(cmd.steps).kind \in PerPackage => Subject \in Package
  <2>1. Head(cmd.steps) \in StepOf(kinds)
    BY <1>2
  <2> QED BY <2>1 DEF StepOf, Subject
<1>3. CASE cmd = Idle
  BY <1>1, <1>3
<1>4. CASE cmd \in Promotion
  <2>1. cmd.steps \in Seq(StepOf(PromoteKinds))
    BY <1>4 DEF Promotion
  <2> QED BY <1>2, <1>4, <2>1 DEF AtStep, PromoteKinds
<1>5. CASE cmd \in Rollback
  <2>1. cmd.steps \in Seq(StepOf({"copy"}))
    BY <1>5 DEF Rollback
  <2> QED BY <1>2, <1>5, <2>1 DEF AtStep
<1>6. CASE cmd \in Seeding
  <2>1. cmd.steps \in Seq(StepOf({"read", "seed"}))
    BY <1>6 DEF Seeding
  <2> QED BY <1>2, <1>6, <2>1 DEF AtStep, PerPackage
<1>7. CASE cmd \in Check
  <2>1. cmd.steps \in Seq(StepOf(HealthKinds))
    BY <1>7 DEF Check
  <2> QED BY <1>2, <1>7, <2>1 DEF AtStep, HealthKinds, PerPackage
<1> QED
  BY <1>3, <1>4, <1>5, <1>6, <1>7 DEF CmdTyping

\* A command that goes on has what `with` gave it.
GoesOn(with, Commands) ==
  /\ cmd' \in Commands
  /\ cmd' = [with EXCEPT !.steps = Tail(cmd.steps)]
  /\ Advances

\* Proceed ends a command or lets it go on as one of its kind.
LEMMA CommandProceeds ==
  ASSUME Ordered, cmd.steps # << >>,
         NEW with, with.steps = cmd.steps, Proceed(with)
  PROVE  /\ with \in Promotion => cmd' = Idle \/ GoesOn(with, Promotion)
         /\ with \in Check => cmd' = Idle \/ GoesOn(with, Check)
         /\ with \in Rollback => cmd' = Idle \/ GoesOn(with, Rollback)
         /\ with \in Seeding => cmd' = Idle \/ GoesOn(with, Seeding)
<1>1. cmd' = Idle \/ cmd' = [with EXCEPT !.steps = Tail(cmd.steps)]
  BY DEF Proceed
<1>2. ASSUME NEW kinds, with.steps \in Seq(StepOf(kinds)),
             cmd'.steps = Tail(cmd.steps)
      PROVE  Advances /\ Tail(cmd.steps) \in Seq(StepOf(kinds))
  BY <1>2, StepsAdvance, TailProperties
<1>3. ASSUME with \in Promotion, cmd' = [with EXCEPT !.steps = Tail(cmd.steps)]
      PROVE  GoesOn(with, Promotion)
  <2>1. with.steps \in Seq(StepOf(PromoteKinds)) /\ cmd'.steps = Tail(cmd.steps)
    BY <1>3 DEF Promotion
  <2>2. Advances /\ Tail(cmd.steps) \in Seq(StepOf(PromoteKinds))
    BY <1>2, <2>1
  <2> QED BY <1>3, <2>2 DEF GoesOn, Promotion
<1>4. ASSUME with \in Check, cmd' = [with EXCEPT !.steps = Tail(cmd.steps)]
      PROVE  GoesOn(with, Check)
  <2>1. with.steps \in Seq(StepOf(HealthKinds)) /\ cmd'.steps = Tail(cmd.steps)
    BY <1>4 DEF Check
  <2>2. Advances /\ Tail(cmd.steps) \in Seq(StepOf(HealthKinds))
    BY <1>2, <2>1
  <2> QED BY <1>4, <2>2 DEF GoesOn, Check
<1>5. ASSUME with \in Rollback, cmd' = [with EXCEPT !.steps = Tail(cmd.steps)]
      PROVE  GoesOn(with, Rollback)
  <2>1. with.steps \in Seq(StepOf({"copy"})) /\ cmd'.steps = Tail(cmd.steps)
    BY <1>5 DEF Rollback
  <2>2. Advances /\ Tail(cmd.steps) \in Seq(StepOf({"copy"}))
    BY <1>2, <2>1
  <2> QED BY <1>5, <2>2 DEF GoesOn, Rollback
<1>6. ASSUME with \in Seeding, cmd' = [with EXCEPT !.steps = Tail(cmd.steps)]
      PROVE  GoesOn(with, Seeding)
  <2>1. with.steps \in Seq(StepOf({"read", "seed"})) /\ cmd'.steps = Tail(cmd.steps)
    BY <1>6 DEF Seeding
  <2>2. Advances /\ Tail(cmd.steps) \in Seq(StepOf({"read", "seed"}))
    BY <1>2, <2>1
  <2> QED BY <1>6, <2>2 DEF GoesOn, Seeding
<1> QED
  BY <1>1, <1>3, <1>4, <1>5, <1>6

\* The packages stay the same.
LEMMA PackagesStay ==
  ASSUME UNCHANGED scenario
  PROVE  /\ Package' = Package
         /\ Seen' = Seen /\ Request' = Request
         /\ Promotion' = Promotion /\ Rollback' = Rollback
         /\ Seeding' = Seeding /\ Check' = Check
<1>1. Package' = Package
  BY DEF Package
<1>2. Seen' = Seen /\ Request' = Request
  BY <1>1 DEF Seen, Request
<1>3. \A kinds : StepOf(kinds)' = StepOf(kinds)
  BY <1>1 DEF StepOf
<1> QED
  BY <1>1, <1>2, <1>3 DEF Promotion, Rollback, Seeding, Check

\* The sources a command is told are those of the service.
LEMMA SeenSources ==
  ASSUME RemoteTyping, NEW r \in Remotes
  PROVE  /\ SourceRevisions(r) \in Seen
         /\ \A p \in Package :
              Present(r, p) =>
                /\ SourceRevisions(r)[p] = [source |-> Latest(r, p).source,
                                            revision |-> Len(history[r][p])]
                /\ Latest(r, p) \in Revision
                /\ Len(history[r][p]) \in DOMAIN history[r][p]
                /\ Latest(r, p) = history[r][p][Len(history[r][p])]
<1>1. ASSUME NEW p \in Package, Present(r, p)
      PROVE  /\ Latest(r, p) \in Revision
             /\ Len(history[r][p]) \in DOMAIN history[r][p]
             /\ Latest(r, p) = history[r][p][Len(history[r][p])]
             /\ Len(history[r][p]) \in Nat
  <2>1. history[r][p] \in Seq(Revision) /\ history[r][p] # << >>
    BY <1>1 DEF RemoteTyping, Present
  <2>2. Len(history[r][p]) \in DOMAIN history[r][p]
    BY <2>1
  <2> QED BY <2>1, <2>2 DEF Latest
<1>2. ASSUME NEW p \in Package
      PROVE  (IF Present(r, p)
              THEN [source |-> Latest(r, p).source, revision |-> Len(history[r][p])]
              ELSE None) \in [source : Sources, revision : Nat] \cup {None}
  BY <1>1 DEF Revision
<1> QED
  BY <1>1, <1>2 DEF SourceRevisions, Seen

\* One more revision of a package, and nothing else.
Added(r, p, s, request) ==
  /\ history' \in [Remotes -> [Package -> Seq(Revision)]]
  /\ dirty' \in [Remotes -> BOOLEAN] /\ dirty'[r]
  /\ \A q \in Remotes : q # r => dirty'[q] = dirty[q] /\ history'[q] = history[q]
  /\ \A q \in Package : q # p => history'[r][q] = history[r][q]
  /\ Len(history'[r][p]) = Len(history[r][p]) + 1
  /\ DOMAIN history'[r][p] = 1..(Len(history[r][p]) + 1)
  /\ DOMAIN history[r][p] = 1..Len(history[r][p]) /\ Len(history[r][p]) \in Nat
  /\ \A i \in DOMAIN history[r][p] : history'[r][p][i] = history[r][p][i]
  /\ history'[r][p][Len(history[r][p]) + 1] = [source |-> s, request |-> request]
  /\ UNCHANGED <<binary, state>>

\* Add does that.
LEMMA AddAdds ==
  ASSUME RemoteTyping, NEW r \in Remotes, NEW p \in Package, NEW s \in Sources,
         NEW request \in Nat, Add(r, p, s, request)
  PROVE  Added(r, p, s, request)
<1> DEFINE new == [source |-> s, request |-> request]
           h == history[r][p]
<1>1. h \in Seq(Revision) /\ new \in Revision
  BY DEF RemoteTyping, Revision
<1>2. history' = [history EXCEPT ![r] = [history[r] EXCEPT ![p] = Append(h, new)]]
  BY DEF Add
<1>3. history[r] \in [Package -> Seq(Revision)]
  BY DEF RemoteTyping
<1> HIDE DEF new, h
<1>4. /\ Append(h, new) \in Seq(Revision)
      /\ Len(Append(h, new)) = Len(h) + 1
      /\ DOMAIN Append(h, new) = 1..(Len(h) + 1)
      /\ DOMAIN h = 1..Len(h) /\ Len(h) \in Nat
      /\ \A i \in DOMAIN h : Append(h, new)[i] = h[i]
      /\ Append(h, new)[Len(h) + 1] = new
  BY <1>1
<1>5. [history[r] EXCEPT ![p] = Append(h, new)] \in [Package -> Seq(Revision)]
  BY <1>3, <1>4
<1>6. /\ history' \in [Remotes -> [Package -> Seq(Revision)]]
      /\ history'[r] = [history[r] EXCEPT ![p] = Append(h, new)]
      /\ \A q \in Remotes : q # r => history'[q] = history[q]
  BY <1>2, <1>5 DEF RemoteTyping
<1>7. history'[r][p] = Append(h, new) /\ \A q \in Package : q # p => history'[r][q] = history[r][q]
  BY <1>3, <1>6
<1>8. /\ dirty' \in [Remotes -> BOOLEAN] /\ dirty'[r]
      /\ \A q \in Remotes : q # r => dirty'[q] = dirty[q]
      /\ UNCHANGED <<binary, state>>
  BY DEF Add, RemoteTyping
<1> QED
  BY <1>4, <1>6, <1>7, <1>8 DEF Added, new, h


\* Each kind of command is told by its name.
LEMMA Names ==
  /\ Idle.name = "idle" /\ Idle.steps = << >>
  /\ \A c \in Promotion : c.name = "promote" /\ c.remote = "staging"
  /\ \A c \in Rollback : c.name = "rollback" /\ c.remote = "staging"
  /\ \A c \in Seeding : c.name = "init-staging" /\ c.remote = "release"
  /\ \A c \in Check : c.name = "health" /\ c.remote = "release"
BY DEF Idle, Promotion, Rollback, Seeding, Check

SamePromotion ==
  /\ cmd \in Promotion /\ cmd' \in Promotion
  /\ cmd'.package = cmd.package /\ cmd'.pinned = cmd.pinned /\ cmd'.source = cmd.source
  /\ Advances

SameCheck ==
  /\ cmd \in Check /\ cmd' \in Check
  /\ cmd'.seen = cmd.seen /\ cmd'.listed = cmd.listed
  /\ Advances

\* A request that only asks leaves the command what it knows.
LEMMA CommandStays ==
  ASSUME Ordered, cmd.steps # << >>, Proceed(cmd)
  PROVE  /\ cmd \in Promotion => cmd' = Idle \/ SamePromotion
         /\ cmd \in Check => cmd' = Idle \/ SameCheck
         /\ cmd \in Rollback => cmd' \in {Idle} \cup Rollback
         /\ cmd \in Seeding => cmd' \in {Idle} \cup Seeding
<1>1. ASSUME GoesOn(cmd, Promotion), cmd \in Promotion
      PROVE  SamePromotion
  BY <1>1 DEF GoesOn, SamePromotion, Promotion
<1>2. ASSUME GoesOn(cmd, Check), cmd \in Check
      PROVE  SameCheck
  BY <1>2 DEF GoesOn, SameCheck, Check
<1>3. /\ GoesOn(cmd, Rollback) => cmd' \in Rollback
      /\ GoesOn(cmd, Seeding) => cmd' \in Seeding
  BY DEF GoesOn
<1>4. cmd.steps = cmd.steps
  OBVIOUS
<1> QED
  BY <1>1, <1>2, <1>3, <1>4, CommandProceeds

\* Every way a command moves: it ends, or makes its next request.
Ordering == cmd' = Idle \/ Advances

\* The sources are all there, and a health check keeps them.
LEMMA InventoryAnswer ==
  ASSUME RemoteTyping, CmdTyping, Ordered, Inventory
  PROVE  /\ Head(cmd.steps).kind = "inventory"
         /\ Reads
         /\ \/ cmd' = Idle
            \/ SamePromotion
            \/ /\ cmd \in Check /\ cmd' \in Check
               /\ cmd'.seen = SourceRevisions("release")
               /\ cmd'.listed = cmd.listed
               /\ \A p \in Package : Present("release", p)
               /\ Advances
<1>1. AtStep("inventory") /\ Reads
  BY DEF Inventory
<1>2. cmd.steps # << >> /\ Head(cmd.steps).kind = "inventory" /\ cmd \in Promotion \cup Check
  BY <1>1, WhoAsks
<1>3. CASE cmd \in Promotion
  <2>1. Proceed(cmd)
    BY <1>3, Names DEF Inventory
  <2> QED BY <1>1, <1>2, <1>3, <2>1, CommandStays
<1>4. CASE cmd \in Check
  <2> DEFINE with == [cmd EXCEPT !.seen = SourceRevisions("release")]
  <2>1. Proceed(with) /\ \A p \in Package : Present("release", p)
    BY <1>4, Names DEF Inventory
  <2>2. SourceRevisions("release") \in Seen
    BY SeenSources DEF Remotes
  <2>3. /\ with \in Check /\ with.steps = cmd.steps
        /\ with.seen = SourceRevisions("release") /\ with.listed = cmd.listed
    BY <1>4, <2>2 DEF Check
  <2> HIDE DEF with
  <2>4. cmd' = Idle \/ GoesOn(with, Check)
    BY <1>2, <2>1, <2>3, CommandProceeds
  <2>5. GoesOn(with, Check) => /\ cmd' \in Check /\ Advances
                               /\ cmd'.seen = with.seen /\ cmd'.listed = with.listed
    BY <2>3 DEF GoesOn, Check
  <2> QED BY <1>1, <1>2, <1>4, <2>1, <2>3, <2>4, <2>5
<1> QED
  BY <1>2, <1>3, <1>4

\* Everything is built and published.
LEMMA ResultAnswer ==
  ASSUME RemoteTyping, CmdTyping, Ordered, TargetResult
  PROVE  /\ Head(cmd.steps).kind = "result"
         /\ Reads
         /\ ~dirty[cmd.remote]
         /\ \A p \in Package : state[cmd.remote][p] = "succeeded"
         /\ cmd' = Idle \/ SamePromotion \/ SameCheck
<1>1. AtStep("result") /\ Reads /\ Proceed(cmd) /\ ~dirty[cmd.remote]
      /\ \A p \in Package : state[cmd.remote][p] = "succeeded"
  BY DEF TargetResult
<1>2. cmd.steps # << >> /\ Head(cmd.steps).kind = "result" /\ cmd \in Promotion \cup Check
  BY <1>1, WhoAsks
<1> QED
  BY <1>1, <1>2, CommandStays

\* What is found now is what will be submitted.
LEMMA ReviseAnswer ==
  ASSUME RemoteTyping, CmdTyping, Ordered, Revise
  PROVE  /\ Head(cmd.steps).kind = "revise"
         /\ Reads
         /\ cmd \in Promotion
         /\ Present("staging", cmd.package)
         /\ Latest("staging", cmd.package).source \in Sources
         /\ cmd.pinned \in {None, Latest("staging", cmd.package).source}
         /\ \/ cmd' = Idle
            \/ /\ cmd' \in Promotion
               /\ cmd'.package = cmd.package /\ cmd'.pinned = cmd.pinned
               /\ cmd'.source = Latest("staging", cmd.package).source
               /\ Advances
<1> DEFINE found == Latest("staging", cmd.package).source
           with == [cmd EXCEPT !.source = found]
<1>1. /\ AtStep("revise") /\ Reads /\ Proceed(with)
      /\ Present("staging", cmd.package) /\ cmd.pinned \in {None, found}
  BY DEF Revise
<1>2. cmd.steps # << >> /\ Head(cmd.steps).kind = "revise" /\ cmd \in Promotion
  BY <1>1, WhoAsks
<1>3. cmd.package \in Package
  BY <1>2 DEF Promotion
<1>4. found \in Sources
  BY <1>1, <1>3, SeenSources DEF Remotes, Revision
<1> HIDE DEF found
<1>5. /\ with \in Promotion /\ with.steps = cmd.steps /\ with.package = cmd.package
      /\ with.pinned = cmd.pinned /\ with.source = found
  BY <1>2, <1>4 DEF Promotion
<1> HIDE DEF with
<1>6. cmd' = Idle \/ GoesOn(with, Promotion)
  BY <1>1, <1>2, <1>5, CommandProceeds
<1>7. GoesOn(with, Promotion) =>
        /\ cmd' \in Promotion /\ Advances /\ cmd'.package = with.package
        /\ cmd'.pinned = with.pinned /\ cmd'.source = with.source
  BY <1>5 DEF GoesOn, Promotion
<1> QED
  BY <1>1, <1>2, <1>4, <1>5, <1>6, <1>7 DEF found

\* The request of a promotion, and the copies of the other commands.
LEMMA OtherAnswers ==
  ASSUME RemoteTyping, CmdTyping, Ordered
  PROVE  /\ SubmitRequest => /\ Head(cmd.steps).kind = "submit"
                             /\ cmd' = Idle \/ SamePromotion
         /\ CopyRevision => cmd \in Rollback /\ cmd' \in {Idle} \cup Rollback /\ Ordering
         /\ Seed => cmd \in Seeding /\ cmd' \in {Idle} \cup Seeding /\ Ordering
         /\ Provenance => /\ Head(cmd.steps).kind = "provenance"
                          /\ cmd' = Idle \/ SameCheck
         /\ Fetch => Head(cmd.steps).kind = "fetch" /\ (cmd' = Idle \/ SameCheck)
         /\ WriteReport => /\ Head(cmd.steps).kind = "write" /\ cmd \in Check
                           /\ cmd' = Idle \/ SameCheck
<1>1. ASSUME SubmitRequest
      PROVE  Head(cmd.steps).kind = "submit" /\ (cmd' = Idle \/ SamePromotion)
  <2>1. AtStep("submit") /\ Proceed(cmd)
    BY <1>1 DEF SubmitRequest
  <2> QED BY <2>1, WhoAsks, CommandStays
<1>2. ASSUME Proceed(cmd), cmd.steps # << >>, cmd \in Rollback \cup Seeding
      PROVE  Ordering
  <2>1. /\ cmd \in Rollback => cmd' = Idle \/ GoesOn(cmd, Rollback)
        /\ cmd \in Seeding => cmd' = Idle \/ GoesOn(cmd, Seeding)
    BY <1>2, CommandProceeds
  <2> QED BY <1>2, <2>1 DEF GoesOn, Ordering
<1>3. ASSUME CopyRevision
      PROVE  cmd \in Rollback /\ cmd' \in {Idle} \cup Rollback /\ Ordering
  <2>1. AtStep("copy") /\ Proceed(cmd)
    BY <1>3 DEF CopyRevision
  <2>2. cmd \in Rollback /\ cmd.steps # << >>
    BY <2>1, WhoAsks
  <2> QED BY <1>2, <2>1, <2>2, CommandStays
<1>4. ASSUME Seed
      PROVE  cmd \in Seeding /\ cmd' \in {Idle} \cup Seeding /\ Ordering
  <2>1. AtStep("seed") /\ Proceed(cmd)
    BY <1>4 DEF Seed
  <2>2. cmd \in Seeding /\ cmd.steps # << >>
    BY <2>1, WhoAsks
  <2> QED BY <1>2, <2>1, <2>2, CommandStays
<1>5. ASSUME Provenance
      PROVE  Head(cmd.steps).kind = "provenance" /\ (cmd' = Idle \/ SameCheck)
  <2>1. AtStep("provenance") /\ Proceed(cmd)
    BY <1>5 DEF Provenance
  <2> QED BY <2>1, WhoAsks, CommandStays
<1>6. ASSUME Fetch
      PROVE  Head(cmd.steps).kind = "fetch" /\ (cmd' = Idle \/ SameCheck)
  <2>1. AtStep("fetch") /\ Proceed(cmd)
    BY <1>6 DEF Fetch
  <2> QED BY <2>1, WhoAsks, CommandStays
<1>7. ASSUME WriteReport
      PROVE  Head(cmd.steps).kind = "write" /\ cmd \in Check /\ (cmd' = Idle \/ SameCheck)
  <2>1. AtStep("write") /\ Proceed(cmd)
    BY <1>7 DEF WriteReport
  <2> QED BY <2>1, WhoAsks, CommandStays
<1> QED
  BY <1>1, <1>3, <1>4, <1>5, <1>6, <1>7

\* What seeding reads first.
LEMMA ReadAnswer ==
  ASSUME RemoteTyping, CmdTyping, Ordered, ReadRelease
  PROVE  cmd \in Seeding /\ cmd' \in {Idle} \cup Seeding /\ Ordering
<1> DEFINE with == [cmd EXCEPT !.seen = SourceRevisions("release")]
<1>1. AtStep("read") /\ Proceed(with)
  BY DEF ReadRelease
<1>2. cmd.steps # << >> /\ cmd \in Seeding
  BY <1>1, WhoAsks
<1>3. with \in Seeding /\ with.steps = cmd.steps
  BY <1>2, SeenSources DEF Seeding, Remotes
<1> HIDE DEF with
<1> QED
  BY <1>1, <1>2, <1>3, CommandProceeds DEF GoesOn, Ordering

\* The health check keeps the list of the public packages.
LEMMA ListAnswer ==
  ASSUME RemoteTyping, CmdTyping, Ordered, ListBinaries
  PROVE  /\ Head(cmd.steps).kind = "list"
         /\ Reads
         /\ \/ cmd' = Idle
            \/ /\ cmd \in Check /\ cmd' \in Check
               /\ cmd'.seen = cmd.seen
               /\ cmd'.listed = binary["release"]
               /\ Advances
<1> DEFINE with == [cmd EXCEPT !.listed = binary["release"]]
<1>1. AtStep("list") /\ Proceed(with) /\ Reads
  BY DEF ListBinaries
<1>2. cmd.steps # << >> /\ cmd \in Check /\ Head(cmd.steps).kind = "list"
  BY <1>1, WhoAsks
<1>3. binary["release"] \in [Package -> Sources \cup {None}]
  BY DEF RemoteTyping, Remotes
<1>4. with \in Check /\ with.steps = cmd.steps /\ with.seen = cmd.seen
      /\ with.listed = binary["release"]
  BY <1>2, <1>3 DEF Check
<1> HIDE DEF with
<1>5. cmd' = Idle \/ GoesOn(with, Check)
  BY <1>1, <1>2, <1>4, CommandProceeds
<1>6. GoesOn(with, Check) => /\ cmd' \in Check /\ Advances
                             /\ cmd'.seen = with.seen /\ cmd'.listed = with.listed
  BY <1>4 DEF GoesOn, Check
<1> QED
  BY <1>1, <1>2, <1>4, <1>5, <1>6

\* What a command starts with.
Started(kinds) ==
  /\ cmd = Idle
  /\ \A kind \in kinds : Left(kind)'
  /\ Ordered'

\* A promotion starts with all its requests to make.
LEMMA PromoteStarts ==
  ASSUME RemoteTyping, NEW p \in Package, NEW pinned \in Sources \cup {None},
         NEW execute \in BOOLEAN, StartPromote(p, pinned, execute)
  PROVE  /\ Started(PromoteKinds)
         /\ cmd' \in Promotion
         /\ cmd'.package = p /\ cmd'.pinned = pinned
<1>1. cmd' = [name |-> "promote", remote |-> "staging", package |-> p, pinned |-> pinned,
              execute |-> execute, source |-> None, steps |-> PromoteSteps]
  BY DEF StartPromote, PromoteSteps
<1>2. cmd'.steps = PromoteSteps /\ cmd = Idle
  BY <1>1 DEF StartPromote
<1>3. Ordered' /\ \A kind \in PromoteKinds : Left(kind)'
  BY <1>2, PromoteStepsFacts DEF Ordered, Left
<1> QED
  BY <1>1, <1>2, <1>3, PromoteStepsFacts DEF Promotion, Started

\* So does a health check, with a proof to ask for of each package.
LEMMA HealthStarts ==
  ASSUME RemoteTyping, StartHealth
  PROVE  /\ Started({"inventory", "result", "list"})
         /\ cmd' \in Check
         /\ \A p \in Package :
              \E i \in DOMAIN cmd'.steps : cmd'.steps[i] = [kind |-> "provenance", package |-> p]
<1>1. cmd' = [name |-> "health", remote |-> "release", execute |-> FALSE,
              seen |-> [p \in Package |-> None], listed |-> [p \in Package |-> None],
              steps |-> HealthSteps]
  BY DEF StartHealth, HealthSteps
<1>2. cmd'.steps = HealthSteps /\ cmd = Idle
  BY <1>1 DEF StartHealth
<1>3. Ordered' /\ Left("inventory")' /\ Left("result")' /\ Left("list")'
  BY <1>2, HealthStepsFacts DEF Ordered, Left
<1>4. cmd' \in Check
  BY <1>1, HealthStepsFacts DEF Check, Seen
<1> QED
  BY <1>2, <1>3, <1>4, HealthStepsFacts DEF Started

\* Rollback and init-staging start in order too.
LEMMA OthersStart ==
  ASSUME RemoteTyping, NEW execute \in BOOLEAN
  PROVE  /\ StartInit(execute) => cmd' \in Seeding /\ Ordered'
         /\ \A p \in Package, s \in Sources :
              StartRollback(p, s, execute) => cmd' \in Rollback /\ Ordered'
<1>1. ASSUME StartInit(execute)
      PROVE  cmd' \in Seeding /\ Ordered'
  <2>1. cmd' = [name |-> "init-staging", remote |-> "release", execute |-> execute,
                seen |-> [p \in Package |-> None], steps |-> SeedingSteps]
    BY <1>1 DEF StartInit, SeedingSteps
  <2>2. cmd'.steps = SeedingSteps
    BY <2>1
  <2> QED BY <2>1, <2>2, SeedingStepsFacts DEF Seeding, Seen, Ordered
<1>2. ASSUME NEW p \in Package, NEW s \in Sources, StartRollback(p, s, execute)
      PROVE  cmd' \in Rollback /\ Ordered'
  <2>1. /\ <<Step("copy")>> \in Seq(StepOf({"copy"}))
        /\ InOrder(<<Step("copy")>>)
    BY SingleStep DEF PerPackage
  <2>2. cmd' = [name |-> "rollback", remote |-> "staging", package |-> p,
                execute |-> execute, source |-> s, steps |-> <<Step("copy")>>]
    BY <1>2 DEF StartRollback
  <2>3. cmd'.steps = <<Step("copy")>>
    BY <2>2
  <2> QED BY <2>1, <2>2, <2>3 DEF Rollback, Ordered
<1> QED
  BY <1>1, <1>2

-----------------------------------------------------------------------------
(* Every step, seen from the service.                                      *)

\* What promote submits is a source once it has looked.
Revised == cmd.name = "promote" /\ ~Left("revise") => cmd.source \in Sources

Typing == RemoteTyping /\ CmdTyping /\ Ordered /\ Revised

\* The projects: nothing happens, a revision is added, or one is published.
Adds ==
  \E r \in Remotes, p \in Package, s \in Sources, request \in Nat :
    /\ Added(r, p, s, request)
    /\ r = "staging" /\ "quiet" \in scenario.careful => cmd.name # "promote"
    /\ r = "release" => /\ request \in {0} \cup DOMAIN requests
                        /\ "freeze" \in scenario.careful => cmd.name # "health"
    /\ UNCHANGED green
RemoteMoves ==
  \/ UNCHANGED <<history, binary, state, dirty, green>>
  \/ Adds
  \/ \E r \in Remotes : Publish(r)

\* The submit requests: promote's own, a foreign one, an answer to one.
RequestsMove ==
  \/ UNCHANGED requests
  \/ \E p \in Package, s \in Sources :
       /\ cmd \in Promotion /\ p = cmd.package /\ s = cmd.source
       /\ Head(cmd.steps).kind = "submit" /\ cmd.steps # << >>
       /\ Submit(p, s, "staging")
  \/ \E p \in Package, s \in Sources : Submit(p, s, "elsewhere")
  \/ \E i \in DOMAIN requests, answer \in {"accepted", "revoked"} :
       requests' = [requests EXCEPT ![i].state = answer]

\* A contributor's, maintainer's or the service's own step.
LEMMA ServiceMoves ==
  ASSUME Typing, Service
  PROVE  RemoteMoves /\ RequestsMove /\ UNCHANGED <<cmd, report>>
<1>0. RemoteTyping /\ scenario.sources \subseteq Sources
  BY ScenarioFacts DEF Typing
<1>1. ASSUME NEW p \in Package, NEW s \in scenario.sources, Commit(p, s)
      PROVE  RemoteMoves /\ RequestsMove /\ UNCHANGED <<cmd, report>>
  <2>1. Added("staging", p, s, 0)
    BY <1>0, <1>1, AddAdds DEF Commit, Remotes
  <2>2. Adds
    BY <1>0, <1>1, <2>1 DEF Commit, Adds, Remotes
  <2> QED BY <1>1, <2>2 DEF Commit, RemoteMoves, RequestsMove
<1>2. ASSUME NEW p \in Package, NEW s \in scenario.sources, DirectCommit(p, s)
      PROVE  RemoteMoves /\ RequestsMove /\ UNCHANGED <<cmd, report>>
  <2>1. Added("release", p, s, 0)
    BY <1>0, <1>2, AddAdds DEF DirectCommit, Remotes
  <2>2. Adds
    BY <1>0, <1>2, <2>1 DEF DirectCommit, Adds, Remotes
  <2> QED BY <1>2, <2>2 DEF DirectCommit, RemoteMoves, RequestsMove
<1>3. ASSUME NEW p \in Package, NEW s \in scenario.sources, ForeignRequest(p, s)
      PROVE  RemoteMoves /\ RequestsMove /\ UNCHANGED <<cmd, report>>
  BY <1>0, <1>3 DEF ForeignRequest, RemoteMoves, RequestsMove
<1>4. ASSUME NEW r \in Remotes, Publish(r)
      PROVE  RemoteMoves /\ RequestsMove /\ UNCHANGED <<cmd, report>>
  <2>1. UNCHANGED <<history, requests, cmd, report>>
    BY <1>4 DEF Publish
  <2> QED BY <1>4, <2>1 DEF RemoteMoves, RequestsMove
<1>5. ASSUME NEW i \in DOMAIN requests, Accept(i)
      PROVE  RemoteMoves /\ RequestsMove /\ UNCHANGED <<cmd, report>>
  <2>1. requests[i] \in Request /\ i \in Nat
    BY <1>0 DEF RemoteTyping
  <2>2. requests[i].package \in Package /\ requests[i].source \in Sources
    BY <2>1 DEF Request
  <2>3. Added("release", requests[i].package, requests[i].source, i)
    BY <1>0, <1>5, <2>1, <2>2, AddAdds DEF Accept, Remotes
  <2>4. Adds
    <3>1. /\ "freeze" \in scenario.careful => cmd.name # "health"
          /\ UNCHANGED green
      BY <1>5 DEF Accept
    <3> DEFINE p == requests[i].package
               s == requests[i].source
    <3>2. p \in Package /\ s \in Sources /\ Added("release", p, s, i) /\ i \in Nat
      BY <2>1, <2>2, <2>3
    <3> HIDE DEF p, s
    <3> QED BY <3>1, <3>2 DEF Adds, Remotes
  <2>5. requests' = [requests EXCEPT ![i].state = "accepted"] /\ UNCHANGED <<cmd, report>>
    BY <1>5 DEF Accept
  <2> QED BY <2>4, <2>5 DEF RemoteMoves, RequestsMove
<1>6. ASSUME NEW i \in DOMAIN requests, Revoke(i)
      PROVE  RemoteMoves /\ RequestsMove /\ UNCHANGED <<cmd, report>>
  BY <1>6 DEF Revoke, RemoteMoves, RequestsMove
<1> QED
  BY <1>1, <1>2, <1>3, <1>4, <1>5, <1>6 DEF Service

\* A step of the command: all but three only ask.
LEMMA CliMoves ==
  ASSUME Typing, Cli
  PROVE  RemoteMoves /\ RequestsMove
<1>0. RemoteTyping /\ CmdTyping /\ Ordered /\ Revised
  BY DEF Typing
<1>1. ASSUME Reads
      PROVE  RemoteMoves /\ RequestsMove
  BY <1>1 DEF Reads, RemoteMoves, RequestsMove
<1>2. ASSUME SubmitRequest
      PROVE  RemoteMoves /\ RequestsMove
  <2>1. /\ UNCHANGED <<history, binary, state, dirty, green>>
        /\ UNCHANGED requests \/ Submit(cmd.package, cmd.source, "staging")
        /\ AtStep("submit")
    BY <1>2 DEF SubmitRequest
  <2>2. cmd \in Promotion /\ cmd.steps # << >> /\ Head(cmd.steps).kind = "submit"
    BY <1>0, <2>1, WhoAsks
  <2>3. cmd.package \in Package /\ cmd.name = "promote" /\ cmd.steps \in Seq(StepOf(PromoteKinds))
    BY <2>2 DEF Promotion
  <2>4. ~Left("revise")
    <3>1. Rank("revise") < Rank("submit")
      BY DEF Rank
    <3> QED BY <1>0, <2>2, <2>3, <3>1, HeadIsLeast
  <2>5. cmd.source \in Sources
    BY <1>0, <2>3, <2>4 DEF Revised
  <2>6. RequestsMove
    BY <2>1, <2>2, <2>3, <2>5 DEF RequestsMove
  <2> QED BY <2>1, <2>6 DEF RemoteMoves
<1>3. ASSUME CopyRevision
      PROVE  RemoteMoves /\ RequestsMove
  <2>1. cmd \in Rollback
    BY <1>0, <1>3, OtherAnswers
  <2>2. cmd.package \in Package /\ cmd.source \in Sources /\ cmd.name = "rollback"
    BY <2>1 DEF Rollback
  <2>3. UNCHANGED remote \/ Added("staging", cmd.package, cmd.source, 0)
    BY <1>0, <1>3, <2>2, AddAdds DEF CopyRevision, Remotes
  <2>4. UNCHANGED <<requests, green>>
    BY <1>3 DEF CopyRevision
  <2>5. ASSUME Added("staging", cmd.package, cmd.source, 0)
        PROVE  Adds
    <3> DEFINE p == cmd.package
               s == cmd.source
    <3>1. p \in Package /\ s \in Sources /\ Added("staging", p, s, 0)
      BY <2>2, <2>5
    <3> HIDE DEF p, s
    <3> QED BY <2>2, <2>4, <3>1 DEF Adds, Remotes
  <2> QED BY <2>3, <2>4, <2>5 DEF RemoteMoves, RequestsMove, remote
<1>4. ASSUME Seed
      PROVE  RemoteMoves /\ RequestsMove
  <2>1. cmd \in Seeding /\ Subject \in Package
    BY <1>0, <1>4, WhoAsks DEF Seed
  <2>2. cmd.seen \in Seen /\ cmd.name = "init-staging"
    BY <2>1 DEF Seeding
  <2> DEFINE p == Subject
             s == cmd.seen[Subject].source
  <2>3. p \in Package /\ s \in Sources
    <3>1. cmd.seen[Subject] \in [source : Sources, revision : Nat]
      BY <1>4, <2>1, <2>2 DEF Seed, Seen
    <3> QED BY <2>1, <3>1
  <2>4. UNCHANGED remote \/ Add("staging", p, s, 0)
    BY <1>4 DEF Seed
  <2>5. UNCHANGED <<requests, green>>
    BY <1>4 DEF Seed
  <2> HIDE DEF p, s
  <2>6. ASSUME Add("staging", p, s, 0)
        PROVE  Adds
    <3>1. Added("staging", p, s, 0)
      BY <1>0, <2>3, <2>6, AddAdds DEF Remotes
    <3> QED BY <2>2, <2>3, <2>5, <3>1 DEF Adds, Remotes
  <2> QED BY <2>4, <2>5, <2>6 DEF RemoteMoves, RequestsMove, remote
<1>5. ASSUME WriteReport
      PROVE  RemoteMoves /\ RequestsMove
  BY <1>5 DEF WriteReport, RemoteMoves, RequestsMove
<1>6. /\ Inventory => Reads
      /\ TargetResult => Reads
      /\ Revise => Reads
      /\ ReadRelease => Reads
      /\ Provenance => Reads
      /\ ListBinaries => Reads
      /\ Fetch => Reads
      /\ Fail => Reads
  <2>1. Inventory => Reads
    BY DEF Inventory
  <2>2. TargetResult => Reads
    BY DEF TargetResult
  <2>3. Revise => Reads
    BY DEF Revise
  <2>4. ReadRelease => Reads
    BY DEF ReadRelease
  <2>5. Provenance => Reads
    BY DEF Provenance
  <2>6. ListBinaries => Reads
    BY DEF ListBinaries
  <2>7. Fetch => Reads
    BY DEF Fetch
  <2>8. Fail => Reads
    BY DEF Fail
  <2> QED BY <2>1, <2>2, <2>3, <2>4, <2>5, <2>6, <2>7, <2>8
<1> QED
  BY <1>1, <1>2, <1>3, <1>4, <1>5, <1>6 DEF Cli

\* All steps.
LEMMA EveryStep ==
  ASSUME Typing, [Next]_vars
  PROVE  /\ RemoteMoves /\ RequestsMove
         /\ UNCHANGED scenario
         /\ UNCHANGED report \/ WriteReport
<1>1. CASE Service /\ UNCHANGED scenario
  BY <1>1, ServiceMoves
<1>2. CASE Start /\ UNCHANGED scenario
  BY <1>2 DEF Start, RemoteMoves, RequestsMove
<1>3. CASE Cli /\ UNCHANGED scenario
  <2>1. UNCHANGED report \/ WriteReport
    <3>1. /\ SubmitRequest => UNCHANGED report
          /\ CopyRevision => UNCHANGED report
          /\ Seed => UNCHANGED report
      BY DEF SubmitRequest, CopyRevision, Seed
    <3>2. /\ Inventory => UNCHANGED report
          /\ TargetResult => UNCHANGED report
          /\ Revise => UNCHANGED report
          /\ ReadRelease => UNCHANGED report
      BY DEF Inventory, TargetResult, Revise, ReadRelease, Reads
    <3>3. /\ Provenance => UNCHANGED report
          /\ ListBinaries => UNCHANGED report
          /\ Fetch => UNCHANGED report
          /\ Fail => UNCHANGED report
      BY DEF Provenance, ListBinaries, Fetch, Fail, Reads
    <3> QED BY <1>3, <3>1, <3>2, <3>3 DEF Cli
  <2> QED BY <1>3, <2>1, CliMoves
<1>4. CASE UNCHANGED vars
  BY <1>4 DEF vars, RemoteMoves, RequestsMove
<1> QED
  BY <1>1, <1>2, <1>3, <1>4 DEF Next

-----------------------------------------------------------------------------
(* Types, and what a command knows when it submits.                        *)

\* One more revision, and the histories are lists of revisions as before.
LEMMA RemoteStep ==
  ASSUME Typing, [Next]_vars
  PROVE  RemoteTyping'
<1>0. /\ RemoteTyping /\ UNCHANGED scenario /\ Package' = Package /\ Request' = Request
      /\ RemoteMoves /\ RequestsMove
  BY EveryStep, PackagesStay DEF Typing
<1>1. requests' \in Seq(Request) /\ DOMAIN requests \subseteq DOMAIN requests'
  <2>1. CASE UNCHANGED requests
    BY <1>0, <2>1 DEF RemoteTyping
  <2>2. ASSUME NEW p \in Package, NEW s \in Sources, NEW origin \in {"staging", "elsewhere"},
               Submit(p, s, origin)
        PROVE  requests' \in Seq(Request) /\ DOMAIN requests \subseteq DOMAIN requests'
    <3> DEFINE new == [package |-> p, source |-> s, origin |-> origin, state |-> "new"]
    <3>1. new \in Request /\ requests' = Append(requests, new) /\ requests \in Seq(Request)
      BY <1>0, <2>2 DEF Request, Submit, RemoteTyping
    <3> HIDE DEF new
    <3> QED BY <3>1
  <2>3. ASSUME NEW i \in DOMAIN requests, NEW answer \in {"accepted", "revoked"},
               requests' = [requests EXCEPT ![i].state = answer]
        PROVE  requests' \in Seq(Request) /\ DOMAIN requests \subseteq DOMAIN requests'
    <3>1. requests \in Seq(Request) /\ requests[i] \in Request
      BY <1>0 DEF RemoteTyping
    <3> DEFINE new == [requests[i] EXCEPT !.state = answer]
    <3>2. new \in Request /\ requests' = [requests EXCEPT ![i] = new]
      BY <2>3, <3>1 DEF Request
    <3> HIDE DEF new
    <3> QED BY <3>1, <3>2
  <2> QED BY <1>0, <2>1, <2>2, <2>3 DEF RequestsMove
<1>2. ASSUME UNCHANGED <<history, binary, state, dirty, green>>
      PROVE  RemoteTyping'
  BY <1>0, <1>1, <1>2 DEF RemoteTyping
<1>3. ASSUME NEW r \in Remotes, NEW p \in Package, NEW s \in Sources, NEW request \in Nat,
             Added(r, p, s, request), UNCHANGED green,
             r = "release" => request \in {0} \cup DOMAIN requests
      PROVE  RemoteTyping'
  <2>1. \A q \in Package : \A i \in DOMAIN history'["release"][q] :
          history'["release"][q][i].request \in {0} \cup DOMAIN requests'
    <3> TAKE q \in Package
    <3>1. CASE r # "release" \/ q # p
      <4>1. history'["release"][q] = history["release"][q]
        BY <1>3, <3>1 DEF Added, Remotes
      <4> QED BY <1>0, <1>1, <4>1 DEF RemoteTyping
    <3>2. CASE r = "release" /\ q = p
      <4>1. ASSUME NEW i \in DOMAIN history'["release"][p]
            PROVE  history'["release"][p][i].request \in {0} \cup DOMAIN requests'
        <5>1. \/ i \in DOMAIN history["release"][p] /\ history'["release"][p][i] = history["release"][p][i]
              \/ history'["release"][p][i] = [source |-> s, request |-> request]
          BY <1>3, <3>2, <4>1 DEF Added
        <5> QED BY <1>0, <1>1, <1>3, <3>2, <5>1 DEF RemoteTyping
      <4> QED BY <3>2, <4>1
    <3> QED BY <3>1, <3>2
  <2>2. /\ history' \in [Remotes -> [Package -> Seq(Revision)]]
        /\ dirty' \in [Remotes -> BOOLEAN]
        /\ UNCHANGED <<binary, state>>
    BY <1>3 DEF Added
  <2> QED BY <1>0, <1>1, <1>3, <2>1, <2>2 DEF RemoteTyping
<1>4. ASSUME NEW r \in Remotes, Publish(r)
      PROVE  RemoteTyping'
  <2> DEFINE built == {p \in Package : Present(r, p) /\ Latest(r, p).source \notin Broken}
  <2>1. \A p \in built : p \in Package /\ Latest(r, p).source \in Sources
    BY <1>0, SeenSources DEF Revision
  <2>2. /\ dirty' = [dirty EXCEPT ![r] = FALSE]
        /\ state' = [state EXCEPT ![r] =
                       [p \in Package |-> IF p \in built THEN "succeeded" ELSE "failed"]]
        /\ binary' = [binary EXCEPT ![r] =
                        [p \in Package |-> IF p \in built THEN Latest(r, p).source ELSE binary[r][p]]]
        /\ green' = green \cup (IF r = "staging"
                                THEN {<<p, Latest(r, p).source>> : p \in built} ELSE {})
        /\ UNCHANGED <<history, requests>>
    BY <1>4, <1>0 DEF Publish, RemoteTyping
  <2> HIDE DEF built
  <2>3. dirty' \in [Remotes -> BOOLEAN]
    BY <1>0, <2>2 DEF RemoteTyping
  <2>4. state' \in [Remotes -> [Package -> {"succeeded", "failed"}]]
    BY <1>0, <2>2 DEF RemoteTyping
  <2>5. binary' \in [Remotes -> [Package -> Sources \cup {None}]]
    <3>1. [p \in Package |-> IF p \in built THEN Latest(r, p).source ELSE binary[r][p]]
            \in [Package -> Sources \cup {None}]
      BY <1>0, <2>1 DEF RemoteTyping
    <3> QED BY <1>0, <2>2, <3>1 DEF RemoteTyping
  <2>6. green' \subseteq Package \X Sources
    BY <1>0, <2>1, <2>2 DEF RemoteTyping
  <2> QED BY <1>0, <1>1, <2>2, <2>3, <2>4, <2>5, <2>6 DEF RemoteTyping
<1> QED
  BY <1>0, <1>2, <1>3, <1>4 DEF RemoteMoves, Adds

\* A command stays one of the four, its requests stay in order, and a
\* promotion that has looked has a source.
LEMMA CmdStep ==
  ASSUME Typing, [Next]_vars
  PROVE  CmdTyping' /\ Ordered' /\ Revised'
<1>0. /\ RemoteTyping /\ CmdTyping /\ Ordered /\ Revised /\ UNCHANGED scenario
      /\ scenario.sources \subseteq Sources
  BY EveryStep, ScenarioFacts DEF Typing
<1>1. /\ Package' = Package
      /\ Promotion' = Promotion /\ Rollback' = Rollback
      /\ Seeding' = Seeding /\ Check' = Check
  BY <1>0, PackagesStay
<1>2. ASSUME UNCHANGED cmd
      PROVE  CmdTyping' /\ Ordered' /\ Revised'
  BY <1>0, <1>1, <1>2 DEF CmdTyping, Ordered, Revised, Left
<1>3. ASSUME cmd' = Idle
      PROVE  CmdTyping' /\ Ordered' /\ Revised'
  <2>1. Ordered'
    BY <1>3, Names DEF Ordered, InOrder
  <2> QED BY <1>3, <2>1, Names DEF CmdTyping, Revised, Idle
<1>4. ASSUME cmd' \in Rollback \cup Seeding \cup Check, Ordered'
      PROVE  CmdTyping' /\ Ordered' /\ Revised'
  BY <1>1, <1>4, Names DEF CmdTyping, Revised
<1>5. ASSUME cmd' \in Promotion, Ordered', Left("revise")' \/ cmd'.source \in Sources
      PROVE  CmdTyping' /\ Ordered' /\ Revised'
  BY <1>1, <1>5 DEF CmdTyping, Revised
<1>6. ASSUME SamePromotion, Head(cmd.steps).kind # "revise"
      PROVE  CmdTyping' /\ Ordered' /\ Revised'
  <2>1. /\ cmd' \in Promotion /\ cmd.name = "promote" /\ cmd'.source = cmd.source
        /\ Ordered' /\ (Left("revise") => Left("revise")')
    BY <1>6, Names DEF SamePromotion, Advances
  <2> QED BY <1>0, <1>5, <2>1 DEF Revised
<1>7. ASSUME SameCheck
      PROVE  CmdTyping' /\ Ordered' /\ Revised'
  BY <1>4, <1>7 DEF SameCheck, Advances
<1>8. CASE Service
  BY <1>2, <1>8, ServiceMoves
<1>9. CASE Start
  <2>1. ASSUME NEW p \in Package, NEW s \in Sources \cup {None}, NEW execute \in BOOLEAN,
               StartPromote(p, s, execute)
        PROVE  CmdTyping' /\ Ordered' /\ Revised'
    <3>1. cmd' \in Promotion /\ Ordered' /\ Left("revise")'
      BY <1>0, <2>1, PromoteStarts DEF Started, PromoteKinds
    <3> QED BY <1>5, <3>1
  <2>2. ASSUME NEW p \in Package, NEW s \in Sources, NEW execute \in BOOLEAN,
               StartRollback(p, s, execute)
        PROVE  CmdTyping' /\ Ordered' /\ Revised'
    BY <1>0, <1>4, <2>2, OthersStart
  <2>3. ASSUME NEW execute \in BOOLEAN, StartInit(execute)
        PROVE  CmdTyping' /\ Ordered' /\ Revised'
    BY <1>0, <1>4, <2>3, OthersStart
  <2>4. ASSUME StartHealth
        PROVE  CmdTyping' /\ Ordered' /\ Revised'
    BY <1>0, <1>4, <2>4, HealthStarts DEF Started
  <2> QED BY <1>0, <1>9, <2>1, <2>2, <2>3, <2>4 DEF Start
<1>10. CASE Inventory
  <2>1. Head(cmd.steps).kind # "revise"
    BY <1>0, <1>10, InventoryAnswer
  <2>2. \/ cmd' = Idle \/ SamePromotion \/ (cmd' \in Check /\ Ordered')
    BY <1>0, <1>10, InventoryAnswer DEF Advances
  <2> QED BY <1>3, <1>4, <1>6, <2>1, <2>2
<1>11. CASE TargetResult
  <2>1. Head(cmd.steps).kind # "revise" /\ (cmd' = Idle \/ SamePromotion \/ SameCheck)
    BY <1>0, <1>11, ResultAnswer
  <2> QED BY <1>3, <1>6, <1>7, <2>1
<1>12. CASE Revise
  <2>1. cmd' = Idle \/ (cmd' \in Promotion /\ Ordered' /\ cmd'.source \in Sources)
    BY <1>0, <1>12, ReviseAnswer DEF Advances
  <2> QED BY <1>3, <1>5, <2>1
<1>13. CASE SubmitRequest
  <2>1. Head(cmd.steps).kind # "revise" /\ (cmd' = Idle \/ SamePromotion)
    BY <1>0, <1>13, OtherAnswers
  <2> QED BY <1>3, <1>6, <2>1
<1>14. CASE CopyRevision \/ Seed
  <2>1. cmd' \in {Idle} \cup Rollback \cup Seeding /\ Ordering
    BY <1>0, <1>14, OtherAnswers
  <2>2. cmd' = Idle \/ Ordered'
    BY <2>1 DEF Ordering, Advances
  <2> QED BY <1>3, <1>4, <2>1, <2>2
<1>15. CASE ReadRelease
  <2>1. cmd' \in {Idle} \cup Seeding /\ Ordering
    BY <1>0, <1>15, ReadAnswer
  <2>2. cmd' = Idle \/ Ordered'
    BY <2>1 DEF Ordering, Advances
  <2> QED BY <1>3, <1>4, <2>1, <2>2
<1>16. CASE Provenance \/ Fetch \/ WriteReport
  <2>1. cmd' = Idle \/ SameCheck
    BY <1>0, <1>16, OtherAnswers
  <2> QED BY <1>3, <1>7, <2>1
<1>17. CASE ListBinaries
  <2>1. cmd' = Idle \/ (cmd' \in Check /\ Ordered')
    BY <1>0, <1>17, ListAnswer DEF Advances
  <2> QED BY <1>3, <1>4, <2>1
<1>18. CASE Fail
  BY <1>3, <1>18 DEF Fail
<1>19. CASE UNCHANGED vars
  BY <1>2, <1>19 DEF vars
<1> QED
  BY <1>8, <1>9, <1>10, <1>11, <1>12, <1>13, <1>14, <1>15, <1>16, <1>17, <1>18, <1>19
     DEF Next, Cli

\* All of it is kept.
LEMMA TypingStep ==
  ASSUME Typing, [Next]_vars
  PROVE  Typing'
BY RemoteStep, CmdStep DEF Typing

-----------------------------------------------------------------------------
(* The service between two requests.                                       *)

Careful == scenario.careful \cap {"pin", "quiet"} # {}

\* A project that published everything and got nothing new since is what it
\* built; in staging, what it built is green.
CleanInv ==
  \A r \in Remotes : ~dirty[r] =>
    \A p \in Package : state[r][p] = "succeeded" =>
      /\ Present(r, p) /\ binary[r][p] = Latest(r, p).source
      /\ r = "staging" => <<p, Latest(r, p).source>> \in green

\* What was once green stays so, and the history of release only grows.
LEMMA Grows ==
  ASSUME RemoteTyping, RemoteMoves
  PROVE  /\ green \subseteq green'
         /\ \A p \in Package : \A i \in DOMAIN history["release"][p] :
              /\ i \in DOMAIN history'["release"][p]
              /\ history'["release"][p][i] = history["release"][p][i]
<1>1. CASE UNCHANGED <<history, binary, state, dirty, green>>
  BY <1>1
<1>2. ASSUME NEW r \in Remotes, NEW p \in Package, NEW s \in Sources, NEW request \in Nat,
             Added(r, p, s, request), UNCHANGED green,
             NEW q \in Package, NEW i \in DOMAIN history["release"][q]
      PROVE  i \in DOMAIN history'["release"][q] /\ history'["release"][q][i] = history["release"][q][i]
  <2>1. CASE r # "release" \/ q # p
    <3>1. history'["release"][q] = history["release"][q]
      BY <1>2, <2>1 DEF Added, Remotes
    <3> QED BY <3>1
  <2>2. CASE r = "release" /\ q = p
    <3>1. i \in DOMAIN history[r][p]
      BY <1>2, <2>2
    <3>2. i \in DOMAIN history'[r][p] /\ history'[r][p][i] = history[r][p][i]
      BY <1>2, <3>1 DEF Added
    <3> QED BY <2>2, <3>2
  <2> QED BY <2>1, <2>2
<1>3. ASSUME NEW r \in Remotes, Publish(r)
      PROVE  UNCHANGED history /\ green \subseteq green'
  BY <1>3 DEF Publish
<1> QED
  BY <1>1, <1>2, <1>3 DEF RemoteMoves, Adds

\* A project whose history stays says the same of its packages.
LEMMA SameHistory ==
  ASSUME NEW r, history'[r] = history[r], UNCHANGED scenario
  PROVE  /\ \A p : Present(r, p)' = Present(r, p) /\ Latest(r, p)' = Latest(r, p)
         /\ SourceRevisions(r)' = SourceRevisions(r)
<1>1. \A p : Present(r, p)' = Present(r, p) /\ Latest(r, p)' = Latest(r, p)
  BY DEF Present, Latest
<1>2. Package' = Package
  BY DEF Package
<1> QED
  BY <1>1, <1>2 DEF SourceRevisions

\* While those who promised to wait do, nothing is added, and what is
\* published stays.
LEMMA SettledStays ==
  ASSUME RemoteTyping, RemoteMoves, NEW r \in Remotes,
         \/ r = "staging" /\ "quiet" \in scenario.careful /\ cmd.name = "promote"
         \/ r = "release" /\ "freeze" \in scenario.careful /\ cmd.name = "health"
  PROVE  /\ history'[r] = history[r]
         /\ ~dirty[r] => /\ ~dirty'[r] /\ state'[r] = state[r] /\ binary'[r] = binary[r]
<1>1. CASE UNCHANGED <<history, binary, state, dirty, green>>
  BY <1>1
<1>2. ASSUME NEW q \in Remotes, NEW p \in Package, NEW s \in Sources, NEW request \in Nat,
             Added(q, p, s, request), q # r
      PROVE  /\ history'[r] = history[r] /\ dirty'[r] = dirty[r]
             /\ UNCHANGED <<state, binary>>
  BY <1>2 DEF Added
<1>3. ASSUME NEW q \in Remotes, Publish(q)
      PROVE  /\ history'[r] = history[r]
             /\ ~dirty[r] => /\ ~dirty'[r] /\ state'[r] = state[r] /\ binary'[r] = binary[r]
  <2>1. UNCHANGED history /\ dirty[q]
    BY <1>3 DEF Publish
  <2>2. CASE q # r
    BY <1>3, <2>1, <2>2 DEF Publish, RemoteTyping
  <2>3. CASE q = r
    BY <2>1, <2>3
  <2> QED BY <2>2, <2>3
<1>4. CASE Adds
  <2>1. PICK q \in Remotes, p \in Package, s \in Sources, request \in Nat :
          /\ Added(q, p, s, request)
          /\ q = "staging" /\ "quiet" \in scenario.careful => cmd.name # "promote"
          /\ q = "release" => ("freeze" \in scenario.careful => cmd.name # "health")
    BY <1>4 DEF Adds
  <2>2. q # r
    BY <2>1
  <2> QED BY <1>2, <2>1, <2>2
<1> QED
  BY <1>1, <1>3, <1>4 DEF RemoteMoves

\* Publishing establishes it, and a new revision makes it void.
LEMMA CleanStep ==
  ASSUME Typing, CleanInv, [Next]_vars
  PROVE  CleanInv'
<1>0. /\ RemoteTyping /\ RemoteMoves /\ UNCHANGED scenario /\ Package' = Package
      /\ green \subseteq green'
  BY EveryStep, PackagesStay, Grows DEF Typing
<1> DEFINE Good(r) == ~dirty[r] =>
      \A p \in Package : state[r][p] = "succeeded" =>
        /\ Present(r, p) /\ binary[r][p] = Latest(r, p).source
        /\ r = "staging" => <<p, Latest(r, p).source>> \in green
<1>1. \A r \in Remotes : Good(r)
  BY DEF CleanInv
<1>2. ASSUME NEW r \in Remotes, history'[r] = history[r], dirty'[r] = dirty[r],
             state'[r] = state[r], binary'[r] = binary[r]
      PROVE  Good(r)'
  <2>1. \A p : Present(r, p)' = Present(r, p) /\ Latest(r, p)' = Latest(r, p)
    BY <1>0, <1>2, SameHistory
  <2> QED BY <1>0, <1>1, <1>2, <2>1
<1>3. CASE UNCHANGED <<history, binary, state, dirty, green>>
  BY <1>0, <1>2, <1>3 DEF CleanInv
<1>4. ASSUME NEW q \in Remotes, NEW p \in Package, NEW s \in Sources, NEW request \in Nat,
             Added(q, p, s, request), NEW r \in Remotes
      PROVE  Good(r)'
  <2>1. CASE r = q
    <3>1. dirty'[r]
      BY <1>4, <2>1 DEF Added
    <3> QED BY <3>1
  <2>2. CASE r # q
    <3>1. /\ history'[r] = history[r] /\ dirty'[r] = dirty[r]
          /\ state'[r] = state[r] /\ binary'[r] = binary[r]
      BY <1>4, <2>2 DEF Added
    <3> QED BY <1>2, <3>1
  <2> QED BY <2>1, <2>2
<1>5. ASSUME NEW q \in Remotes, Publish(q), NEW r \in Remotes
      PROVE  Good(r)'
  <2> DEFINE built == {p \in Package : Present(q, p) /\ Latest(q, p).source \notin Broken}
  <2>1. /\ state' = [state EXCEPT ![q] =
                       [p \in Package |-> IF p \in built THEN "succeeded" ELSE "failed"]]
        /\ binary' = [binary EXCEPT ![q] =
                        [p \in Package |-> IF p \in built THEN Latest(q, p).source ELSE binary[q][p]]]
        /\ dirty' = [dirty EXCEPT ![q] = FALSE]
        /\ green' = green \cup (IF q = "staging"
                                THEN {<<p, Latest(q, p).source>> : p \in built} ELSE {})
        /\ UNCHANGED history
    BY <1>0, <1>5 DEF Publish, RemoteTyping
  <2>2. \A p \in built : Present(q, p)
    OBVIOUS
  <2> HIDE DEF built
  <2>3. CASE r # q
    <3>1. /\ history'[r] = history[r] /\ dirty'[r] = dirty[r]
          /\ state'[r] = state[r] /\ binary'[r] = binary[r]
      BY <1>0, <2>1, <2>3 DEF RemoteTyping
    <3> QED BY <1>2, <3>1
  <2>4. CASE r = q
    <3>1. /\ state'[q] = [p \in Package |-> IF p \in built THEN "succeeded" ELSE "failed"]
          /\ binary'[q] = [p \in Package |-> IF p \in built THEN Latest(q, p).source ELSE binary[q][p]]
      BY <1>0, <2>1, <1>5 DEF RemoteTyping
    <3>2. \A p : Present(q, p)' = Present(q, p) /\ Latest(q, p)' = Latest(q, p)
      BY <1>0, <2>1, SameHistory
    <3>3. ASSUME NEW p \in Package, state'[q][p] = "succeeded"
          PROVE  /\ Present(q, p) /\ binary'[q][p] = Latest(q, p).source
                 /\ q = "staging" => <<p, Latest(q, p).source>> \in green'
      <4>1. p \in built
        BY <3>1, <3>3
      <4>2. binary'[q][p] = Latest(q, p).source
        BY <3>1, <4>1
      <4>3. q = "staging" => <<p, Latest(q, p).source>> \in green'
        BY <2>1, <4>1
      <4> QED BY <2>2, <4>1, <4>2, <4>3
    <3> QED BY <1>0, <2>4, <3>2, <3>3
  <2> QED BY <2>3, <2>4
<1> QED
  BY <1>0, <1>3, <1>4, <1>5 DEF CleanInv, RemoteMoves, Adds

-----------------------------------------------------------------------------
(* What a promotion knows.                                                  *)

\* With a pin, the pinned source is green; if nobody commits meanwhile, what
\* was found published still is; in either case what it submits is green.
PromoteInv ==
  cmd.name = "promote" =>
    /\ "pin" \in scenario.careful => cmd.pinned # None
    /\ cmd.pinned # None => <<cmd.package, cmd.pinned>> \in green
    /\ "quiet" \in scenario.careful /\ ~Left("result") =>
         ~dirty["staging"] /\ \A p \in Package : state["staging"][p] = "succeeded"
    /\ ~Left("revise") /\ Careful => <<cmd.package, cmd.source>> \in green

\* A promotion that finds everything published takes a green source.
LEMMA PromoteStep ==
  ASSUME Typing, CleanInv, PromoteInv, [Next]_vars
  PROVE  PromoteInv'
<1>0. /\ RemoteTyping /\ CmdTyping /\ Ordered /\ RemoteMoves
      /\ UNCHANGED scenario /\ Package' = Package /\ green \subseteq green'
  BY EveryStep, PackagesStay, Grows DEF Typing
<1> DEFINE Settled == ~dirty["staging"] /\ \A p \in Package : state["staging"][p] = "succeeded"
<1>1. Careful' = Careful
  BY <1>0 DEF Careful
<1>2. cmd.name = "promote" /\ "quiet" \in scenario.careful /\ Settled => Settled'
  <2>1. cmd.name = "promote" /\ "quiet" \in scenario.careful =>
          (~dirty["staging"] => ~dirty'["staging"] /\ state'["staging"] = state["staging"])
    BY <1>0, SettledStays DEF Remotes
  <2> QED BY <1>0, <2>1
<1> HIDE DEF Settled
<1>3. cmd.name = "promote" =>
        /\ "pin" \in scenario.careful => cmd.pinned # None
        /\ cmd.pinned # None => <<cmd.package, cmd.pinned>> \in green
        /\ "quiet" \in scenario.careful /\ ~Left("result") => Settled
        /\ ~Left("revise") /\ Careful => <<cmd.package, cmd.source>> \in green
  BY DEF PromoteInv, Settled
<1>4. ASSUME cmd'.name = "promote" =>
               /\ "pin" \in scenario.careful => cmd'.pinned # None
               /\ cmd'.pinned # None => <<cmd'.package, cmd'.pinned>> \in green'
               /\ "quiet" \in scenario.careful /\ ~Left("result")' => Settled'
               /\ ~Left("revise")' /\ Careful => <<cmd'.package, cmd'.source>> \in green'
      PROVE  PromoteInv'
  BY <1>0, <1>1, <1>4 DEF PromoteInv, Settled
<1>5. ASSUME UNCHANGED cmd
      PROVE  PromoteInv'
  <2>1. \A kind : Left(kind)' = Left(kind)
    BY <1>5 DEF Left
  <2> QED BY <1>0, <1>2, <1>3, <1>4, <1>5, <2>1
<1>6. ASSUME cmd'.name # "promote"
      PROVE  PromoteInv'
  BY <1>4, <1>6
<1>7. ASSUME SamePromotion, Head(cmd.steps).kind # "revise",
             Head(cmd.steps).kind = "result" => Settled
      PROVE  PromoteInv'
  <2>1. /\ cmd.name = "promote" /\ cmd'.package = cmd.package
        /\ cmd'.pinned = cmd.pinned /\ cmd'.source = cmd.source
        /\ Left("revise") => Left("revise")'
        /\ Head(cmd.steps).kind # "result" /\ Left("result") => Left("result")'
    BY <1>7, Names DEF SamePromotion, Advances
  <2> QED BY <1>0, <1>2, <1>3, <1>4, <1>7, <2>1
<1>8. ASSUME cmd' = Idle \/ cmd' \in Rollback \cup Seeding \cup Check
      PROVE  PromoteInv'
  BY <1>6, <1>8, Names
<1>9. CASE Service
  BY <1>5, <1>9, ServiceMoves
<1>10. CASE Start
  <2>1. ASSUME NEW p \in Package, NEW s \in Sources \cup {None}, NEW execute \in BOOLEAN,
               StartPromote(p, s, execute)
        PROVE  PromoteInv'
    <3>1. Left("result")' /\ Left("revise")' /\ cmd'.package = p /\ cmd'.pinned = s
      BY <1>0, <2>1, PromoteStarts DEF Started, PromoteKinds
    <3>2. /\ "pin" \in scenario.careful => s # None
          /\ s # None => <<p, s>> \in green
      BY <2>1 DEF StartPromote
    <3> QED BY <1>0, <1>4, <3>1, <3>2
  <2>2. ASSUME NEW p \in Package, NEW s \in Sources, NEW execute \in BOOLEAN,
               StartRollback(p, s, execute)
        PROVE  PromoteInv'
    BY <1>0, <1>8, <2>2, OthersStart
  <2>3. ASSUME NEW execute \in BOOLEAN, StartInit(execute)
        PROVE  PromoteInv'
    BY <1>0, <1>8, <2>3, OthersStart
  <2>4. ASSUME StartHealth
        PROVE  PromoteInv'
    BY <1>0, <1>8, <2>4, HealthStarts
  <2>5. scenario.sources \subseteq Sources
    BY <1>0, ScenarioFacts
  <2> QED BY <1>10, <2>1, <2>2, <2>3, <2>4, <2>5 DEF Start
<1>11. CASE Inventory
  <2>1. /\ Head(cmd.steps).kind = "inventory"
        /\ cmd' = Idle \/ SamePromotion \/ cmd' \in Check
    BY <1>0, <1>11, InventoryAnswer
  <2> QED BY <1>7, <1>8, <2>1
<1>12. CASE TargetResult
  <2>1. /\ Head(cmd.steps).kind = "result"
        /\ cmd' = Idle \/ SamePromotion \/ SameCheck
        /\ ~dirty[cmd.remote] /\ \A p \in Package : state[cmd.remote][p] = "succeeded"
    BY <1>0, <1>12, ResultAnswer
  <2>2. ASSUME SamePromotion
        PROVE  Settled
    <3>1. cmd.remote = "staging"
      BY <2>2, Names DEF SamePromotion
    <3> QED BY <2>1, <3>1 DEF Settled
  <2>3. SameCheck => cmd' \in Check
    BY DEF SameCheck
  <2> QED BY <1>7, <1>8, <2>1, <2>2, <2>3
<1>13. CASE Revise
  <2> DEFINE found == Latest("staging", cmd.package).source
  <2>1. /\ Head(cmd.steps).kind = "revise" /\ cmd \in Promotion /\ Reads
        /\ Present("staging", cmd.package) /\ cmd.pinned \in {None, found}
        /\ \/ cmd' = Idle
           \/ /\ cmd' \in Promotion
              /\ cmd'.package = cmd.package /\ cmd'.pinned = cmd.pinned
              /\ cmd'.source = found /\ Advances
    BY <1>0, <1>13, ReviseAnswer
  <2>2. cmd.name = "promote" /\ cmd.package \in Package
        /\ cmd.steps \in Seq(StepOf(PromoteKinds)) /\ cmd.steps # << >>
    <3>1. cmd.steps # << >>
      BY <1>13 DEF Revise, AtStep
    <3> QED BY <2>1, <3>1 DEF Promotion
  <2>3. ~Left("result")
    <3>1. Rank("result") < Rank("revise")
      BY DEF Rank
    <3> QED BY <1>0, <2>1, <2>2, <3>1, HeadIsLeast
  <2>4. "quiet" \in scenario.careful => <<cmd.package, found>> \in green
    BY <1>3, <2>2, <2>3 DEF CleanInv, Settled, Remotes
  <2>5. Careful => <<cmd.package, found>> \in green
    <3>1. CASE "quiet" \in scenario.careful
      BY <2>4, <3>1
    <3>2. CASE "pin" \in scenario.careful
      <4>1. cmd.pinned # None /\ <<cmd.package, cmd.pinned>> \in green
        BY <1>3, <2>2, <3>2
      <4>2. cmd.pinned = found
        BY <2>1, <4>1
      <4> QED BY <4>1, <4>2
    <3> QED BY <3>1, <3>2 DEF Careful
  <2> HIDE DEF found
  <2>6. ASSUME cmd' \in Promotion,
               cmd'.package = cmd.package, cmd'.pinned = cmd.pinned, cmd'.source = found,
               Advances
        PROVE  PromoteInv'
    BY <1>0, <1>2, <1>3, <1>4, <2>2, <2>3, <2>5, <2>6
  <2> QED BY <1>8, <2>1, <2>6
<1>14. CASE SubmitRequest
  <2>1. /\ Head(cmd.steps).kind = "submit" /\ (cmd' = Idle \/ SamePromotion)
    BY <1>0, <1>14, OtherAnswers
  <2> QED BY <1>7, <1>8, <2>1
<1>15. CASE CopyRevision \/ Seed
  <2>1. cmd' \in {Idle} \cup Rollback \cup Seeding
    BY <1>0, <1>15, OtherAnswers
  <2> QED BY <1>8, <2>1
<1>16. CASE ReadRelease
  <2>1. cmd' \in {Idle} \cup Seeding
    BY <1>0, <1>16, ReadAnswer
  <2> QED BY <1>8, <2>1
<1>17. CASE Provenance \/ Fetch \/ WriteReport
  <2>1. cmd' = Idle \/ SameCheck
    BY <1>0, <1>17, OtherAnswers
  <2> QED BY <1>8, <2>1 DEF SameCheck
<1>18. CASE ListBinaries
  <2>1. cmd' = Idle \/ cmd' \in Check
    BY <1>0, <1>18, ListAnswer
  <2> QED BY <1>8, <2>1
<1>19. CASE Fail
  BY <1>8, <1>19 DEF Fail
<1>20. CASE UNCHANGED vars
  BY <1>5, <1>20 DEF vars
<1> QED
  BY <1>9, <1>10, <1>11, <1>12, <1>13, <1>14, <1>15, <1>16, <1>17, <1>18, <1>19, <1>20
     DEF Next, Cli

\* What promote submits with a pin or in quiet is green.
LEMMA SubmittedStep ==
  ASSUME Typing, PromoteInv, CarefulSubmitIsGreen, [Next]_vars
  PROVE  CarefulSubmitIsGreen'
<1>0. /\ RemoteTyping /\ CmdTyping /\ Ordered /\ RequestsMove
      /\ UNCHANGED scenario /\ green \subseteq green'
  BY EveryStep, Grows DEF Typing
<1>1. requests \in Seq(Request)
  BY <1>0 DEF RemoteTyping
<1> SUFFICES ASSUME scenario.careful \cap {"pin", "quiet"} # {}
             PROVE  SubmittedIsGreen'
  BY <1>0 DEF CarefulSubmitIsGreen
<1>2. SubmittedIsGreen /\ Careful
  BY DEF CarefulSubmitIsGreen, Careful
<1>3. CASE UNCHANGED requests
  BY <1>0, <1>2, <1>3 DEF SubmittedIsGreen
<1>4. ASSUME NEW p \in Package, NEW s \in Sources, NEW origin, Submit(p, s, origin),
             origin = "staging" => <<p, s>> \in green
      PROVE  SubmittedIsGreen'
  <2> DEFINE new == [package |-> p, source |-> s, origin |-> origin, state |-> "new"]
  <2>1. requests' = Append(requests, new)
    BY <1>4 DEF Submit
  <2>2. new.origin = "staging" => <<new.package, new.source>> \in green
    BY <1>4
  <2> HIDE DEF new
  <2>3. \A i \in DOMAIN requests' : requests'[i] = new \/ (i \in DOMAIN requests /\ requests'[i] = requests[i])
    BY <1>1, <2>1
  <2> QED BY <1>0, <1>2, <2>2, <2>3 DEF SubmittedIsGreen
<1>5. ASSUME NEW p \in Package, NEW s \in Sources,
             cmd \in Promotion, p = cmd.package, s = cmd.source,
             Head(cmd.steps).kind = "submit", cmd.steps # << >>
      PROVE  <<p, s>> \in green
  <2>1. cmd.name = "promote" /\ cmd.steps \in Seq(StepOf(PromoteKinds))
    BY <1>5 DEF Promotion
  <2>2. ~Left("revise")
    <3>1. Rank("revise") < Rank("submit")
      BY DEF Rank
    <3> QED BY <1>0, <1>5, <2>1, <3>1, HeadIsLeast
  <2> QED BY <1>2, <1>5, <2>1, <2>2 DEF PromoteInv
<1>6. ASSUME NEW i \in DOMAIN requests, NEW answer \in {"accepted", "revoked"},
             requests' = [requests EXCEPT ![i].state = answer]
      PROVE  SubmittedIsGreen'
  <2>1. /\ DOMAIN requests' = DOMAIN requests
        /\ \A j \in DOMAIN requests : j # i => requests'[j] = requests[j]
        /\ requests'[i] = [requests[i] EXCEPT !.state = answer]
    BY <1>1, <1>6
  <2>2. requests[i] \in Request
    BY <1>1
  <2>3. /\ requests'[i].origin = requests[i].origin /\ requests'[i].package = requests[i].package
        /\ requests'[i].source = requests[i].source
    BY <2>1, <2>2 DEF Request
  <2>4. \A j \in DOMAIN requests : 
          /\ requests'[j].origin = requests[j].origin /\ requests'[j].package = requests[j].package
          /\ requests'[j].source = requests[j].source
    BY <2>1, <2>3
  <2> QED BY <1>0, <1>2, <2>1, <2>4 DEF SubmittedIsGreen
<1> QED
  BY <1>0, <1>3, <1>4, <1>5, <1>6 DEF RequestsMove

-----------------------------------------------------------------------------
(* What a health check knows.                                               *)

Pending(p) == \E i \in DOMAIN cmd.steps : cmd.steps[i] = [kind |-> "provenance", package |-> p]

Promoted(p, s) == s = Baseline[p] \/ <<p, s>> \in green

\* The revision it has seen of a package is one of its history.
SeenInv ==
  cmd.name = "health" /\ ~Left("inventory") =>
    \A p \in Package :
      /\ cmd.seen[p].revision \in DOMAIN history["release"][p]
      /\ history["release"][p][cmd.seen[p].revision].source = cmd.seen[p].source

\* A package it has still to prove, or whose source was promoted.
HealthInv ==
  cmd.name = "health" =>
    \A p \in Package :
      \/ Pending(p)
      \/ ~Left("inventory") /\ (Careful => Promoted(p, cmd.seen[p].source))

\* In a freeze, the answers still hold when the next request is made.
FreezeInv ==
  cmd.name = "health" /\ "freeze" \in scenario.careful =>
    /\ ~Left("inventory") => cmd.seen = SourceRevisions("release")
    /\ ~Left("result") =>
         ~dirty["release"] /\ \A p \in Package : state["release"][p] = "succeeded"
    /\ ~Left("list") => /\ ~Left("result") /\ ~Left("inventory")
                        /\ cmd.listed = binary["release"]

\* The ways a health check moves.
Asks ==
  \/ SameCheck /\ Head(cmd.steps).kind \in {"fetch", "write"}
  \/ /\ SameCheck /\ Reads /\ Head(cmd.steps).kind = "result"
     /\ ~dirty["release"] /\ \A p \in Package : state["release"][p] = "succeeded"
  \/ /\ cmd \in Check /\ cmd' \in Check /\ Advances /\ Reads
     /\ Head(cmd.steps).kind = "inventory"
     /\ cmd'.seen = SourceRevisions("release") /\ cmd'.listed = cmd.listed
     /\ \A p \in Package : Present("release", p)
  \/ /\ SameCheck /\ Reads /\ AtStep("provenance")
     /\ cmd.seen[Subject].revision = Len(history["release"][Subject]) /\ Proven(Subject)
  \/ /\ cmd \in Check /\ cmd' \in Check /\ Advances /\ Reads
     /\ Head(cmd.steps).kind = "list"
     /\ cmd'.seen = cmd.seen /\ cmd'.listed = binary["release"]

\* No step does anything else to it.
LEMMA CheckMoves ==
  ASSUME Typing, [Next]_vars
  PROVE  \/ UNCHANGED cmd
         \/ cmd'.name # "health"
         \/ StartHealth
         \/ Asks /\ cmd.steps # << >>
<1>0. RemoteTyping /\ CmdTyping /\ Ordered /\ scenario.sources \subseteq Sources
  BY ScenarioFacts DEF Typing
<1> DEFINE Goal == \/ UNCHANGED cmd
                   \/ cmd'.name # "health"
                   \/ StartHealth
                   \/ Asks /\ cmd.steps # << >>
<1> SUFFICES Goal
  OBVIOUS
<1>1. ASSUME cmd' = Idle \/ cmd' \in Promotion \cup Rollback \cup Seeding
      PROVE  Goal
  BY <1>1, Names
<1>2. SamePromotion => cmd' \in Promotion
  BY DEF SamePromotion
<1> HIDE DEF Goal
<1>3. CASE Service
  BY <1>3, ServiceMoves DEF Goal
<1>4. CASE Start
  <2>1. ASSUME NEW p \in Package, NEW s \in Sources \cup {None}, NEW execute \in BOOLEAN,
               StartPromote(p, s, execute)
        PROVE  Goal
    BY <1>0, <1>1, <2>1, PromoteStarts
  <2>2. ASSUME NEW p \in Package, NEW s \in Sources, NEW execute \in BOOLEAN,
               StartRollback(p, s, execute)
        PROVE  Goal
    BY <1>0, <1>1, <2>2, OthersStart
  <2>3. ASSUME NEW execute \in BOOLEAN, StartInit(execute)
        PROVE  Goal
    BY <1>0, <1>1, <2>3, OthersStart
  <2>4. StartHealth => Goal
    BY DEF Goal
  <2> QED BY <1>0, <1>4, <2>1, <2>2, <2>3, <2>4 DEF Start
<1>5. CASE Inventory
  <2>1. cmd.steps # << >>
    BY <1>5 DEF Inventory, AtStep
  <2>2. cmd' = Idle \/ SamePromotion \/ Asks
    BY <1>0, <1>5, InventoryAnswer DEF Asks
  <2> QED BY <1>1, <1>2, <2>1, <2>2 DEF Goal
<1>6. CASE TargetResult
  <2>1. cmd.steps # << >>
    BY <1>6 DEF TargetResult, AtStep
  <2>2. /\ Head(cmd.steps).kind = "result" /\ Reads
        /\ ~dirty[cmd.remote] /\ \A p \in Package : state[cmd.remote][p] = "succeeded"
        /\ cmd' = Idle \/ SamePromotion \/ SameCheck
    BY <1>0, <1>6, ResultAnswer
  <2>3. SameCheck => cmd.remote = "release"
    BY Names DEF SameCheck
  <2>4. SameCheck => Asks
    BY <2>2, <2>3 DEF Asks
  <2> QED BY <1>1, <1>2, <2>1, <2>2, <2>4 DEF Goal
<1>7. CASE Revise
  <2>1. cmd' = Idle \/ cmd' \in Promotion
    BY <1>0, <1>7, ReviseAnswer
  <2> QED BY <1>1, <2>1
<1>8. CASE SubmitRequest
  <2>1. cmd' = Idle \/ SamePromotion
    BY <1>0, <1>8, OtherAnswers
  <2> QED BY <1>1, <1>2, <2>1
<1>9. CASE CopyRevision \/ Seed
  <2>1. cmd' \in {Idle} \cup Rollback \cup Seeding
    BY <1>0, <1>9, OtherAnswers
  <2> QED BY <1>1, <2>1
<1>10. CASE ReadRelease
  <2>1. cmd' \in {Idle} \cup Seeding
    BY <1>0, <1>10, ReadAnswer
  <2> QED BY <1>1, <2>1
<1>11. CASE Provenance
  <2>1. cmd' = Idle \/ SameCheck
    BY <1>0, <1>11, OtherAnswers
  <2>2. /\ AtStep("provenance") /\ Reads /\ Proven(Subject)
        /\ cmd.seen[Subject].revision = Len(history["release"][Subject])
    BY <1>11 DEF Provenance
  <2>3. cmd.steps # << >>
    BY <2>2 DEF AtStep
  <2>4. SameCheck => Asks
    BY <2>2 DEF Asks
  <2> QED BY <1>1, <2>1, <2>3, <2>4 DEF Goal
<1>12. CASE Fetch \/ WriteReport
  <2>1. Head(cmd.steps).kind \in {"fetch", "write"} /\ (cmd' = Idle \/ SameCheck)
    BY <1>0, <1>12, OtherAnswers
  <2>2. cmd.steps # << >>
    BY <1>12 DEF Fetch, WriteReport, AtStep
  <2> QED BY <1>1, <2>1, <2>2 DEF Goal, Asks
<1>13. CASE ListBinaries
  <2>1. cmd.steps # << >>
    BY <1>13 DEF ListBinaries, AtStep
  <2>2. cmd' = Idle \/ Asks
    BY <1>0, <1>13, ListAnswer DEF Asks
  <2> QED BY <1>1, <2>1, <2>2 DEF Goal
<1>14. CASE Fail
  BY <1>1, <1>14 DEF Fail
<1>15. CASE UNCHANGED vars
  BY <1>15 DEF vars, Goal
<1> QED
  BY <1>3, <1>4, <1>5, <1>6, <1>7, <1>8, <1>9, <1>10, <1>11, <1>12, <1>13, <1>14, <1>15
     DEF Next, Cli, Goal

\* What the requests left say of those made before.
LEMMA CheckFacts ==
  ASSUME Typing, Asks, cmd.steps # << >>
  PROVE  /\ cmd \in Check /\ cmd' \in Check /\ Advances /\ cmd.name = "health"
         /\ Head(cmd.steps) = [kind |-> Head(cmd.steps).kind, package |-> Subject]
         /\ \A kind : Rank(kind) < Rank(Head(cmd.steps).kind) => ~Left(kind)
         /\ \A p : Pending(p) =>
              \/ Pending(p)'
              \/ Head(cmd.steps).kind = "provenance" /\ Subject = p
         /\ \A p : Pending(p)' => Left("provenance")'
<1>1. cmd \in Check /\ cmd' \in Check /\ Advances
  BY DEF Asks, SameCheck
<1>2. cmd.name = "health" /\ cmd.steps \in Seq(StepOf(HealthKinds))
  BY <1>1 DEF Check
<1>3. \A kind : Rank(kind) < Rank(Head(cmd.steps).kind) => ~Left(kind)
  BY <1>2, HeadIsLeast DEF Typing
<1>4. Head(cmd.steps) = [kind |-> Head(cmd.steps).kind, package |-> Subject]
  <2>1. Head(cmd.steps) \in StepOf(HealthKinds)
    BY <1>2
  <2> QED BY <2>1 DEF StepOf, Subject
<1>5. ASSUME NEW p, Pending(p), ~(Head(cmd.steps).kind = "provenance" /\ Subject = p)
      PROVE  Pending(p)'
  <2> DEFINE step == [kind |-> "provenance", package |-> p]
  <2>1. step # Head(cmd.steps)
    BY <1>4, <1>5
  <2>2. \E i \in DOMAIN cmd.steps : cmd.steps[i] = step
    BY <1>5 DEF Pending
  <2> HIDE DEF step
  <2>3. \E i \in DOMAIN cmd'.steps : cmd'.steps[i] = step
    BY <1>1, <2>1, <2>2 DEF Advances
  <2> QED BY <2>3 DEF Pending, step
<1>6. \A p : Pending(p)' => Left("provenance")'
  BY DEF Pending, Left
<1> QED
  BY <1>1, <1>2, <1>3, <1>4, <1>5, <1>6

\* The history only grows.
LEMMA SeenStep ==
  ASSUME Typing, SeenInv, [Next]_vars
  PROVE  SeenInv'
<1>0. /\ RemoteTyping /\ CmdTyping /\ UNCHANGED scenario /\ Package' = Package
      /\ \A p \in Package : \A i \in DOMAIN history["release"][p] :
           /\ i \in DOMAIN history'["release"][p]
           /\ history'["release"][p][i] = history["release"][p][i]
  BY EveryStep, PackagesStay, Grows DEF Typing
<1>1. ASSUME cmd.name = "health", ~Left("inventory"), cmd'.seen = cmd.seen
      PROVE  SeenInv'
  BY <1>0, <1>1 DEF SeenInv
<1>2. CASE UNCHANGED cmd
  <2>1. Left("inventory")' = Left("inventory")
    BY <1>2 DEF Left
  <2>2. CASE cmd.name = "health" /\ ~Left("inventory")
    BY <1>1, <1>2, <2>2
  <2>3. CASE ~(cmd.name = "health" /\ ~Left("inventory"))
    BY <1>2, <2>1, <2>3 DEF SeenInv
  <2> QED BY <2>2, <2>3
<1>3. CASE cmd'.name # "health"
  BY <1>3 DEF SeenInv
<1>4. CASE StartHealth
  BY <1>0, <1>4, HealthStarts DEF Started, SeenInv
<1>5. CASE Asks /\ cmd.steps # << >>
  <2>0. /\ cmd.name = "health" /\ Advances
        /\ \A kind : Rank(kind) < Rank(Head(cmd.steps).kind) => ~Left(kind)
    BY <1>5, CheckFacts
  <2>1. CASE Head(cmd.steps).kind # "inventory" /\ cmd'.seen = cmd.seen
    <3>1. Left("inventory") => Left("inventory")'
      BY <2>0, <2>1 DEF Advances
    <3>2. CASE Left("inventory")
      BY <3>1, <3>2 DEF SeenInv
    <3>3. CASE ~Left("inventory")
      BY <1>1, <2>0, <2>1, <3>3
    <3> QED BY <3>2, <3>3
  <2>2. CASE /\ Reads /\ cmd'.seen = SourceRevisions("release")
             /\ \A p \in Package : Present("release", p)
    <3>1. \A p \in Package :
            /\ cmd'.seen[p].source = Latest("release", p).source
            /\ cmd'.seen[p].revision = Len(history["release"][p])
            /\ Len(history["release"][p]) \in DOMAIN history["release"][p]
            /\ Latest("release", p) = history["release"][p][Len(history["release"][p])]
      <4> TAKE p \in Package
      <4>1. /\ SourceRevisions("release")[p] =
                 [source |-> Latest("release", p).source, revision |-> Len(history["release"][p])]
            /\ Len(history["release"][p]) \in DOMAIN history["release"][p]
            /\ Latest("release", p) = history["release"][p][Len(history["release"][p])]
        BY <1>0, <2>2, SeenSources DEF Remotes
      <4> QED BY <2>2, <4>1
    <3>2. UNCHANGED history
      BY <2>2 DEF Reads
    <3> QED BY <1>0, <3>1, <3>2 DEF SeenInv
  <2>3. \/ Head(cmd.steps).kind # "inventory" /\ cmd'.seen = cmd.seen
        \/ /\ Reads /\ cmd'.seen = SourceRevisions("release")
           /\ \A p \in Package : Present("release", p)
    BY <1>5 DEF Asks, SameCheck, AtStep
  <2> QED BY <2>1, <2>2, <2>3
<1> QED
  BY <1>2, <1>3, <1>4, <1>5, CheckMoves

\* A proof looks at the revision that was seen, and finds it promoted.
LEMMA ProvenIsPromoted ==
  ASSUME Typing, SeenInv, CarefulSubmitIsGreen,
         cmd.name = "health", ~Left("inventory"), NEW p \in Package,
         cmd.seen[p].revision = Len(history["release"][p]), Proven(p)
  PROVE  Careful => Promoted(p, cmd.seen[p].source)
<1> SUFFICES ASSUME Careful
             PROVE  Promoted(p, cmd.seen[p].source)
  OBVIOUS
<1> DEFINE n == Len(history["release"][p])
<1>1. /\ n \in DOMAIN history["release"][p] /\ Latest("release", p) = history["release"][p][n]
      /\ cmd.seen[p].source = history["release"][p][n].source
  BY DEF SeenInv, Latest
<1> HIDE DEF n
<1>2. /\ Latest("release", p).request \in {0} \cup DOMAIN requests
      /\ cmd.seen[p].source = Latest("release", p).source
  BY <1>1 DEF Typing, RemoteTyping
<1>3. CASE Latest("release", p).request # 0
  <2> DEFINE i == Latest("release", p).request
  <2>1. /\ i \in DOMAIN requests /\ requests[i].origin = "staging"
        /\ requests[i].package = p /\ requests[i].source = Latest("release", p).source
    BY <1>2, <1>3 DEF Proven
  <2> HIDE DEF i
  <2>2. <<requests[i].package, requests[i].source>> \in green
    BY <2>1 DEF CarefulSubmitIsGreen, SubmittedIsGreen, Careful
  <2> QED BY <1>2, <2>1, <2>2 DEF Promoted
<1>4. CASE Latest("release", p).request = 0
  BY <1>2, <1>4 DEF Proven, Promoted
<1> QED
  BY <1>3, <1>4

\* So no package leaves the list unproved.
LEMMA HealthStep ==
  ASSUME Typing, SeenInv, HealthInv, CarefulSubmitIsGreen, [Next]_vars
  PROVE  HealthInv'
<1>0. /\ RemoteTyping /\ CmdTyping /\ UNCHANGED scenario /\ Package' = Package
      /\ green \subseteq green'
  BY EveryStep, PackagesStay, Grows DEF Typing
<1>1. Careful' = Careful
  BY <1>0 DEF Careful
<1>2. \A p, s : Promoted(p, s) => Promoted(p, s)'
  BY <1>0 DEF Promoted
<1>3. CASE UNCHANGED cmd
  <2>1. Left("inventory")' = Left("inventory") /\ \A p : Pending(p)' = Pending(p)
    BY <1>3 DEF Left, Pending
  <2>2. \A p : Promoted(p, cmd.seen[p].source) => Promoted(p, cmd.seen[p].source)'
    BY <1>0, <1>3 DEF Promoted
  <2> QED BY <1>0, <1>1, <1>3, <2>1, <2>2 DEF HealthInv
<1>4. CASE cmd'.name # "health"
  BY <1>4 DEF HealthInv
<1>5. CASE StartHealth
  BY <1>0, <1>5, HealthStarts DEF HealthInv, Pending
<1>6. CASE Asks /\ cmd.steps # << >>
  <2>0. /\ cmd.name = "health" /\ Advances
        /\ \A kind : Rank(kind) < Rank(Head(cmd.steps).kind) => ~Left(kind)
        /\ \A p : Pending(p) =>
             Pending(p)' \/ (Head(cmd.steps).kind = "provenance" /\ Subject = p)
    BY <1>6, CheckFacts
  <2>1. ~Left("inventory") => ~Left("inventory")'
    BY <2>0 DEF Advances
  <2>2. CASE Head(cmd.steps).kind # "provenance" /\ cmd'.seen = cmd.seen
    <3>1. ASSUME NEW p \in Package
          PROVE  \/ Pending(p)'
                 \/ ~Left("inventory")' /\ (Careful => Promoted(p, cmd.seen[p].source)')
      <4>1. CASE Pending(p)
        BY <2>0, <2>2, <4>1
      <4>2. CASE ~Pending(p)
        <5>1. ~Left("inventory") /\ (Careful => Promoted(p, cmd.seen[p].source))
          BY <2>0, <4>2 DEF HealthInv
        <5>2. Promoted(p, cmd.seen[p].source) => Promoted(p, cmd.seen[p].source)'
          BY <1>0, <2>2 DEF Promoted
        <5> QED BY <2>1, <5>1, <5>2
      <4> QED BY <4>1, <4>2
    <3> QED BY <1>0, <1>1, <3>1 DEF HealthInv
  <2>3. CASE Head(cmd.steps).kind = "inventory"
    <3>1. ~(~Left("inventory"))
      <4>1. cmd \in Check
        BY <1>6, CheckFacts
      <4>2. 1 \in DOMAIN cmd.steps /\ Head(cmd.steps) = cmd.steps[1]
        BY <1>6, <4>1 DEF Check
      <4> QED BY <2>3, <4>2 DEF Left
    <3>2. \A p \in Package : Pending(p)
      BY <2>0, <3>1 DEF HealthInv
    <3> QED BY <1>0, <2>0, <2>3, <3>2 DEF HealthInv
  <2>4. CASE /\ AtStep("provenance") /\ Reads /\ Proven(Subject)
             /\ cmd.seen[Subject].revision = Len(history["release"][Subject])
             /\ cmd'.seen = cmd.seen
    <3>1. Head(cmd.steps).kind = "provenance" /\ Subject \in Package
      BY <2>4, WhoAsks DEF Typing
    <3>2. ~Left("inventory")
      <4>1. Rank("inventory") < Rank("provenance")
        BY DEF Rank
      <4> QED BY <2>0, <3>1, <4>1
    <3>3. Careful => Promoted(Subject, cmd.seen[Subject].source)
      BY <2>0, <2>4, <3>1, <3>2, ProvenIsPromoted
    <3>4. ASSUME NEW p \in Package
          PROVE  \/ Pending(p)'
                 \/ ~Left("inventory")' /\ (Careful => Promoted(p, cmd.seen[p].source)')
      <4>1. CASE Pending(p) /\ Subject # p
        BY <2>0, <4>1
      <4>2. CASE ~Pending(p) \/ Subject = p
        <5>1. Careful => Promoted(p, cmd.seen[p].source)
          BY <2>0, <3>3, <4>2 DEF HealthInv
        <5>2. Promoted(p, cmd.seen[p].source) => Promoted(p, cmd.seen[p].source)'
          BY <1>0, <2>4 DEF Promoted
        <5> QED BY <2>1, <3>2, <5>1, <5>2
      <4> QED BY <4>1, <4>2
    <3> QED BY <1>0, <1>1, <3>4 DEF HealthInv
  <2>5. \/ Head(cmd.steps).kind # "provenance" /\ cmd'.seen = cmd.seen
        \/ Head(cmd.steps).kind = "inventory"
        \/ /\ AtStep("provenance") /\ Reads /\ Proven(Subject)
           /\ cmd.seen[Subject].revision = Len(history["release"][Subject])
           /\ cmd'.seen = cmd.seen
    BY <1>6 DEF Asks, SameCheck
  <2> QED BY <2>2, <2>3, <2>4, <2>5
<1> QED
  BY <1>3, <1>4, <1>5, <1>6, CheckMoves

\* In a freeze nothing is accepted or committed into release, so what was
\* asked of it stays true.
LEMMA FreezeStep ==
  ASSUME Typing, FreezeInv, [Next]_vars
  PROVE  FreezeInv'
<1>0. /\ RemoteTyping /\ CmdTyping /\ RemoteMoves /\ UNCHANGED scenario /\ Package' = Package
  BY EveryStep, PackagesStay DEF Typing
<1> SUFFICES ASSUME "freeze" \in scenario.careful, cmd'.name = "health"
             PROVE  FreezeInv'
  BY <1>0 DEF FreezeInv
<1> DEFINE Built == ~dirty["release"] /\ \A p \in Package : state["release"][p] = "succeeded"
           now == SourceRevisions("release")
           public == binary["release"]
<1>1. ASSUME cmd.name = "health"
      PROVE  now' = now /\ (Built => Built' /\ public' = public)
  <2>1. /\ history'["release"] = history["release"]
        /\ ~dirty["release"] => /\ ~dirty'["release"]
                                /\ state'["release"] = state["release"]
                                /\ binary'["release"] = binary["release"]
    BY <1>0, <1>1, SettledStays DEF Remotes
  <2>2. now' = now
    BY <1>0, <2>1, SameHistory
  <2> QED BY <1>0, <2>1, <2>2
<1> HIDE DEF Built, now, public
<1>2. cmd.name = "health" =>
        /\ ~Left("inventory") => cmd.seen = now
        /\ ~Left("result") => Built
        /\ ~Left("list") => ~Left("result") /\ ~Left("inventory") /\ cmd.listed = public
  BY DEF FreezeInv, Built, now, public
<1>3. ASSUME /\ ~Left("inventory")' => cmd'.seen = now'
             /\ ~Left("result")' => Built'
             /\ ~Left("list")' => /\ ~Left("result")' /\ ~Left("inventory")'
                                  /\ cmd'.listed = public'
      PROVE  FreezeInv'
  BY <1>0, <1>3 DEF FreezeInv, Built, now, public
<1>4. CASE UNCHANGED cmd
  <2>1. \A kind : Left(kind)' = Left(kind)
    BY <1>4 DEF Left
  <2> QED BY <1>1, <1>2, <1>3, <1>4, <2>1
<1>5. CASE StartHealth
  <2>1. Left("inventory")' /\ Left("result")' /\ Left("list")'
    BY <1>0, <1>5, HealthStarts DEF Started
  <2> QED BY <1>3, <2>1
<1>6. CASE Asks /\ cmd.steps # << >>
  <2> DEFINE head == Head(cmd.steps).kind
  <2>0. /\ cmd.name = "health" /\ Advances
        /\ \A kind : Rank(kind) < Rank(head) => ~Left(kind)
    BY <1>6, CheckFacts
  <2>1. \A kind : kind \in {"inventory", "result", "list"} =>
          /\ Left(kind)' => Left(kind)
          /\ kind # head /\ Left(kind) => Left(kind)'
          /\ kind = head => ~Left(kind)'
    BY <2>0 DEF Advances, PerPackage
  <2> HIDE DEF head
  <2>2. CASE head \notin {"inventory", "result", "list"} /\ cmd'.seen = cmd.seen
                /\ cmd'.listed = cmd.listed
    BY <1>1, <1>2, <1>3, <2>0, <2>1, <2>2
  <2>3. CASE head = "inventory" /\ cmd'.seen = now /\ cmd'.listed = cmd.listed
    BY <1>1, <1>2, <1>3, <2>0, <2>1, <2>3
  <2>4. CASE head = "result" /\ Built /\ cmd'.seen = cmd.seen /\ cmd'.listed = cmd.listed
    BY <1>1, <1>2, <1>3, <2>0, <2>1, <2>4
  <2>5. CASE head = "list" /\ cmd'.seen = cmd.seen /\ cmd'.listed = public
    <3>1. Rank("inventory") < Rank("list") /\ Rank("result") < Rank("list")
      BY DEF Rank
    <3>2. ~Left("inventory") /\ ~Left("result")
      BY <2>0, <2>5, <3>1
    <3> QED BY <1>1, <1>2, <1>3, <2>0, <2>1, <2>5, <3>2
  <2>6. \/ head \notin {"inventory", "result", "list"} /\ cmd'.seen = cmd.seen
                /\ cmd'.listed = cmd.listed
        \/ head = "inventory" /\ cmd'.seen = now /\ cmd'.listed = cmd.listed
        \/ head = "result" /\ Built /\ cmd'.seen = cmd.seen /\ cmd'.listed = cmd.listed
        \/ head = "list" /\ cmd'.seen = cmd.seen /\ cmd'.listed = public
    BY <1>6 DEF Asks, SameCheck, AtStep, head, Built, now, public
  <2> QED BY <2>2, <2>3, <2>4, <2>5, <2>6
<1> QED
  BY <1>4, <1>5, <1>6, CheckMoves

-----------------------------------------------------------------------------
(* The report.                                                             *)

\* When the report is written every package has been proved, and in a freeze
\* the listed packages are still the ones built from the sources seen.
LEMMA ReportStep ==
  ASSUME Typing, CleanInv, HealthInv, FreezeInv,
         Careful => ReportedIsPromoted, ReportMatchesBinaries,
         [Next]_vars
  PROVE  (Careful => ReportedIsPromoted)' /\ ReportMatchesBinaries'
<1>0. /\ RemoteTyping /\ CmdTyping /\ Ordered /\ UNCHANGED scenario /\ Package' = Package
      /\ green \subseteq green' /\ (UNCHANGED report \/ WriteReport)
  BY EveryStep, PackagesStay, Grows DEF Typing
<1>1. Careful' = Careful
  BY <1>0 DEF Careful
<1>2. CASE UNCHANGED report
  <2>1. ReportedIsPromoted => ReportedIsPromoted'
    BY <1>0, <1>2 DEF ReportedIsPromoted
  <2>2. ReportMatchesBinaries'
    BY <1>0, <1>2 DEF ReportMatchesBinaries
  <2> QED BY <1>1, <2>1, <2>2
<1>3. CASE WriteReport
  <2>1. /\ Head(cmd.steps).kind = "write" /\ cmd \in Check /\ cmd.steps # << >>
    BY <1>0, <1>3, OtherAnswers DEF WriteReport, AtStep
  <2>2. /\ report' = [source |-> [p \in Package |-> cmd.seen[p].source], binary |-> cmd.listed]
        /\ UNCHANGED green
    BY <1>3 DEF WriteReport
  <2>3. /\ cmd.name = "health" /\ cmd.steps \in Seq(StepOf(HealthKinds))
        /\ cmd.listed \in [Package -> Sources \cup {None}]
    BY <2>1 DEF Check
  <2>4. ~Left("provenance") /\ ~Left("list")
    <3>1. Rank("provenance") < Rank("write") /\ Rank("list") < Rank("write")
      BY DEF Rank
    <3>2. \A kind : Rank(kind) < Rank("write") => ~Left(kind)
      BY <1>0, <2>1, <2>3, HeadIsLeast
    <3> QED BY <3>1, <3>2
  <2>5. \A p \in Package : ~Pending(p)
    BY <2>4 DEF Pending, Left
  <2>6. /\ report'.source = [p \in Package |-> cmd.seen[p].source]
        /\ report'.binary = cmd.listed
    BY <2>2
  <2>7. Careful => ReportedIsPromoted'
    <3>1. Careful => \A p \in Package : Promoted(p, cmd.seen[p].source)
      BY <2>3, <2>5 DEF HealthInv
    <3>2. \A p \in Package : report'.source[p] = cmd.seen[p].source
      BY <2>6
    <3> QED BY <1>0, <2>2, <3>1, <3>2 DEF ReportedIsPromoted, Promoted
  <2>8. ASSUME "freeze" \in scenario.careful
        PROVE  report'.binary = report'.source
    <3>1. /\ cmd.seen = SourceRevisions("release") /\ cmd.listed = binary["release"]
          /\ ~dirty["release"] /\ \A p \in Package : state["release"][p] = "succeeded"
      BY <2>3, <2>4, <2>8 DEF FreezeInv
    <3>2. ASSUME NEW p \in Package
          PROVE  cmd.listed[p] = cmd.seen[p].source
      <4>1. Present("release", p) /\ binary["release"][p] = Latest("release", p).source
        BY <3>1 DEF CleanInv, Remotes
      <4>2. SourceRevisions("release")[p] =
              [source |-> Latest("release", p).source, revision |-> Len(history["release"][p])]
        BY <1>0, <4>1, SeenSources DEF Remotes
      <4>3. cmd.seen[p].source = Latest("release", p).source
        BY <3>1, <4>2
      <4> QED BY <3>1, <4>1, <4>3
    <3> QED BY <2>3, <2>6, <3>2
  <2> QED BY <1>0, <1>1, <2>7, <2>8 DEF ReportMatchesBinaries
<1> QED
  BY <1>0, <1>2, <1>3

-----------------------------------------------------------------------------
Inv ==
  /\ Typing /\ CleanInv /\ PromoteInv /\ SeenInv /\ HealthInv /\ FreezeInv
  /\ CarefulSubmitIsGreen
  /\ Careful => ReportedIsPromoted
  /\ ReportMatchesBinaries

\* It holds when work begins: staging is empty, and release is the baseline.
LEMMA InitInv ==
  ASSUME Init
  PROVE  Inv
<1>1. scenario \in Scenarios /\ cmd = Idle /\ report = None /\ green = {} /\ requests = << >>
      /\ dirty = [r \in Remotes |-> FALSE]
  BY DEF Init
<1>2. PICK released \in SUBSET Package :
       /\ history = [r \in Remotes |-> [p \in Package |->
                       IF r = "release" /\ p \in released /\ Baseline[p] # None
                       THEN <<[source |-> Baseline[p], request |-> 0]>> ELSE << >>]]
       /\ binary = [r \in Remotes |-> [p \in Package |->
                       IF r = "release" /\ p \in released THEN Baseline[p] ELSE None]]
       /\ state = [r \in Remotes |-> [p \in Package |->
                       IF binary[r][p] = None THEN "failed" ELSE "succeeded"]]
  BY DEF Init
<1>3. Package \subseteq AllPackages
  <2>1. scenario.packages \in Seq(AllPackages)
    BY <1>1, ConstantsAssumption DEF Scenario
  <2> QED BY <2>1 DEF Package
<1>4. \A p \in Package : Baseline[p] \in Sources \cup {None}
  BY <1>3, ConstantsAssumption
<1> DEFINE first(p) == [source |-> Baseline[p], request |-> 0]
           past(r, p) == IF r = "release" /\ p \in released /\ Baseline[p] # None
                         THEN <<first(p)>> ELSE << >>
<1>5. \A r \in Remotes, p \in Package : past(r, p) \in Seq(Revision)
  <2> TAKE r \in Remotes, p \in Package
  <2>1. Baseline[p] # None => first(p) \in Revision
    BY <1>4 DEF Revision
  <2> HIDE DEF first
  <2> QED BY <2>1
<1>6. \A r \in Remotes, p \in Package : history[r][p] = past(r, p)
  BY <1>2
<1>7. \A r \in Remotes, p \in Package :
        /\ binary[r][p] = IF r = "release" /\ p \in released THEN Baseline[p] ELSE None
        /\ state[r][p] = IF binary[r][p] = None THEN "failed" ELSE "succeeded"
  BY <1>2
<1>8. RemoteTyping
  <2>1. history \in [Remotes -> [Package -> Seq(Revision)]]
    <3>1. history = [r \in Remotes |-> [p \in Package |-> past(r, p)]]
      BY <1>2
    <3> HIDE DEF past
    <3> QED BY <1>5, <3>1
  <2>2. binary \in [Remotes -> [Package -> Sources \cup {None}]]
    BY <1>2, <1>4
  <2>3. state \in [Remotes -> [Package -> {"succeeded", "failed"}]]
    BY <1>2
  <2>4. \A p \in Package : \A i \in DOMAIN history["release"][p] :
          history["release"][p][i].request \in {0} \cup DOMAIN requests
    <3> TAKE p \in Package
    <3> TAKE i \in DOMAIN history["release"][p]
    <3>1. history["release"][p] = <<first(p)>> \/ history["release"][p] = << >>
      BY <1>6 DEF Remotes
    <3>2. first(p).request = 0
      OBVIOUS
    <3> HIDE DEF first
    <3>3. history["release"][p][i] = first(p)
      BY <3>1
    <3> QED BY <3>2, <3>3
  <2> QED BY <1>1, <2>1, <2>2, <2>3, <2>4 DEF RemoteTyping
<1>9. CmdTyping /\ Ordered /\ Revised
  BY <1>1, Names DEF CmdTyping, Ordered, InOrder, Revised
<1>10. CleanInv
  <2> SUFFICES ASSUME NEW r \in Remotes, NEW p \in Package, state[r][p] = "succeeded"
               PROVE  /\ Present(r, p) /\ binary[r][p] = Latest(r, p).source
                      /\ r # "staging"
    BY DEF CleanInv
  <2>1. r = "release" /\ p \in released /\ binary[r][p] = Baseline[p] /\ Baseline[p] # None
    BY <1>7
  <2>2. history[r][p] = <<first(p)>>
    BY <1>6, <2>1
  <2>3. first(p).source = Baseline[p]
    OBVIOUS
  <2> HIDE DEF first
  <2> QED BY <2>1, <2>2, <2>3 DEF Present, Latest
<1>11. PromoteInv /\ SeenInv /\ HealthInv /\ FreezeInv
  BY <1>1, Names DEF PromoteInv, SeenInv, HealthInv, FreezeInv
<1>12. CarefulSubmitIsGreen /\ ReportedIsPromoted /\ ReportMatchesBinaries
  BY <1>1 DEF CarefulSubmitIsGreen, SubmittedIsGreen, ReportedIsPromoted, ReportMatchesBinaries
<1> QED
  BY <1>8, <1>9, <1>10, <1>11, <1>12 DEF Inv, Typing

\* No step breaks it.
LEMMA NextInv ==
  ASSUME Inv, [Next]_vars
  PROVE  Inv'
<1>1. Typing' /\ CleanInv' /\ PromoteInv'
  BY TypingStep, CleanStep, PromoteStep DEF Inv
<1>2. SeenInv' /\ HealthInv' /\ FreezeInv'
  BY SeenStep, HealthStep, FreezeStep DEF Inv
<1>3. CarefulSubmitIsGreen'
  BY SubmittedStep DEF Inv
<1>4. (Careful => ReportedIsPromoted)' /\ ReportMatchesBinaries'
  BY ReportStep DEF Inv
<1> QED
  BY <1>1, <1>2, <1>3, <1>4 DEF Inv

\* The inductive invariant holds in every reachable state.
THEOREM Invariance == Spec => []Inv
<1>1. Init => Inv
  BY InitInv
<1>2. Inv /\ [Next]_vars => Inv'
  BY NextInv
<1> QED
  BY <1>1, <1>2, PTL DEF Spec

\* The variables keep their types: the histories of the projects are lists of
\* revisions, and each revision of release that came from a submit request
\* names one there is.
THEOREM TypeCorrect == Spec => []TypeOK
<1>1. Inv => TypeOK
  BY DEF Inv, Typing, RemoteTyping, TypeOK, Revision, Request
<1> QED
  BY <1>1, Invariance, PTL

\* promote submits only a source that was published from staging, built, when
\* its revision is pinned or nobody commits to staging while it runs.
THEOREM SubmitsGreen == Spec => []CarefulSubmitIsGreen
<1>1. Inv => CarefulSubmitIsGreen
  BY DEF Inv
<1> QED
  BY <1>1, Invariance, PTL

\* A passed health report names only the approved baseline and sources that
\* were published from staging, commits past staging and requests from
\* elsewhere notwithstanding, as long as promotions are pinned or quiet:
\* release_provenance trusts a request of staging, and an unpinned promotion
\* that races with a commit makes one for a source that was never built.
THEOREM ReportsThePromoted ==
  Spec => [](scenario.careful \cap {"pin", "quiet"} # {} => ReportedIsPromoted)
<1>1. Inv => (scenario.careful \cap {"pin", "quiet"} # {} => ReportedIsPromoted)
  BY DEF Inv, Careful
<1> QED
  BY <1>1, Invariance, PTL

\* In a freeze the packages a passed report lists were built from the sources
\* it names, although it asks for sources, results and packages one by one.
THEOREM ReportIsConsistent == Spec => []ReportMatchesBinaries
<1>1. Inv => ReportMatchesBinaries
  BY DEF Inv
<1> QED
  BY <1>1, Invariance, PTL

=============================================================================
