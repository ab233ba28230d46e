----------------------------- MODULE VmProofs -----------------------------
(***************************************************************************)
(* Proofs about the exercises of the disposable VM, for any number of      *)
(* exercises and of failures, kills, restarts and power losses.            *)
(*                                                                         *)
(* VmFixture: whoever finds no marker finds the machine's own files, and a *)
(* recovery that says restored has undone everything.  First the tables:   *)
(* every exercise changes only what some step of its recovery undoes, and  *)
(* every recovery undoes everything, awaits the end of the runtime         *)
(* directory and only then syncs and removes the marker (Recoverable).     *)
(* Then the inductive invariant FixtureInv: what the steps behind a        *)
(* recovery have established stays so while it goes on, and the machine is *)
(* altered under a durable marker only.                                    *)
(*                                                                         *)
(* VmExercise: a report that calls the machine clean is true, and the      *)
(* originals an exercise remembers are originals.  The inductive invariant *)
(* VmInv is proved of any tables that are GoodTables: every change is paid *)
(* for by a row of the cleanup or noticed by the comparison at its end     *)
(* (AccountsFor), and every original is altered behind the step that makes *)
(* a mark and put back before the row that removes it (MarksKept).  Then   *)
(* the eight tables of VmTables are shown to be good, one lemma each.      *)
(***************************************************************************)
EXTENDS VmFixture, VmExercise, SequenceTheorems, TLAPS

FixtureSpec == FixtureInit /\ [][FixtureNext]_fixtureVars

----------------------------------------------------------------------------
(* The tables.                                                             *)

\* What step i of F's recovery puts back.
UndoneBy(F, i) == F.recovery[i].things \cap (F.saves \cup AlwaysReset)

\* Everything is undone before the runtime directory is awaited at step a;
\* between that and the marker's removal at u there is nothing but syncs.
OrderedAt(R, a, u) ==
  /\ a < u /\ DOMAIN R = 1 .. (u + 1)
  /\ \A i \in 1 .. (a - 1) : R[i].kind = "undo"
  /\ R[a].kind = "await"
  /\ \A i \in (a + 1) .. (u - 1) : R[i].kind = "sync"
  /\ R[u].kind = "unlink" /\ R[u + 1].kind = "syncdir"

\* What F's recovery can undo.
Covered(F, a) == {"runtime"} \cup UNION {UndoneBy(F, i) : i \in 1 .. (a - 1)}

RecoverableAt(F, a, u) ==
  /\ OrderedAt(F.recovery, a, u)
  /\ F.steps \in Seq(SUBSET Covered(F, a)) /\ Len(F.steps) > 0
  /\ DesktopStarts \cup F.desktop \subseteq Covered(F, a)

Recoverable(F) == \E a, u \in Nat \ {0} : RecoverableAt(F, a, u)

----------------------------------------------------------------------------
(* The inductive invariant.                                                *)
Recovering == recovery.by # "nobody"

FixtureTypes ==
  /\ fixture \in DOMAIN Fixtures
  /\ marker \in {"none", "renamed", "present", "unlinked"}
  /\ exercise \in {"idle", "lock", "pending", "rename", "steps", "desktop", "finally", "ended"}
  /\ at \in Nat
  /\ recovery \in [by : {"nobody", "exercise", "other"}, at : DOMAIN My.recovery]

\* The exercise is at one of its steps.
AtAStep == exercise = "steps" => at \in DOMAIN My.steps

\* Nobody recovers while the exercise is at work.
RecoversAlone == Recovering => exercise \in {"idle", "finally", "ended"}

\* Only what its recovery can undo is ever altered, or half written.
AltersTheRecoverable ==
  \A a, u \in Nat \ {0} :
    RecoverableAt(My, a, u) => live \cup unsynced \subseteq Covered(My, a)

\* What the steps behind a recovery have done holds.
DoneBehind ==
  Recovering =>
    \A i \in 1 .. (recovery.at - 1) :
      /\ My.recovery[i].kind = "undo" => UndoneBy(My, i) \cap live = {}
      /\ My.recovery[i].kind = "await" => "runtime" \notin live
      /\ My.recovery[i].kind = "sync" => unsynced = {}

\* The exercise changes the machine under a marker only.
WorksUnderMarker == exercise \in {"steps", "desktop"} => marker = "present"

\* Without a durable marker nothing is altered, nor half written.
CleanWithoutMarker ==
  marker # "present" /\ (Durable \/ ~powerLost) =>
    live = {} /\ (Durable => unsynced = {})

\* The marker is made where none is.
MarksOnce == exercise \in {"pending", "rename"} => marker # "present"

\* Restored means that no marker is left and no exercise has begun since.
RestoredIsOver ==
  restored => ~MarkerExists /\ exercise \in {"idle", "finally", "ended"}

FixtureInv ==
  /\ FixtureTypes /\ AtAStep /\ RecoversAlone /\ AltersTheRecoverable /\ DoneBehind
  /\ WorksUnderMarker /\ CleanWithoutMarker /\ MarksOnce /\ RestoredIsOver

----------------------------------------------------------------------------
(* The tables are recoverable.                                             *)

\* The steps of the first recovery, one by one.
LEMMA XwaylandSteps ==
  /\ DOMAIN XwaylandRecovery = 1 .. 9
  /\ XwaylandRecovery[1] = Undo({"gdm", "manager"}) /\ XwaylandRecovery[2] = Undo({"mode"})
  /\ XwaylandRecovery[3] = Undo({"audit"})
  /\ XwaylandRecovery[4] = Undo({"originals", "generated", "gdm-config"})
  /\ XwaylandRecovery[5] = Undo({"directories"}) /\ XwaylandRecovery[6] = Undo({"policy"})
  /\ XwaylandRecovery[7] = Other("await") /\ XwaylandRecovery[8] = Other("unlink")
  /\ XwaylandRecovery[9] = Other("syncdir")
BY DEF XwaylandRecovery

\* The steps of the recovery that knows systemd-localed and the font cache.
LEMMA InputSteps ==
  /\ DOMAIN InputRecovery = 1 .. 11
  /\ InputRecovery[1] = Undo({"gdm", "manager", "localed"}) /\ InputRecovery[2] = Undo({"mode"})
  /\ InputRecovery[3] = Undo({"audit"}) /\ InputRecovery[4] = Undo({"cache-files"})
  /\ InputRecovery[5] = Undo({"originals", "generated", "gdm-config"})
  /\ InputRecovery[6] = Undo({"directories"}) /\ InputRecovery[7] = Undo({"cache-labels"})
  /\ InputRecovery[8] = Undo({"policy"})
  /\ InputRecovery[9] = Other("await") /\ InputRecovery[10] = Other("unlink")
  /\ InputRecovery[11] = Other("syncdir")
BY DEF InputRecovery

\* The steps of the recovery that syncs.
LEMMA SessionSteps ==
  /\ DOMAIN SessionRecovery = 1 .. 13
  /\ SessionRecovery[1] = Undo({"gdm", "manager", "localed"})
  /\ SessionRecovery[2] = Undo({"mode"}) /\ SessionRecovery[3] = Undo({"audit"})
  /\ SessionRecovery[4] = Undo({"trees"}) /\ SessionRecovery[5] = Undo({"cache-files"})
  /\ SessionRecovery[6] = Undo({"originals", "generated", "gdm-config"})
  /\ SessionRecovery[7] = Undo({"directories"}) /\ SessionRecovery[8] = Undo({"cache-labels"})
  /\ SessionRecovery[9] = Undo({"policy"})
  /\ SessionRecovery[10] = Other("await") /\ SessionRecovery[11] = Other("sync")
  /\ SessionRecovery[12] = Other("unlink") /\ SessionRecovery[13] = Other("syncdir")
BY DEF SessionRecovery

\* Undo, await, sync, remove the marker: the order of the first recovery.
LEMMA XwaylandOrder == OrderedAt(XwaylandRecovery, 7, 8)
<1>1. \A i \in 1 .. (7 - 1) : XwaylandRecovery[i].kind = "undo"
  BY XwaylandSteps DEF Undo
<1> QED
  BY XwaylandSteps, <1>1 DEF OrderedAt, Other

\* The order of the recovery that knows systemd-localed and the font cache.
LEMMA InputOrder == OrderedAt(InputRecovery, 9, 10)
<1>1. \A i \in 1 .. (9 - 1) : InputRecovery[i].kind = "undo"
  BY InputSteps DEF Undo
<1> QED
  BY InputSteps, <1>1 DEF OrderedAt, Other

\* The order of the recovery that syncs.
LEMMA SessionOrder == OrderedAt(SessionRecovery, 10, 12)
<1>1. \A i \in 1 .. (10 - 1) : SessionRecovery[i].kind = "undo"
  BY SessionSteps DEF Undo
<1> QED
  BY SessionSteps, <1>1 DEF OrderedAt, Other

\* What the first recovery undoes.
LEMMA XwaylandCovers ==
  ASSUME NEW needs, NEW saves, NEW steps, NEW desktop,
         saves = {"originals", "generated", "directories", "gdm-config"}
  PROVE  Covered(Fixture(needs, saves, steps, desktop, XwaylandRecovery), 7) =
           {"runtime", "gdm", "manager", "mode", "audit", "originals", "generated",
            "gdm-config", "directories", "policy"}
<1> DEFINE F == Fixture(needs, saves, steps, desktop, XwaylandRecovery)
<1>1. /\ UndoneBy(F, 1) = {"gdm", "manager"}
      /\ UndoneBy(F, 2) = {"mode"}
      /\ UndoneBy(F, 3) = {"audit"}
      /\ UndoneBy(F, 4) = {"originals", "generated", "gdm-config"}
      /\ UndoneBy(F, 5) = {"directories"}
      /\ UndoneBy(F, 6) = {"policy"}
  BY XwaylandSteps DEF UndoneBy, Fixture, AlwaysReset, Undo
<1>2. 1 .. (7 - 1) = {1, 2, 3, 4, 5, 6}
  OBVIOUS
<1>3. Covered(F, 7) =
        {"runtime"} \cup UndoneBy(F, 1) \cup UndoneBy(F, 2) \cup UndoneBy(F, 3)
          \cup UndoneBy(F, 4) \cup UndoneBy(F, 5) \cup UndoneBy(F, 6)
  BY <1>2 DEF Covered
<1> QED
  BY <1>1, <1>3

\* What the recovery that knows systemd-localed and the font cache undoes.
LEMMA InputCovers ==
  ASSUME NEW needs, NEW saves, NEW steps, NEW desktop,
         saves = {"originals", "generated", "directories", "gdm-config", "cache-files",
                  "cache-labels"}
  PROVE  Covered(Fixture(needs, saves, steps, desktop, InputRecovery), 9) =
           {"runtime", "gdm", "manager", "localed", "mode", "audit", "cache-files",
            "originals", "generated", "gdm-config", "directories", "cache-labels", "policy"}
<1> DEFINE F == Fixture(needs, saves, steps, desktop, InputRecovery)
<1>1. /\ UndoneBy(F, 1) = {"gdm", "manager", "localed"}
      /\ UndoneBy(F, 2) = {"mode"}
      /\ UndoneBy(F, 3) = {"audit"}
      /\ UndoneBy(F, 4) = {"cache-files"}
      /\ UndoneBy(F, 5) = {"originals", "generated", "gdm-config"}
      /\ UndoneBy(F, 6) = {"directories"}
      /\ UndoneBy(F, 7) = {"cache-labels"}
      /\ UndoneBy(F, 8) = {"policy"}
  BY InputSteps DEF UndoneBy, Fixture, AlwaysReset, Undo
<1>2. 1 .. (9 - 1) = {1, 2, 3, 4, 5, 6, 7, 8}
  OBVIOUS
<1>3. Covered(F, 9) =
        {"runtime"} \cup UndoneBy(F, 1) \cup UndoneBy(F, 2) \cup UndoneBy(F, 3)
          \cup UndoneBy(F, 4) \cup UndoneBy(F, 5) \cup UndoneBy(F, 6) \cup UndoneBy(F, 7)
          \cup UndoneBy(F, 8)
  BY <1>2 DEF Covered
<1> QED
  BY <1>1, <1>3

\* What the recovery that syncs undoes.
LEMMA SessionCovers ==
  ASSUME NEW needs, NEW saves, NEW steps, NEW desktop,
         saves = {"originals", "generated", "directories", "gdm-config", "cache-files",
                  "cache-labels", "trees"}
  PROVE  Covered(Fixture(needs, saves, steps, desktop, SessionRecovery), 10) =
           {"runtime", "gdm", "manager", "localed", "mode", "audit", "trees", "cache-files",
            "originals", "generated", "gdm-config", "directories", "cache-labels", "policy"}
<1> DEFINE F == Fixture(needs, saves, steps, desktop, SessionRecovery)
<1>1. /\ UndoneBy(F, 1) = {"gdm", "manager", "localed"}
      /\ UndoneBy(F, 2) = {"mode"}
      /\ UndoneBy(F, 3) = {"audit"}
      /\ UndoneBy(F, 4) = {"trees"}
      /\ UndoneBy(F, 5) = {"cache-files"}
      /\ UndoneBy(F, 6) = {"originals", "generated", "gdm-config"}
      /\ UndoneBy(F, 7) = {"directories"}
      /\ UndoneBy(F, 8) = {"cache-labels"}
      /\ UndoneBy(F, 9) = {"policy"}
  BY SessionSteps DEF UndoneBy, Fixture, AlwaysReset, Undo
<1>2. 1 .. (10 - 1) = {1, 2, 3, 4, 5, 6, 7, 8, 9}
  OBVIOUS
<1>3. Covered(F, 10) =
        {"runtime"} \cup UndoneBy(F, 1) \cup UndoneBy(F, 2) \cup UndoneBy(F, 3)
          \cup UndoneBy(F, 4) \cup UndoneBy(F, 5) \cup UndoneBy(F, 6) \cup UndoneBy(F, 7)
          \cup UndoneBy(F, 8) \cup UndoneBy(F, 9)
  BY <1>2 DEF Covered
<1> QED
  BY <1>1, <1>3

\* Lists of changes, one after the other.
LEMMA Joined ==
  ASSUME NEW S, NEW first \in Seq(S), NEW second \in Seq(S), Len(first) > 0
  PROVE  first \o second \in Seq(S) /\ Len(first \o second) > 0
BY ConcatProperties, LenProperties

\* The four lists of most exercises.
LEMMA Joined4 ==
  ASSUME NEW S, NEW a \in Seq(S), NEW b \in Seq(S), NEW c \in Seq(S), NEW d \in Seq(S),
         Len(a) > 0
  PROVE  a \o b \o c \o d \in Seq(S) /\ Len(a \o b \o c \o d) > 0
<1>1. a \o b \in Seq(S) /\ Len(a \o b) > 0
  BY Joined
<1>2. a \o b \o c \in Seq(S) /\ Len(a \o b \o c) > 0
  BY <1>1, Joined
<1> QED
  BY <1>2, Joined

\* The five lists of the last ones.
LEMMA Joined5 ==
  ASSUME NEW S, NEW a \in Seq(S), NEW b \in Seq(S), NEW c \in Seq(S), NEW d \in Seq(S),
         NEW e \in Seq(S), Len(a) > 0
  PROVE  a \o b \o c \o d \o e \in Seq(S) /\ Len(a \o b \o c \o d \o e) > 0
BY Joined4, Joined

\* The exercise of parental-xwayland changes what its recovery undoes.
LEMMA XwaylandRecoverable == RecoverableAt(XwaylandFixture, 7, 8)
<1> DEFINE C == Covered(XwaylandFixture, 7)
           All == XwaylandBuild \o XwaylandPolicy \o XwaylandRelabel \o XwaylandEnforced
<1>1. C = Covered(Fixture(XwaylandNeeds, XwaylandSaves, All, XwaylandDesktop,
                         XwaylandRecovery), 7)
  BY DEF XwaylandFixture
<1>2. /\ XwaylandBuild \in Seq(SUBSET C)
      /\ XwaylandPolicy \in Seq(SUBSET C)
      /\ XwaylandRelabel \in Seq(SUBSET C)
      /\ XwaylandEnforced \in Seq(SUBSET C)
      /\ Len(XwaylandBuild) > 0
      /\ DesktopStarts \cup XwaylandDesktop \subseteq C
  BY <1>1, XwaylandCovers
     DEF XwaylandSaves, XwaylandBuild, XwaylandPolicy, XwaylandRelabel, XwaylandEnforced,
         XwaylandDesktop, DesktopStarts, Test
<1> HIDE DEF C
<1>3. All \in Seq(SUBSET C) /\ Len(All) > 0
  BY <1>2, Joined4
<1> QED
  BY <1>2, <1>3, XwaylandOrder DEF C, RecoverableAt, XwaylandFixture, Fixture

\* The exercise of parental-gnome-services changes what its recovery undoes.
LEMMA GnomeRecoverable == RecoverableAt(GnomeFixture, 7, 8)
<1> DEFINE C == Covered(GnomeFixture, 7)
           All == GnomeBuild \o GnomePolicy \o GnomeRelabel \o GnomeEnforced
<1>1. C = Covered(Fixture(GnomeNeeds, GnomeSaves, All, GnomeDesktop,
                         XwaylandRecovery), 7)
  BY DEF GnomeFixture
<1>2. /\ GnomeBuild \in Seq(SUBSET C)
      /\ GnomePolicy \in Seq(SUBSET C)
      /\ GnomeRelabel \in Seq(SUBSET C)
      /\ GnomeEnforced \in Seq(SUBSET C)
      /\ Len(GnomeBuild) > 0
      /\ DesktopStarts \cup GnomeDesktop \subseteq C
  BY <1>1, XwaylandCovers
     DEF GnomeSaves, GnomeBuild, GnomePolicy, GnomeRelabel, GnomeEnforced, GnomeDesktop,
         DesktopStarts, Test
<1> HIDE DEF C
<1>3. All \in Seq(SUBSET C) /\ Len(All) > 0
  BY <1>2, Joined4
<1> QED
  BY <1>2, <1>3, XwaylandOrder DEF C, RecoverableAt, GnomeFixture, Fixture

\* The exercise of parental-dconf changes what its recovery undoes.
LEMMA DconfRecoverable == RecoverableAt(DconfFixture, 7, 8)
<1> DEFINE C == Covered(DconfFixture, 7)
           All == DconfBuild \o DconfPolicy \o DconfRelabel \o DconfEnforced
<1>1. C = Covered(Fixture(DconfNeeds, DconfSaves, All, DconfDesktop,
                         XwaylandRecovery), 7)
  BY DEF DconfFixture
<1>2. /\ DconfBuild \in Seq(SUBSET C)
      /\ DconfPolicy \in Seq(SUBSET C)
      /\ DconfRelabel \in Seq(SUBSET C)
      /\ DconfEnforced \in Seq(SUBSET C)
      /\ Len(DconfBuild) > 0
      /\ DesktopStarts \cup DconfDesktop \subseteq C
  BY <1>1, XwaylandCovers
     DEF DconfSaves, DconfBuild, DconfPolicy, DconfRelabel, DconfEnforced, DconfDesktop,
         DesktopStarts, Test
<1> HIDE DEF C
<1>3. All \in Seq(SUBSET C) /\ Len(All) > 0
  BY <1>2, Joined4
<1> QED
  BY <1>2, <1>3, XwaylandOrder DEF C, RecoverableAt, DconfFixture, Fixture

\* The exercise of parental-a11y changes what its recovery undoes.
LEMMA A11yRecoverable == RecoverableAt(A11yFixture, 7, 8)
<1> DEFINE C == Covered(A11yFixture, 7)
           All == A11yBuild \o A11yPolicy \o A11yRelabel \o A11yEnforced
<1>1. C = Covered(Fixture(A11yNeeds, A11ySaves, All, A11yDesktop,
                         XwaylandRecovery), 7)
  BY DEF A11yFixture
<1>2. /\ A11yBuild \in Seq(SUBSET C)
      /\ A11yPolicy \in Seq(SUBSET C)
      /\ A11yRelabel \in Seq(SUBSET C)
      /\ A11yEnforced \in Seq(SUBSET C)
      /\ Len(A11yBuild) > 0
      /\ DesktopStarts \cup A11yDesktop \subseteq C
  BY <1>1, XwaylandCovers
     DEF A11ySaves, A11yBuild, A11yPolicy, A11yRelabel, A11yEnforced, A11yDesktop,
         DesktopStarts, Test
<1> HIDE DEF C
<1>3. All \in Seq(SUBSET C) /\ Len(All) > 0
  BY <1>2, Joined4
<1> QED
  BY <1>2, <1>3, XwaylandOrder DEF C, RecoverableAt, A11yFixture, Fixture

\* The exercise of parental-input changes what its recovery undoes.
LEMMA InputRecoverable == RecoverableAt(InputFixture, 9, 10)
<1> DEFINE C == Covered(InputFixture, 9)
           All == InputBuild \o InputPolicy \o InputRelabel \o InputEnforced
<1>1. C = Covered(Fixture(InputNeeds, InputSaves, All, InputDesktop,
                         InputRecovery), 9)
  BY DEF InputFixture
<1>2. /\ InputBuild \in Seq(SUBSET C)
      /\ InputPolicy \in Seq(SUBSET C)
      /\ InputRelabel \in Seq(SUBSET C)
      /\ InputEnforced \in Seq(SUBSET C)
      /\ Len(InputBuild) > 0
      /\ DesktopStarts \cup InputDesktop \subseteq C
  BY <1>1, InputCovers
     DEF InputSaves, InputBuild, InputPolicy, InputRelabel, InputEnforced, InputDesktop,
         DesktopStarts, Test
<1> HIDE DEF C
<1>3. All \in Seq(SUBSET C) /\ Len(All) > 0
  BY <1>2, Joined4
<1> QED
  BY <1>2, <1>3, InputOrder DEF C, RecoverableAt, InputFixture, Fixture

\* The exercise of parental-session changes what its recovery undoes.
LEMMA SessionRecoverable == RecoverableAt(SessionFixture, 10, 12)
<1> DEFINE C == Covered(SessionFixture, 10)
           All == SessionFixtureBuild \o SessionFixturePolicy \o SessionFixtureRelabel \o
                  SessionFixtureEnforced
<1>1. C = Covered(Fixture(SessionFixtureNeeds, SessionFixtureSaves, All, SessionFixtureDesktop,
                         SessionRecovery), 10)
  BY DEF SessionFixture
<1>2. /\ SessionFixtureBuild \in Seq(SUBSET C)
      /\ SessionFixturePolicy \in Seq(SUBSET C)
      /\ SessionFixtureRelabel \in Seq(SUBSET C)
      /\ SessionFixtureEnforced \in Seq(SUBSET C)
      /\ Len(SessionFixtureBuild) > 0
      /\ DesktopStarts \cup SessionFixtureDesktop \subseteq C
  BY <1>1, SessionCovers
     DEF SessionFixtureSaves, SessionFixtureBuild, SessionFixturePolicy, SessionFixtureRelabel,
         SessionFixtureEnforced, SessionFixtureDesktop, DesktopStarts, Test
<1> HIDE DEF C
<1>3. All \in Seq(SUBSET C) /\ Len(All) > 0
  BY <1>2, Joined4
<1> QED
  BY <1>2, <1>3, SessionOrder DEF C, RecoverableAt, SessionFixture, Fixture

\* The exercise of parental-helpers changes what its recovery undoes.
LEMMA HelpersRecoverable == RecoverableAt(HelpersFixture, 10, 12)
<1> DEFINE C == Covered(HelpersFixture, 10)
           All == HelpersBuild \o HelpersPolicy \o HelpersBoundaries \o HelpersRelabel \o
                  HelpersEnforced
<1>1. C = Covered(Fixture(HelpersNeeds, HelpersSaves, All, HelpersDesktop,
                         SessionRecovery), 10)
  BY DEF HelpersFixture, HelpersRecovery
<1>2. /\ HelpersBuild \in Seq(SUBSET C)
      /\ HelpersPolicy \in Seq(SUBSET C)
      /\ HelpersBoundaries \in Seq(SUBSET C)
      /\ HelpersRelabel \in Seq(SUBSET C)
      /\ HelpersEnforced \in Seq(SUBSET C)
      /\ Len(HelpersBuild) > 0
      /\ DesktopStarts \cup HelpersDesktop \subseteq C
  BY <1>1, SessionCovers
     DEF HelpersSaves, HelpersBuild, HelpersPolicy, HelpersBoundaries, HelpersRelabel,
         HelpersEnforced, HelpersDesktop, DesktopStarts, Test
<1> HIDE DEF C
<1>3. All \in Seq(SUBSET C) /\ Len(All) > 0
  BY <1>2, Joined5
<1> QED
  BY <1>2, <1>3, SessionOrder DEF C, RecoverableAt, HelpersFixture, Fixture, HelpersRecovery

\* The exercise of parental-shortcuts changes what its recovery undoes.
LEMMA ShortcutsRecoverable == RecoverableAt(ShortcutsFixture, 10, 12)
<1> DEFINE C == Covered(ShortcutsFixture, 10)
           All == ShortcutsBuild \o ShortcutsPolicy \o ShortcutsBoundaries \o
                  ShortcutsRelabel \o ShortcutsEnforced
<1>1. C = Covered(Fixture(ShortcutsNeeds, ShortcutsSaves, All, ShortcutsDesktop,
                         SessionRecovery), 10)
  BY DEF ShortcutsFixture, ShortcutsRecovery
<1>2. /\ ShortcutsBuild \in Seq(SUBSET C)
      /\ ShortcutsPolicy \in Seq(SUBSET C)
      /\ ShortcutsBoundaries \in Seq(SUBSET C)
      /\ ShortcutsRelabel \in Seq(SUBSET C)
      /\ ShortcutsEnforced \in Seq(SUBSET C)
      /\ Len(ShortcutsBuild) > 0
      /\ DesktopStarts \cup ShortcutsDesktop \subseteq C
  BY <1>1, SessionCovers
     DEF ShortcutsSaves, ShortcutsBuild, ShortcutsPolicy, ShortcutsBoundaries, ShortcutsRelabel,
         ShortcutsEnforced, ShortcutsDesktop, DesktopStarts, Test
<1> HIDE DEF C
<1>3. All \in Seq(SUBSET C) /\ Len(All) > 0
  BY <1>2, Joined5
<1> QED
  BY <1>2, <1>3, SessionOrder DEF C, RecoverableAt, ShortcutsFixture, Fixture,
     ShortcutsRecovery

\* Whatever a fixture changes its own recovery undoes, in the right order.
LEMMA FixturesAreRecoverable == \A name \in DOMAIN Fixtures : Recoverable(Fixtures[name])
BY XwaylandRecoverable, GnomeRecoverable, DconfRecoverable, A11yRecoverable,
   InputRecoverable, SessionRecoverable, HelpersRecoverable, ShortcutsRecoverable
   DEF Fixtures, Recoverable
----------------------------------------------------------------------------
(* What the tables say of the recovery that goes on.                       *)

\* The recovery of this machine's exercise.
LEMMA MyRecovery ==
  ASSUME FixtureTypes
  PROVE  \E a, u \in Nat \ {0} : RecoverableAt(My, a, u)
BY FixturesAreRecoverable DEF FixtureTypes, My, Recoverable

\* The marker is removed when nothing is altered, nor half written.
LEMMA UnlinksWhenDone ==
  ASSUME FixtureInv, Recovering, This.kind \in {"unlink", "syncdir"}
  PROVE  live = {} /\ (Durable => unsynced = {})
<1>1. PICK a, u \in Nat \ {0} : RecoverableAt(My, a, u)
  BY MyRecovery DEF FixtureInv
<1>2. OrderedAt(My.recovery, a, u) /\ recovery.at \in 1 .. (u + 1)
  BY <1>1 DEF RecoverableAt, OrderedAt, FixtureInv, FixtureTypes
<1>3. recovery.at \in {u, u + 1}
  <2>1. recovery.at \in Nat /\ a < u /\ 1 <= recovery.at /\ recovery.at <= u + 1
    BY <1>2 DEF OrderedAt
  <2>2. recovery.at # a /\ recovery.at \notin 1 .. (a - 1)
    BY <1>2 DEF OrderedAt, This
  <2>3. recovery.at \notin (a + 1) .. (u - 1)
    BY <1>2 DEF OrderedAt, This
  <2>4. a < recovery.at /\ ~ recovery.at < u
    BY <2>1, <2>2, <2>3
  <2> QED
    BY <2>1, <2>4
<1>4. a \in 1 .. (recovery.at - 1) /\ 1 .. (u - 1) \subseteq 1 .. (recovery.at - 1)
      /\ 1 .. (a - 1) \subseteq 1 .. (recovery.at - 1)
  BY <1>2, <1>3 DEF OrderedAt
<1>5. (\A i \in 1 .. (a - 1) : UndoneBy(My, i) \cap live = {}) /\ "runtime" \notin live
  BY <1>2, <1>4 DEF OrderedAt, FixtureInv, DoneBehind
<1>6. live = {}
  BY <1>1, <1>5 DEF FixtureInv, AltersTheRecoverable, Covered
<1>7. ASSUME Durable PROVE unsynced = {}
  <2>1. PICK i \in 1 .. (u + 1) : My.recovery[i].kind = "sync"
    BY <1>2, <1>7 DEF Durable, OrderedAt
  <2>2. i \in 1 .. (u - 1)
    BY <1>2, <2>1 DEF OrderedAt
  <2> QED
    BY <1>4, <2>1, <2>2 DEF FixtureInv, DoneBehind
<1> QED
  BY <1>6, <1>7

\* A recovery has a next step until its last.
LEMMA GoesOn ==
  ASSUME FixtureTypes, This.kind # "syncdir"
  PROVE  recovery.at + 1 \in DOMAIN My.recovery
<1>1. PICK a, u \in Nat \ {0} : RecoverableAt(My, a, u)
  BY MyRecovery
<1> QED
  BY <1>1 DEF RecoverableAt, OrderedAt, FixtureTypes, This

\* The first step of a recovery is one.
LEMMA Begins ==
  ASSUME FixtureTypes
  PROVE  1 \in DOMAIN My.recovery /\ \A i \in DOMAIN My.recovery : i \in Nat \ {0}
<1>1. PICK a, u \in Nat \ {0} : RecoverableAt(My, a, u)
  BY MyRecovery
<1> QED
  BY <1>1 DEF RecoverableAt, OrderedAt

\* What the exercise changes its recovery can undo.
LEMMA ChangesTheRecoverable ==
  ASSUME FixtureTypes, NEW a \in Nat \ {0}, NEW u \in Nat \ {0}, RecoverableAt(My, a, u)
  PROVE  /\ \A i \in DOMAIN My.steps : My.steps[i] \subseteq Covered(My, a)
         /\ DesktopStarts \cup My.desktop \subseteq Covered(My, a)
         /\ DOMAIN My.steps = 1 .. Len(My.steps) /\ Len(My.steps) \in Nat \ {0}
BY DEF RecoverableAt

\* An exercise has a first step.
LEMMA FirstStep == ASSUME FixtureTypes PROVE 1 \in DOMAIN My.steps
BY MyRecovery, ChangesTheRecoverable

\* Nothing is altered that was not.
LEMMA AltersNothing ==
  ASSUME AltersTheRecoverable, fixture' = fixture, live' \subseteq live \cup unsynced,
         unsynced' \subseteq live \cup unsynced
  PROVE  AltersTheRecoverable'
<1>1. My' = My
  BY DEF My
<1> QED
  BY <1>1 DEF AltersTheRecoverable

\* What the steps behind have done stays done while nothing is altered.
LEMMA StaysDone ==
  ASSUME DoneBehind, fixture' = fixture, recovery' = recovery, live' \subseteq live,
         unsynced' = unsynced
  PROVE  DoneBehind'
<1>1. My' = My
  BY DEF My
<1> QED
  BY <1>1 DEF DoneBehind, Recovering

----------------------------------------------------------------------------
(* The steps.                                                              *)

\* A step of snapshot() changes the marker and nothing on the machine.
LEMMA SnapshotKeepsInv == ASSUME FixtureInv, StartExercise \/ Snapshot PROVE FixtureInv'
<1>1. /\ UNCHANGED <<fixture, recovery, powerLost>> /\ Keep
      /\ exercise' # "finally" /\ exercise # "steps" /\ exercise # "desktop"
  BY DEF StartExercise, Snapshot, SaveOriginals, WritePending, ReplaceActive, SyncMarker,
         SnapshotFails, FixtureInv, FixtureTypes
<1>2. My' = My /\ Durable' = Durable
  BY <1>1 DEF My, Durable
<1>3. FixtureTypes'
  BY <1>1, <1>2 DEF StartExercise, Snapshot, SaveOriginals, WritePending, ReplaceActive,
         SyncMarker, SnapshotFails, FixtureInv, FixtureTypes, KeepMarker
<1>4. AtAStep'
  BY <1>1, <1>2, FirstStep
     DEF StartExercise, Snapshot, SaveOriginals, WritePending, ReplaceActive, SyncMarker,
         SnapshotFails, FixtureInv, AtAStep, FixtureTypes
<1>5. RecoversAlone' /\ WorksUnderMarker'
  BY <1>1 DEF StartExercise, Snapshot, SaveOriginals, WritePending, ReplaceActive, SyncMarker,
     SnapshotFails, FixtureInv, RecoversAlone, WorksUnderMarker, Recovering, LockFree,
     KeepMarker
<1>6. AltersTheRecoverable' /\ DoneBehind'
  BY <1>1, AltersNothing, StaysDone DEF Keep, FixtureInv
<1>7. CleanWithoutMarker'
  BY <1>1, <1>2 DEF StartExercise, Snapshot, SaveOriginals, WritePending, ReplaceActive,
     SyncMarker, SnapshotFails, FixtureInv, CleanWithoutMarker, MarksOnce, KeepMarker, Keep
<1>8. MarksOnce' /\ RestoredIsOver'
  BY <1>1 DEF StartExercise, Snapshot, SaveOriginals, WritePending, ReplaceActive, SyncMarker,
     SnapshotFails, SnapshotRefused, FixtureInv, MarksOnce, RestoredIsOver, KeepMarker,
     MarkerExists
<1> QED
  BY <1>3, <1>4, <1>5, <1>6, <1>7, <1>8 DEF FixtureInv

\* The exercise's commands change what its recovery undoes, under the marker.
LEMMA AlteringKeepsInv ==
  ASSUME FixtureInv, NEW things, Alter(things), exercise \in {"steps", "desktop"},
         \/ things = DesktopStarts \cup My.desktop
         \/ \E i \in DOMAIN My.steps : things = My.steps[i],
         exercise' \in {"steps", "desktop", "finally"}, at' \in Nat,
         exercise' = "steps" => at' \in DOMAIN My.steps,
         KeepMarker, UNCHANGED <<fixture, recovery, restored, powerLost>>
  PROVE  FixtureInv'
<1>1. My' = My /\ marker = "present" /\ ~Recovering /\ ~Recovering'
  BY DEF My, FixtureInv, WorksUnderMarker, RecoversAlone, Recovering
<1>2. FixtureTypes' /\ AtAStep'
  BY <1>1 DEF FixtureInv, FixtureTypes, AtAStep, KeepMarker
<1>3. RecoversAlone' /\ WorksUnderMarker' /\ DoneBehind' /\ CleanWithoutMarker'
  BY <1>1 DEF RecoversAlone, WorksUnderMarker, DoneBehind, CleanWithoutMarker, KeepMarker
<1>4. MarksOnce' /\ RestoredIsOver'
  BY <1>1 DEF FixtureInv, MarksOnce, RestoredIsOver, MarkerExists
<1>5. AltersTheRecoverable'
  <2> SUFFICES ASSUME NEW a \in Nat \ {0}, NEW u \in Nat \ {0}, RecoverableAt(My, a, u)
               PROVE  live' \cup unsynced' \subseteq Covered(My, a)
    BY <1>1 DEF AltersTheRecoverable
  <2>1. live \cup unsynced \subseteq Covered(My, a)
    BY DEF FixtureInv, AltersTheRecoverable
  <2>2. things \subseteq Covered(My, a)
    BY ChangesTheRecoverable DEF FixtureInv
  <2> QED
    BY <2>1, <2>2 DEF Alter
<1> QED
  BY <1>2, <1>3, <1>4, <1>5 DEF FixtureInv

\* Steps that put something back or alter nothing, and leave the marker and
\* the recovery alone.
LEMMA SettlingKeepsInv ==
  ASSUME FixtureInv, live' \subseteq live, unsynced' \subseteq live \cup unsynced,
         Recovering => unsynced' = unsynced,
         live = {} => unsynced' = unsynced,
         \/ exercise' = exercise /\ at' = at
         \/ exercise' \in {"finally", "ended"} /\ at' \in Nat /\ exercise # "idle",
         exercise' = "finally" => exercise \in {"steps", "desktop", "finally"},
         KeepMarker, UNCHANGED <<fixture, recovery, restored, powerLost>>
  PROVE  FixtureInv'
<1>1. My' = My /\ Durable' = Durable /\ Recovering' = Recovering
  BY DEF My, Durable, Recovering
<1>2. FixtureTypes' /\ AtAStep'
  BY <1>1 DEF FixtureInv, FixtureTypes, AtAStep, KeepMarker
<1>3. RecoversAlone' /\ WorksUnderMarker' /\ CleanWithoutMarker' /\ MarksOnce'
      /\ RestoredIsOver'
  BY <1>1
     DEF FixtureInv, RecoversAlone, WorksUnderMarker, CleanWithoutMarker, MarksOnce,
         RestoredIsOver, KeepMarker, MarkerExists
<1>4. DoneBehind'
  BY <1>1, StaysDone DEF FixtureInv, DoneBehind
<1>5. AltersTheRecoverable'
  BY AltersNothing DEF FixtureInv
<1> QED
  BY <1>2, <1>3, <1>4, <1>5 DEF FixtureInv

\* The exercise at its steps, its session and its end.
LEMMA WorkKeepsInv == ASSUME FixtureInv, Work PROVE FixtureInv'
<1>1. CASE DoStep
  <2>1. at \in DOMAIN My.steps
    BY <1>1 DEF DoStep, FixtureInv, AtAStep
  <2>2. exercise' = "steps" => at' \in DOMAIN My.steps
    BY <1>1, <2>1, MyRecovery, ChangesTheRecoverable DEF DoStep, NextStep, FixtureInv
  <2>3. exercise' \in {"steps", "desktop"} /\ at' \in Nat
    BY <1>1 DEF DoStep, NextStep, FixtureInv, FixtureTypes
  <2> QED
    BY <1>1, <2>1, <2>2, <2>3, AlteringKeepsInv DEF DoStep
<1>2. CASE StartDesktop
  BY <1>2, AlteringKeepsInv DEF StartDesktop, FixtureInv, FixtureTypes
<1>3. CASE EndDesktop
  <2>1. PICK left \in SUBSET DesktopStops : PutThingsBack(DesktopStops \ left)
    BY <1>3 DEF EndDesktop
  <2>2. /\ live' \subseteq live /\ unsynced' \subseteq live \cup unsynced
        /\ live = {} => unsynced' = unsynced
    BY <2>1 DEF PutThingsBack
  <2>3. ~Recovering
    BY <1>3 DEF EndDesktop, FixtureInv, RecoversAlone
  <2> QED
    BY <1>3, <2>2, <2>3, SettlingKeepsInv DEF EndDesktop, FixtureInv, FixtureTypes
<1>4. CASE StepRaises
  <2>1. CASE Keep
    BY <1>4, <2>1, SettlingKeepsInv DEF StepRaises, Keep, FixtureInv, FixtureTypes
  <2>2. CASE exercise = "steps" /\ Alter(My.steps[at])
    BY <1>4, <2>2, AlteringKeepsInv DEF StepRaises, FixtureInv, FixtureTypes, AtAStep
  <2> QED
    BY <1>4, <2>1, <2>2 DEF StepRaises
<1>5. CASE KillExercise
  BY <1>5, SettlingKeepsInv DEF KillExercise, Keep, FixtureInv, FixtureTypes
<1> QED
  BY <1>1, <1>2, <1>3, <1>4, <1>5 DEF Work

\* logind only removes something.
LEMMA LogindKeepsInv == ASSUME FixtureInv, LogindCleans PROVE FixtureInv'
BY SettlingKeepsInv DEF LogindCleans

\* Nobody recovers any more; what was altered may be put back before.
LEMMA LeavingKeepsInv ==
  ASSUME FixtureInv, Recovering, live' \subseteq live,
         unsynced' \subseteq live \cup unsynced, live = {} => unsynced' = unsynced,
         recovery' = Nobody, exercise' = EndOfExercise,
         KeepMarker, UNCHANGED <<fixture, at, restored, powerLost>>
  PROVE  FixtureInv'
<1>1. My' = My /\ Durable' = Durable /\ ~Recovering'
  BY DEF My, Durable, Recovering, Nobody
<1>2. exercise' \in {"idle", "finally", "ended"}
  BY DEF EndOfExercise, FixtureInv, RecoversAlone
<1>3. FixtureTypes'
  BY <1>1, <1>2, Begins DEF FixtureInv, FixtureTypes, KeepMarker, Nobody
<1>4. AtAStep' /\ RecoversAlone' /\ WorksUnderMarker' /\ DoneBehind' /\ MarksOnce'
  BY <1>1, <1>2 DEF AtAStep, RecoversAlone, WorksUnderMarker, DoneBehind, MarksOnce
<1>5. CleanWithoutMarker' /\ RestoredIsOver'
  BY <1>1, <1>2 DEF FixtureInv, CleanWithoutMarker, RestoredIsOver, KeepMarker, MarkerExists
<1>6. AltersTheRecoverable'
  BY AltersNothing DEF FixtureInv
<1> QED
  BY <1>3, <1>4, <1>5, <1>6 DEF FixtureInv

\* A recovery that fails, or refuses.
LEMMA FailingKeepsInv == ASSUME FixtureInv, RecoveryFails \/ RecoveryRefuses PROVE FixtureInv'
<1>1. /\ live' \subseteq live /\ unsynced' \subseteq live \cup unsynced
      /\ live = {} => unsynced' = unsynced
  BY DEF RecoveryFails, RecoveryRefuses, Keep, PutThingsBack
<1> QED
  BY <1>1, LeavingKeepsInv DEF RecoveryFails, RecoveryRefuses, Recovering

\* Somebody recovers; without a marker there is nothing to do.
LEMMA StartingKeepsInv ==
  ASSUME FixtureInv, NEW by \in {"exercise", "other"}, StartRecovery(by) PROVE FixtureInv'
<1>1. My' = My /\ Durable' = Durable /\ live' = live /\ unsynced' = unsynced
  BY DEF StartRecovery, Keep, My, Durable
<1>2. exercise \in {"idle", "finally", "ended"} /\ exercise' \in {"idle", "finally", "ended"}
      /\ ~Recovering /\ marker' = marker
  BY DEF StartRecovery, LockFree, Recovering, KeepMarker
<1>3. recovery' = recovery \/ recovery' = [by |-> by, at |-> 1]
  BY DEF StartRecovery
<1>4. FixtureTypes'
  BY <1>1, <1>2, <1>3, Begins DEF StartRecovery, FixtureInv, FixtureTypes
<1>5. AtAStep' /\ RecoversAlone' /\ WorksUnderMarker' /\ MarksOnce'
  BY <1>2 DEF AtAStep, RecoversAlone, WorksUnderMarker, MarksOnce
<1>6. DoneBehind'
  BY <1>2, <1>3 DEF DoneBehind, Recovering
<1>7. AltersTheRecoverable' /\ CleanWithoutMarker' /\ RestoredIsOver'
  BY <1>1, <1>2, AltersNothing
     DEF StartRecovery, FixtureInv, CleanWithoutMarker, RestoredIsOver, MarkerExists
<1> QED
  BY <1>4, <1>5, <1>6, <1>7 DEF FixtureInv

\* A step of the recovery: what it does, it finds done behind it.
LEMMA GoingOnKeepsInv ==
  ASSUME FixtureInv, Recovering, GoOn, This.kind # "syncdir", live' \subseteq live,
         unsynced' \subseteq live \cup unsynced,
         unsynced' = {} \/ (live = {} => unsynced' = unsynced),
         \A i \in 1 .. (recovery.at - 1) : My.recovery[i].kind = "sync" => unsynced' = {},
         This.kind = "undo" => UndoneBy(My, recovery.at) \cap live' = {},
         This.kind = "await" => "runtime" \notin live',
         This.kind = "sync" => unsynced' = {},
         UNCHANGED <<fixture, marker, pending, exercise, at, restored, powerLost>>
  PROVE  FixtureInv'
<1>1. My' = My /\ Durable' = Durable /\ Recovering'
  BY DEF My, Durable, GoOn, Recovering, FixtureInv, FixtureTypes
<1>2. recovery'.by = recovery.by /\ recovery'.at = recovery.at + 1 /\ recovery.at \in Nat \ {0}
  BY Begins DEF GoOn, FixtureInv, FixtureTypes
<1>3. FixtureTypes'
  BY <1>1, GoesOn DEF FixtureInv, FixtureTypes, GoOn
<1>4. AtAStep' /\ RecoversAlone' /\ WorksUnderMarker' /\ MarksOnce' /\ RestoredIsOver'
  BY <1>1
     DEF FixtureInv, AtAStep, RecoversAlone, WorksUnderMarker, MarksOnce, RestoredIsOver,
         MarkerExists
<1>5. AltersTheRecoverable' /\ CleanWithoutMarker'
  BY <1>1, AltersNothing DEF FixtureInv, CleanWithoutMarker
<1>6. DoneBehind'
  <2> SUFFICES ASSUME NEW i \in 1 .. recovery.at
               PROVE  /\ My.recovery[i].kind = "undo" => UndoneBy(My, i) \cap live' = {}
                      /\ My.recovery[i].kind = "await" => "runtime" \notin live'
                      /\ My.recovery[i].kind = "sync" => unsynced' = {}
    BY <1>1, <1>2 DEF DoneBehind
  <2>1. CASE i = recovery.at
    BY <2>1 DEF This
  <2>2. CASE i \in 1 .. (recovery.at - 1)
    BY <2>2 DEF FixtureInv, DoneBehind
  <2> QED
    BY <1>2, <2>1, <2>2
<1> QED
  BY <1>3, <1>4, <1>5, <1>6 DEF FixtureInv

\* The steps of recover().
LEMMA RecoveryKeepsInv == ASSUME FixtureInv, RecoveryStep PROVE FixtureInv'
<1>1. CASE UndoThings
  <2>1. live' = live \ UndoneBy(My, recovery.at)
    BY <1>1 DEF UndoThings, PutThingsBack, Undone, UndoneBy, This
  <2>2. /\ unsynced' \subseteq live \cup unsynced
        /\ live = {} => unsynced' = unsynced
    BY <1>1 DEF UndoThings, PutThingsBack
  <2>3. \A i \in 1 .. (recovery.at - 1) : My.recovery[i].kind # "sync"
    <3>1. PICK a, u \in Nat \ {0} : RecoverableAt(My, a, u)
      BY MyRecovery DEF FixtureInv
    <3> QED
      BY <1>1, <3>1 DEF RecoverableAt, OrderedAt, UndoThings, This, FixtureInv, FixtureTypes
  <2> QED
    BY <1>1, <2>1, <2>2, <2>3, GoingOnKeepsInv DEF UndoThings, Recovering, KeepMarker
<1>2. CASE AssertRuntimeGone
  BY <1>2, GoingOnKeepsInv
     DEF AssertRuntimeGone, Recovering, Keep, KeepMarker, FixtureInv, DoneBehind
<1>3. CASE SyncEverything
  BY <1>3, GoingOnKeepsInv DEF SyncEverything, Recovering, KeepMarker
<1>4. CASE UnlinkMarker
  <2>1. live = {} /\ (Durable => unsynced = {}) /\ My' = My /\ Durable' = Durable
    BY <1>4, UnlinksWhenDone DEF UnlinkMarker, Recovering, Keep, My, Durable
  <2>2. Recovering' /\ recovery'.by = recovery.by /\ recovery'.at = recovery.at + 1
        /\ recovery.at \in Nat \ {0} /\ exercise' = exercise /\ marker' = "unlinked"
    BY <1>4, Begins DEF UnlinkMarker, GoOn, Recovering, FixtureInv, FixtureTypes
  <2>3. FixtureTypes'
    BY <1>4, <2>1, GoesOn DEF UnlinkMarker, GoOn, FixtureInv, FixtureTypes
  <2>4. AtAStep' /\ RecoversAlone' /\ WorksUnderMarker' /\ MarksOnce' /\ RestoredIsOver'
    <3>1. exercise' \in {"idle", "finally", "ended"} /\ (restored' => restored)
      BY <1>4, <2>2 DEF UnlinkMarker, Recovering, FixtureInv, RecoversAlone
    <3> QED
      BY <2>2, <3>1
         DEF AtAStep, RecoversAlone, WorksUnderMarker, MarksOnce, RestoredIsOver, MarkerExists
  <2>5. CleanWithoutMarker' /\ AltersTheRecoverable'
    BY <1>4, <2>1, AltersNothing DEF UnlinkMarker, Keep, CleanWithoutMarker, FixtureInv
  <2>6. DoneBehind'
    <3> SUFFICES ASSUME NEW i \in 1 .. recovery.at, My.recovery[i].kind = "sync"
                 PROVE  unsynced = {}
      BY <1>4, <2>1, <2>2 DEF DoneBehind, UnlinkMarker, Keep
    <3>1. i # recovery.at
      BY <1>4 DEF UnlinkMarker, This
    <3> QED
      BY <2>2, <3>1, <1>4 DEF FixtureInv, DoneBehind, UnlinkMarker, Recovering
  <2> QED
    BY <2>3, <2>4, <2>5, <2>6 DEF FixtureInv
<1>5. CASE SyncUnlinked
  <2>1. live = {} /\ (Durable => unsynced = {}) /\ My' = My /\ Durable' = Durable
    BY <1>5, UnlinksWhenDone DEF SyncUnlinked, Recovering, Keep, My, Durable
  <2>2. ~Recovering' /\ marker' = "none" /\ exercise' \in {"idle", "finally", "ended"}
    BY <1>5 DEF SyncUnlinked, EndOfExercise, Nobody, Recovering, FixtureInv, RecoversAlone
  <2>3. FixtureTypes'
    BY <1>5, <2>1, <2>2, Begins DEF SyncUnlinked, FixtureInv, FixtureTypes, Nobody
  <2>4. AtAStep' /\ RecoversAlone' /\ WorksUnderMarker' /\ DoneBehind' /\ MarksOnce'
        /\ RestoredIsOver'
    BY <2>2
       DEF AtAStep, RecoversAlone, WorksUnderMarker, DoneBehind, MarksOnce, RestoredIsOver,
           MarkerExists
  <2>5. CleanWithoutMarker' /\ AltersTheRecoverable'
    BY <1>5, <2>1, AltersNothing DEF SyncUnlinked, Keep, CleanWithoutMarker, FixtureInv
  <2> QED
    BY <2>3, <2>4, <2>5 DEF FixtureInv
<1>6. CASE RecoveryRefuses
  BY <1>6, FailingKeepsInv
<1> QED
  BY <1>1, <1>2, <1>3, <1>4, <1>5, <1>6 DEF RecoveryStep

\* A power loss: nothing that was not altered or half written comes up.
LEMMA LosingPowerKeepsInv == ASSUME FixtureInv, LosePower PROVE FixtureInv'
<1>1. My' = My /\ Durable' = Durable /\ ~Recovering' /\ powerLost'
  BY DEF LosePower, My, Durable, Recovering, Nobody
<1>2. marker' \in {"none", "present", marker} /\ marker' # "renamed"
      /\ (marker = "present" => marker' = "present")
  BY DEF LosePower, FixtureInv, FixtureTypes
<1>3. exercise' \in {"idle", "ended"}
  BY DEF LosePower
<1>4. FixtureTypes'
  BY <1>1, <1>2, <1>3, Begins DEF LosePower, FixtureInv, FixtureTypes, Nobody
<1>5. AtAStep' /\ RecoversAlone' /\ WorksUnderMarker' /\ DoneBehind' /\ MarksOnce'
      /\ RestoredIsOver'
  BY <1>1, <1>3
     DEF LosePower, AtAStep, RecoversAlone, WorksUnderMarker, DoneBehind, MarksOnce,
         RestoredIsOver
<1>6. PICK kept \in SUBSET unsynced : live' = ((live \cap Persistent) \ unsynced) \cup kept
  BY DEF LosePower
<1>7. CleanWithoutMarker'
  BY <1>1, <1>2, <1>6 DEF LosePower, FixtureInv, CleanWithoutMarker
<1>8. AltersTheRecoverable'
  BY <1>6, AltersNothing DEF LosePower, FixtureInv
<1> QED
  BY <1>4, <1>5, <1>7, <1>8 DEF FixtureInv

----------------------------------------------------------------------------
(* The theorems.                                                           *)

\* The machine is handed over clean.
LEMMA InitEstablishesInv == ASSUME FixtureInit PROVE FixtureInv
<1>1. FixtureTypes
  <2>1. fixture \in DOMAIN Fixtures
    BY DEF FixtureInit
  <2>2. \E a, u \in Nat \ {0} : RecoverableAt(My, a, u)
    BY <2>1, FixturesAreRecoverable DEF My, Recoverable
  <2>3. 1 \in DOMAIN My.recovery
    BY <2>2 DEF RecoverableAt, OrderedAt
  <2> QED
    BY <2>1, <2>3 DEF FixtureInit, FixtureTypes, Nobody
<1> QED
  BY <1>1
     DEF FixtureInit, FixtureInv, AtAStep, RecoversAlone, AltersTheRecoverable, DoneBehind,
         WorksUnderMarker, CleanWithoutMarker, MarksOnce, RestoredIsOver, MarkerExists,
         Recovering, Nobody

\* Every step keeps it.
LEMMA NextKeepsInv == ASSUME FixtureInv, [FixtureNext]_fixtureVars PROVE FixtureInv'
<1>1. CASE FixtureNext
  BY <1>1, SnapshotKeepsInv, WorkKeepsInv, LogindKeepsInv, StartingKeepsInv, RecoveryKeepsInv,
     FailingKeepsInv, LosingPowerKeepsInv DEF FixtureNext
<1>2. CASE UNCHANGED fixtureVars
  BY <1>2, SettlingKeepsInv DEF fixtureVars, KeepMarker
<1> QED
  BY <1>1, <1>2

(* The invariant holds on every fixture machine: what the steps behind a   *)
(* recovery have put back stays so, the machine is altered under a durable *)
(* marker only, and a restored machine has no exercise begun since.        *)
THEOREM FixtureInvariance == FixtureSpec => []FixtureInv
<1>1. FixtureInit => FixtureInv
  BY InitEstablishesInv
<1>2. FixtureInv /\ [FixtureNext]_fixtureVars => FixtureInv'
  BY NextKeepsInv
<1> QED
  BY <1>1, <1>2, PTL DEF FixtureSpec

(* Who finds no marker finds the machine's own files, however often the    *)
(* exercise and its recovery failed, were killed or lost power             *)
(* (fixture_recovery.py: the marker is made durable before the first       *)
(* change and removed after the last sync).                                *)
THEOREM NothingWithoutMarker == FixtureSpec => []NoMarkerNoRemains
<1>1. FixtureInv => NoMarkerNoRemains
  BY DEF FixtureInv, CleanWithoutMarker, NoMarkerNoRemains, MarkerExists
<1> QED
  BY <1>1, FixtureInvariance, PTL

(* A recover() that says restored has undone everything its exercise       *)
(* changed: nothing of it is left on the machine.                          *)
THEOREM RestoredWhole == FixtureSpec => []RestoredIsWhole
<1>1. FixtureInv => RestoredIsWhole
  BY DEF FixtureInv, CleanWithoutMarker, RestoredIsOver, RestoredIsWhole, MarkerExists
<1> QED
  BY <1>1, FixtureInvariance, PTL

----------------------------------------------------------------------------
(* The exercises with a cleanup of their own.                              *)
\* The exercises, one after the other on one machine.
ExerciseSpec == VmInit /\ [][VmNext]_vmVars

----------------------------------------------------------------------------
(* What the tables must be for the exercises to be safe.                   *)

\* A row that the cleanup does for certain once the flags are set.
Certain(E, flags, j) == E.rows[j].when = "always" \/ E.rows[j].when \in flags

\* What the rows from k on will put back, and what the comparison with the
\* originals would notice or the exercise leaves on purpose.
Owed(E, flags, k) ==
  UNION {E.rows[j].undoes : j \in {i \in DOMAIN E.rows : i >= k /\ Certain(E, flags, i)}}
Accounted(E, flags, k) == E.forgets \cup E.checks \cup Owed(E, flags, k)

\* Whatever a step changes is accounted for once its flag is set, and
\* whatever a row disturbs by the rows behind it.
AccountsFor(E) ==
  /\ \A i \in DOMAIN E.steps :
       /\ E.steps[i].does \subseteq Accounted(E, {E.steps[i].flag} \ {""}, 1)
       /\ E.steps[i].within # {} => E.steps[i].flag = ""
  /\ \A j \in DOMAIN E.rows : E.rows[j].does \subseteq Accounted(E, {}, j + 1)
  /\ "mode" \in E.needs \cup E.forgets \cup E.checks

\* The thing that tells the next exercise of fam that x may be altered.
Mark(fam, x) ==
  IF x = "shadow" THEN "backup"
  ELSE IF fam = {"callbacks", "session"} THEN "generated" ELSE "module"

\* The originals the exercises of fam remember, and what step i changes.
Saved(fam) == UNION {Exercises[e].saves : e \in fam}
Touches(E, i) == E.steps[i].does \cup E.steps[i].mess \cup E.steps[i].within

\* E leaves x alone, and refuses to start while the mark is there or leaves
\* the mark alone as well.
LeavesAlone(E, x, m) ==
  /\ \A i \in DOMAIN E.steps : x \notin Touches(E, i)
  /\ \A j \in DOMAIN E.rows : x \notin E.rows[j].does
  /\ x \notin E.saves
  /\ \/ m \in E.needs
     \/ /\ \A i \in DOMAIN E.steps : m \notin E.steps[i].undoes \cup E.steps[i].within
        /\ \A j \in DOMAIN E.rows : m \notin E.rows[j].undoes

\* E alters x behind the step that makes the mark, s, and removes the mark
\* behind the row that puts x back, r.
Brackets(E, x, m, s, r) ==
  /\ m \in E.needs /\ s \in DOMAIN E.steps /\ r \in DOMAIN E.rows
  /\ m \in E.steps[s].does /\ E.steps[s].within = {}
  /\ \A i \in DOMAIN E.steps : m \notin E.steps[i].undoes \cup E.steps[i].within
  /\ \A i \in 1 .. s : x \notin Touches(E, i)
  /\ E.rows[r].when = "always" /\ x \in E.rows[r].undoes
  /\ \A j \in DOMAIN E.rows : x \notin E.rows[j].does
  /\ \A j \in 1 .. r : m \notin E.rows[j].undoes

\* E alters x with the mark m only, and keeps the mark as long as x is altered.
Guards(E, x, m) ==
  LeavesAlone(E, x, m) \/ \E s, r \in Nat \ {0} : Brackets(E, x, m, s, r)

\* What an exercise of fam remembers has a mark that a restart leaves and
\* every exercise of fam respects.
MarksKept(fam) ==
  \A e \in fam, x \in Saved(fam) :
    /\ Guards(Exercises[e], x, Mark(fam, x))
    /\ x \in Exercises[e].saves => Mark(fam, x) \in Exercises[e].needs
    /\ Mark(fam, x) \notin Volatile

----------------------------------------------------------------------------
(* The inductive invariant.                                                *)

\* The words of the tables, for the backends know no member of STRING.
Names ==
  {"", "accounts", "always", "auditd", "backup", "callbacks", "client", "directories",
   "entries", "files", "gate", "gdm", "generated", "group", "helper-process",
   "hostkey", "identity", "keys", "label", "login", "managers", "mapping", "mode",
   "module", "pam", "pam.new", "password", "permissive-domain", "policy",
   "primary-group", "private", "raises", "recorded", "renamed", "server", "session",
   "session-program", "set-aside", "shadow", "sshd", "sshd.conf", "systemd",
   "transitions", "tunnel", "unit", "user", "worker", "worker-intact"}

StepRecords == [does : SUBSET Names, mess : SUBSET Names, flag : Names,
                within : SUBSET Names, undoes : SUBSET Names]
RowRecords == [undoes : SUBSET Names, when : Names, does : SUBSET Names,
               fails : SUBSET Names]
ExerciseRecords ==
  [needs : SUBSET Names, saves : SUBSET Names, steps : Seq(StepRecords), before : Nat,
   rows : Seq(RowRecords), checks : SUBSET Names, forgets : SUBSET Names]

Phases == {"idle", "steps", "within", "rows", "report", "dirty", "passed", "clean", "ended"}
RunRecords ==
  [name : Names, phase : Phases, pc : Nat, flags : SUBSET Names, ok : BOOLEAN,
   rowsOk : BOOLEAN, found : SUBSET Names, excused : SUBSET Names, faults : Nat]

VmTypes ==
  /\ family \in Families
  /\ origin \in SUBSET Names /\ machine \in SUBSET Names
  /\ run \in RunRecords
  /\ warned \in BOOLEAN
  /\ runs \in Nat
  /\ Running => run.name \in family
  /\ run.phase \in {"steps", "within"} => run.pc \in DOMAIN It.steps
  /\ run.phase = "within" => Now.within # {}
  /\ run.phase = "rows" => run.pc \in DOMAIN It.rows

\* The first row that is still to come, and what a test inside a step has
\* changed.
FirstDue(E, r) == IF r.phase \in {"steps", "within"} THEN 1
                  ELSE IF r.phase = "rows" THEN r.pc ELSE Len(E.rows) + 1
InTest(E, r) == IF r.phase = "within" THEN E.steps[r.pc].within ELSE {}

\* As long as no row has failed, everything in M that differs from what the
\* run r of E has found is excused, or accounted for by what comes.
DebtOf(E, r, M) ==
  /\ r.found \cap E.needs = {}
  /\ r.rowsOk =>
       M \ r.found \subseteq
         r.excused \cup InTest(E, r) \cup Accounted(E, r.flags, FirstDue(E, r))

\* The exercise that runs is accountable for the machine.
DebtInv == Running => DebtOf(It, run, machine)

\* A passed exercise had no failure.
PassedInv ==
  /\ run.phase \in {"clean", "passed"} => Left \subseteq It.forgets \cup run.excused
  /\ run.ok => run.excused = {}
  /\ run.phase = "passed" => run.ok

\* A row that failed is a fault.
FaultInv == (Running /\ ~run.rowsOk) => run.faults > 0

\* x is altered on the machine M only with its mark m.
Marked(x, m, M, O) == x \in M \ O => m \in M

\* While the run r of E is at work.
WorkOf(E, x, m, r, M, O) ==
  /\ x \in r.found \ O => x \notin E.saves
  /\ LeavesAlone(E, x, m) =>
       IF m \in E.needs THEN x \notin M \ O ELSE Marked(x, m, M, O)
  /\ \A s, w \in Nat \ {0} : Brackets(E, x, m, s, w) =>
       /\ r.phase \in {"steps", "within"} =>
            IF r.pc <= s THEN x \notin M \ O ELSE m \in M
       /\ r.phase = "rows" /\ r.rowsOk => (x \in M \ O => r.pc <= w /\ m \in M)
       /\ r.phase = "report" /\ r.rowsOk => x \notin M \ O

\* As long as nobody was told that the machine is not clean.
MarkInv ==
  warned \/ \A x \in Saved(family) :
    IF Running THEN WorkOf(It, x, Mark(family, x), run, machine, origin)
    ELSE Marked(x, Mark(family, x), machine, origin)

VmInv == VmTypes /\ DebtInv /\ PassedInv /\ FaultInv /\ MarkInv

\* The tables, taken together.
GoodTables ==
  /\ \A fam \in Families : fam \subseteq DOMAIN Exercises
  /\ DOMAIN Exercises \subseteq Names
  /\ \A e \in DOMAIN Exercises :
       /\ Exercises[e] \in ExerciseRecords /\ AccountsFor(Exercises[e])
       /\ 1 \in DOMAIN Exercises[e].steps /\ 1 \in DOMAIN Exercises[e].rows
  /\ \A fam \in Families : MarksKept(fam)

\* The exercise that runs and the step or the row it is at.
LEMMA AtHand ==
  ASSUME GoodTables, VmTypes, Running
  PROVE  /\ run.name \in DOMAIN Exercises
         /\ It \in ExerciseRecords /\ AccountsFor(It)
         /\ 1 \in DOMAIN It.steps /\ 1 \in DOMAIN It.rows
         /\ run.phase \in {"steps", "within"} => Now \in StepRecords
         /\ run.phase = "rows" => AtRow \in RowRecords
<1>1. run.name \in DOMAIN Exercises
  BY DEF GoodTables, VmTypes
<1>2. It \in ExerciseRecords /\ AccountsFor(It) /\ 1 \in DOMAIN It.steps /\ 1 \in DOMAIN It.rows
  BY <1>1 DEF GoodTables, It
<1>3. It.steps \in Seq(StepRecords) /\ It.rows \in Seq(RowRecords)
  BY <1>2 DEF ExerciseRecords
<1>4. ASSUME run.phase \in {"steps", "within"} PROVE Now \in StepRecords
  BY <1>3, <1>4, ElementOfSeq, LenProperties DEF VmTypes, Now
<1>5. ASSUME run.phase = "rows" PROVE AtRow \in RowRecords
  BY <1>3, <1>5, ElementOfSeq, LenProperties DEF VmTypes, AtRow
<1> QED
  BY <1>1, <1>2, <1>4, <1>5

\* To the next step, or to the cleanup.
LEMMA Advances ==
  ASSUME GoodTables, VmTypes, run.phase \in {"steps", "within"},
         NEW r \in RunRecords, r.name = run.name, Advance(r)
  PROVE  /\ run' \in RunRecords /\ run'.name = run.name
         /\ run'.flags = r.flags /\ run'.ok = r.ok /\ run'.rowsOk = r.rowsOk
         /\ run'.found = r.found /\ run'.excused = r.excused /\ run'.faults = r.faults
         /\ \/ run'.phase = "steps" /\ run'.pc = run.pc + 1 /\ run'.pc \in DOMAIN It.steps
            \/ run'.phase = "rows" /\ run'.pc = 1 /\ run'.pc \in DOMAIN It.rows
<1>1. /\ It \in ExerciseRecords /\ 1 \in DOMAIN It.rows
  BY AtHand DEF Running
<1>2. /\ It.steps \in Seq(StepRecords) /\ run.pc \in 1 .. Len(It.steps) /\ Len(It.steps) \in Nat
      /\ DOMAIN It.steps = 1 .. Len(It.steps)
  BY <1>1, LenProperties DEF ExerciseRecords, VmTypes
<1>3. CASE run.pc < Len(It.steps)
  <2>1. run' = [r EXCEPT !.pc = run.pc + 1, !.phase = "steps"]
    BY <1>3 DEF Advance
  <2>2. run.pc + 1 \in Nat /\ run.pc + 1 \in DOMAIN It.steps
    BY <1>2, <1>3
  <2> QED
    BY <2>1, <2>2 DEF RunRecords, Phases
<1>4. CASE ~(run.pc < Len(It.steps))
  <2>1. run' = [r EXCEPT !.pc = 1, !.phase = "rows"]
    BY <1>4 DEF Advance
  <2> QED
    BY <2>1, <1>1 DEF RunRecords, Phases
<1> QED
  BY <1>3, <1>4

\* An exception.
LEMMA Raises ==
  ASSUME GoodTables, VmTypes, run.phase \in {"steps", "within"},
         NEW why \in SUBSET Names, Raise(why)
  PROVE  /\ run' \in RunRecords /\ run'.name = run.name
         /\ run'.flags = run.flags /\ run'.ok = FALSE /\ run'.rowsOk = run.rowsOk
         /\ run'.found = run.found /\ run'.excused = run.excused \cup why
         /\ run'.faults = run.faults + 1
         /\ run'.phase \in {"ended", "rows"} /\ run'.pc = 1 /\ run'.pc \in DOMAIN It.rows
<1>1. 1 \in DOMAIN It.rows
  BY AtHand DEF Running
<1>2. run \in RunRecords
  BY DEF VmTypes
<1> DEFINE next == IF run.pc <= It.before THEN "ended" ELSE "rows"
<1>3. run' = [run EXCEPT !.ok = FALSE, !.pc = 1, !.faults = @ + 1,
                         !.excused = @ \cup why, !.phase = next]
  BY DEF Raise
<1>4. next \in {"ended", "rows"}
  OBVIOUS
<1> HIDE DEF next
<1>5. /\ run.faults + 1 \in Nat /\ run.excused \cup why \in SUBSET Names /\ next \in Phases
  <2>1. run.faults \in Nat /\ run.excused \in SUBSET Names
    BY <1>2 DEF RunRecords
  <2>2. next \in Phases
    BY <1>4 DEF Phases
  <2>3. run.faults + 1 \in Nat
    BY <2>1
  <2>4. run.excused \cup why \in SUBSET Names
    BY <2>1, Zenon
  <2> QED
    BY <2>2, <2>3, <2>4
<1>6. /\ run'.name = run.name /\ run'.flags = run.flags /\ run'.ok = FALSE
      /\ run'.rowsOk = run.rowsOk /\ run'.found = run.found
      /\ run'.excused = run.excused \cup why /\ run'.faults = run.faults + 1
      /\ run'.phase = next /\ run'.pc = 1
  BY <1>2, <1>3 DEF RunRecords
<1>7. run' \in RunRecords
  BY <1>2, <1>3, <1>5 DEF RunRecords
<1> QED
  BY <1>1, <1>4, <1>6, <1>7

\* To the next row, or to the report.
LEMMA CleansOn ==
  ASSUME GoodTables, VmTypes, run.phase = "rows",
         NEW r \in RunRecords, r.name = run.name, r.phase = "rows", r.pc = run.pc, NextRow(r)
  PROVE  /\ run' \in RunRecords /\ run'.name = run.name
         /\ run'.flags = r.flags /\ run'.ok = r.ok /\ run'.rowsOk = r.rowsOk
         /\ run'.found = r.found /\ run'.excused = r.excused /\ run'.faults = r.faults
         /\ \/ run'.phase = "rows" /\ run'.pc = run.pc + 1 /\ run'.pc \in DOMAIN It.rows
            \/ run'.phase = "report" /\ run.pc = Len(It.rows)
<1>1. It \in ExerciseRecords
  BY AtHand DEF Running
<1>2. /\ It.rows \in Seq(RowRecords) /\ run.pc \in 1 .. Len(It.rows) /\ Len(It.rows) \in Nat
      /\ DOMAIN It.rows = 1 .. Len(It.rows)
  BY <1>1, LenProperties DEF ExerciseRecords, VmTypes
<1>3. CASE run.pc < Len(It.rows)
  <2>1. run' = [r EXCEPT !.pc = @ + 1]
    BY <1>3 DEF NextRow
  <2>2. run.pc + 1 \in Nat /\ run.pc + 1 \in DOMAIN It.rows
    BY <1>2, <1>3
  <2> QED
    BY <2>1, <2>2 DEF RunRecords, Phases
<1>4. CASE ~(run.pc < Len(It.rows))
  <2>1. run' = [r EXCEPT !.phase = "report"]
    BY <1>4 DEF NextRow
  <2>2. run.pc = Len(It.rows)
    BY <1>2, <1>4
  <2> QED
    BY <2>1, <2>2 DEF RunRecords, Phases
<1> QED
  BY <1>3, <1>4

----------------------------------------------------------------------------
(* What the actions do to the machine.                                     *)

\* A restoration takes away what was not found.
LEMMA PutsBack ==
  ASSUME NEW T
  PROVE  /\ PutBack(T) \ run.found = (machine \ run.found) \ T
         /\ \A x : x \in PutBack(T) <=>
                     (x \in machine /\ x \notin T) \/ (x \in T /\ x \in It.saves /\ x \in run.found)
BY DEF PutBack

\* Sets of things stay sets of things.
LEMMA PutsBackTypes ==
  ASSUME VmTypes, NEW T, NEW D \in SUBSET Names
  PROVE  /\ machine \in SUBSET Names /\ run.found \in SUBSET Names
         /\ machine \cup D \in SUBSET Names
         /\ PutBack(T) \cup D \in SUBSET Names /\ PutBack(T) \in SUBSET Names
<1>1. machine \in SUBSET Names /\ run.found \in SUBSET Names
  BY DEF VmTypes, RunRecords
<1>2. PutBack(T) \in SUBSET Names
  BY <1>1, Zenon DEF PutBack
<1>3. machine \cup D \in SUBSET Names
  BY <1>1, Zenon
<1>4. PutBack(T) \cup D \in SUBSET Names
  BY <1>2, Zenon
<1> QED
  BY <1>1, <1>2, <1>3, <1>4

\* The step at hand and what its parts are sets of.
LEMMA NowParts ==
  ASSUME GoodTables, VmTypes, run.phase \in {"steps", "within"}
  PROVE  /\ Now.does \in SUBSET Names /\ Now.mess \in SUBSET Names /\ Now.flag \in Names
         /\ Now.within \in SUBSET Names
         /\ {} \in SUBSET Names
         /\ (IF Now.flag = "" THEN {} ELSE Now.does) \in SUBSET Names
<1>1. Now \in StepRecords
  BY AtHand DEF Running
<1> QED
  BY <1>1 DEF StepRecords

\* The outcome of a step: on to the next one, or to the cleanup after an
\* exception, or into a test of its own.
StepOutcome(flags, why) ==
  /\ run' \in RunRecords /\ run'.name = run.name
  /\ run'.flags = run.flags \cup flags /\ run'.rowsOk = run.rowsOk
  /\ run'.found = run.found /\ run'.excused = run.excused \cup why
  /\ run'.ok => why = {} /\ run.ok
  /\ run'.faults >= run.faults
  /\ \/ run'.phase = "steps" /\ run'.pc = run.pc + 1 /\ run'.pc \in DOMAIN It.steps
     \/ run'.phase = "rows" /\ run'.pc = 1 /\ run'.pc \in DOMAIN It.rows
     \/ run'.phase = "ended"

\* What an exception leaves.
LEMMA RaiseOutcome ==
  ASSUME GoodTables, VmTypes, run.phase \in {"steps", "within"},
         NEW why \in SUBSET Names, Raise(why)
  PROVE  StepOutcome({}, why) /\ run'.phase # "steps"
<1>1. run.faults \in Nat
  BY DEF VmTypes, RunRecords
<1>2. run.faults + 1 >= run.faults
  BY <1>1
<1> QED
  BY Raises, <1>2 DEF StepOutcome

\* What a step that goes on leaves.
LEMMA AdvanceOutcome ==
  ASSUME GoodTables, VmTypes, run.phase \in {"steps", "within"},
         NEW flags \in SUBSET Names,
         Advance([run EXCEPT !.flags = @ \cup flags])
  PROVE  StepOutcome(flags, {})
<1> DEFINE r == [run EXCEPT !.flags = @ \cup flags]
<1>1. run \in RunRecords
  BY DEF VmTypes
<1>2. run.flags \cup flags \in SUBSET Names
  <2>1. run.flags \in SUBSET Names
    BY <1>1 DEF RunRecords
  <2> QED
    BY <2>1, Zenon
<1>3. /\ r.name = run.name /\ r.flags = run.flags \cup flags /\ r.ok = run.ok
      /\ r.rowsOk = run.rowsOk /\ r.found = run.found /\ r.excused = run.excused
      /\ r.faults = run.faults
  BY <1>1 DEF RunRecords
<1>4. r \in RunRecords
  BY <1>1, <1>2 DEF RunRecords
<1>5. Advance(r)
  OBVIOUS
<1>6. run.faults >= run.faults
  BY <1>1 DEF RunRecords
<1> HIDE DEF r
<1> QED
  BY <1>3, <1>4, <1>5, <1>6, Advances DEF StepOutcome

\* A step that takes effect.
LEMMA StepDoneOutcome ==
  ASSUME GoodTables, VmTypes, StepDone
  PROVE  /\ machine' = PutBack(Now.undoes) \cup Now.does
         /\ StepOutcome({Now.flag} \ {""}, {})
<1>1. run.phase = "steps" /\ Now.flag \in Names
  BY NowParts DEF StepDone
<1>2. {Now.flag} \ {""} \in SUBSET Names
  BY <1>1, Zenon
<1> QED
  BY <1>1, <1>2, AdvanceOutcome DEF StepDone

\* A step that fails: with nothing, with half, or with all of its effect.
LEMMA StepFailsOutcome ==
  ASSUME GoodTables, VmTypes, StepFails
  PROVE  \/ machine' = machine /\ StepOutcome({}, {}) /\ run'.phase # "steps"
         \/ machine' = machine \cup Now.mess /\ StepOutcome({}, Now.mess) /\ run'.phase # "steps"
         \/ /\ machine' = PutBack(Now.undoes) \cup Now.does
            /\ StepOutcome({}, IF Now.flag = "" THEN {} ELSE Now.does) /\ run'.phase # "steps"
BY NowParts, RaiseOutcome DEF StepFails

\* The end of a test with a finally clause of its own.
LEMMA LeaveWithinOutcome ==
  ASSUME GoodTables, VmTypes, LeaveWithin
  PROVE  machine' = PutBack(Now.within) /\ StepOutcome({}, {})
<1>1. CASE Advance(run)
  <2>1. run.flags \cup {} = run.flags /\ run.excused \cup {} = run.excused
    OBVIOUS
  <2>2. run \in RunRecords
    BY DEF VmTypes
  <2>3. run.faults >= run.faults
    BY <2>2 DEF RunRecords
  <2> QED
    BY <1>1, <2>1, <2>2, <2>3, Advances DEF LeaveWithin, StepOutcome
<1>2. CASE Raise({})
  BY <1>2, NowParts, RaiseOutcome DEF LeaveWithin
<1> QED
  BY <1>1, <1>2 DEF LeaveWithin

\* A restoration inside a test that fails.
LEMMA WithinStaysOutcome ==
  ASSUME GoodTables, VmTypes, WithinStays
  PROVE  machine' = machine /\ StepOutcome({}, Now.within) /\ run'.phase # "steps"
BY NowParts, RaiseOutcome DEF WithinStays

\* The beginning of a test inside a step.
LEMMA EnterWithinOutcome ==
  ASSUME GoodTables, VmTypes, EnterWithin
  PROVE  /\ machine' = machine \cup Now.within \cup Now.does
         /\ run' \in RunRecords /\ run'.phase = "within"
         /\ run'.name = run.name /\ run'.pc = run.pc /\ run'.flags = run.flags
         /\ run'.ok = run.ok /\ run'.rowsOk = run.rowsOk /\ run'.found = run.found
         /\ run'.excused = run.excused /\ run'.faults = run.faults
<1>1. run \in RunRecords
  BY DEF VmTypes
<1> QED
  BY <1>1 DEF EnterWithin, RunRecords, Phases

\* A row of the cleanup that is done or not due, and one that fails.
LEMMA CleanOkOutcome ==
  ASSUME GoodTables, VmTypes, CleanOk
  PROVE  /\ machine' = IF Due THEN PutBack(AtRow.undoes) \cup AtRow.does ELSE machine
         /\ run' \in RunRecords /\ run'.name = run.name
         /\ run'.flags = run.flags /\ run'.ok = run.ok /\ run'.rowsOk = run.rowsOk
         /\ run'.found = run.found /\ run'.excused = run.excused
         /\ run'.faults = run.faults
         /\ \/ run'.phase = "rows" /\ run'.pc = run.pc + 1 /\ run'.pc \in DOMAIN It.rows
            \/ run'.phase = "report" /\ run.pc = Len(It.rows)
<1>1. run \in RunRecords
  BY DEF VmTypes
<1> QED
  BY <1>1, CleansOn DEF CleanOk

\* A row that fails and is recorded, or that leaves the cleanup.
LEMMA CleanFailsOutcome ==
  ASSUME GoodTables, VmTypes, CleanFails
  PROVE  /\ machine' = machine /\ run' \in RunRecords /\ run'.name = run.name
         /\ run'.ok = run.ok /\ run'.excused = run.excused /\ run'.found = run.found
         /\ \/ /\ ~run'.rowsOk /\ run'.faults > 0
               /\ run'.phase = "rows" => run'.pc \in DOMAIN It.rows
               /\ run'.phase \in {"rows", "report"}
            \/ /\ run'.phase = "ended" /\ run'.rowsOk = run.rowsOk
               /\ warned' = (warned \/ run.faults > 0)
<1>1. run \in RunRecords /\ run.faults \in Nat
  BY DEF VmTypes, RunRecords
<1>2. CASE NextRow([run EXCEPT !.rowsOk = FALSE, !.faults = @ + 1])
  <2> DEFINE r == [run EXCEPT !.rowsOk = FALSE, !.faults = @ + 1]
  <2>1. run.faults + 1 \in Nat /\ run.faults + 1 > 0
    BY <1>1
  <2>2. /\ r.name = run.name /\ r.phase = run.phase /\ r.pc = run.pc /\ r.ok = run.ok
        /\ r.excused = run.excused /\ r.found = run.found /\ r.rowsOk = FALSE
        /\ r.faults = run.faults + 1
    BY <1>1 DEF RunRecords
  <2>3. r \in RunRecords
    BY <1>1, <2>1 DEF RunRecords
  <2>4. NextRow(r)
    BY <1>2
  <2> HIDE DEF r
  <2> QED
    BY <2>1, <2>2, <2>3, <2>4, CleansOn DEF CleanFails
<1>3. CASE run' = [run EXCEPT !.phase = "ended", !.faults = @ + 1]
           /\ warned' = (warned \/ run.faults > 0)
  <2>1. run.faults + 1 \in Nat
    BY <1>1
  <2>2. /\ run'.name = run.name /\ run'.ok = run.ok /\ run'.excused = run.excused
        /\ run'.found = run.found /\ run'.rowsOk = run.rowsOk /\ run'.phase = "ended"
    BY <1>1, <1>3 DEF RunRecords
  <2>3. run' \in RunRecords
    BY <1>1, <1>3, <2>1 DEF RunRecords, Phases
  <2> QED
    BY <1>3, <2>2, <2>3 DEF CleanFails
<1> QED
  BY <1>2, <1>3 DEF CleanFails

\* The report, a kill and a restart change the phase only.
LEMMA EndOutcome ==
  ASSUME VmTypes, NEW p \in Phases, run' = [run EXCEPT !.phase = p]
  PROVE  /\ run' \in RunRecords /\ run'.name = run.name /\ run'.ok = run.ok
         /\ run'.excused = run.excused /\ run'.found = run.found
         /\ run'.rowsOk = run.rowsOk /\ run'.faults = run.faults /\ run'.phase = p
         /\ run'.flags = run.flags
<1>1. run \in RunRecords
  BY DEF VmTypes
<1> QED
  BY <1>1 DEF RunRecords

\* A new exercise.
LEMMA BeginOutcome ==
  ASSUME GoodTables, VmTypes, NEW e \in family, Begin(e)
  PROVE  /\ e \in DOMAIN Exercises /\ run' \in RunRecords /\ run'.name = e
         /\ run'.phase = "steps" /\ run'.pc = 1 /\ run'.flags = {}
         /\ run'.found = machine /\ run'.excused = {} /\ run'.rowsOk = TRUE
         /\ 1 \in DOMAIN Exercises[e].steps
<1>1. e \in DOMAIN Exercises /\ machine \in SUBSET Names
  BY DEF GoodTables, VmTypes
<1>2. e \in Names
  BY <1>1 DEF GoodTables
<1>3. run' = [Resting EXCEPT !.name = e, !.phase = "steps", !.found = machine]
  BY DEF Begin
<1>4. /\ run'.name = e /\ run'.phase = "steps" /\ run'.pc = 1 /\ run'.flags = {}
      /\ run'.found = machine /\ run'.excused = {} /\ run'.rowsOk = TRUE
  BY <1>3 DEF Resting
<1>5. run' \in RunRecords
  BY <1>1, <1>2, <1>3 DEF Resting, RunRecords, Phases
<1> QED
  BY <1>1, <1>4, <1>5 DEF GoodTables

----------------------------------------------------------------------------
(* Types.                                                                  *)

\* Everything stays of its type.
LEMMA VmTypesNext ==
  ASSUME GoodTables, VmTypes, VmNext
  PROVE  VmTypes'
<1> USE DEF VmTypes
<1>1. ASSUME NEW e \in family, Begin(e) PROVE VmTypes'
  <2>1. It' = Exercises[e]
    BY <1>1, BeginOutcome DEF It
  <2>2. runs' \in Nat
    BY <1>1 DEF Begin
  <2>3. /\ run' \in RunRecords /\ run'.name = e /\ run'.phase = "steps" /\ run'.pc = 1
        /\ 1 \in DOMAIN Exercises[e].steps
    BY <1>1, BeginOutcome
  <2>4. UNCHANGED <<family, origin, machine, warned>>
    BY <1>1 DEF Begin
  <2> QED
    BY <2>1, <2>2, <2>3, <2>4
<1>2. ASSUME run.phase \in {"steps", "within"}, NEW flags, NEW why, StepOutcome(flags, why),
             machine' \in SUBSET Names, UNCHANGED <<family, origin, warned, runs>>
      PROVE  VmTypes'
  <2>1. It' = It
    BY <1>2 DEF It, StepOutcome
  <2> QED
    BY <1>2, <2>1 DEF StepOutcome, Running
<1>3. CASE StepDone
  <2>1. run.phase \in {"steps", "within"} /\ UNCHANGED <<family, origin, warned, runs>>
    BY <1>3 DEF StepDone
  <2>2. PutBack(Now.undoes) \cup Now.does \in SUBSET Names
    BY <2>1, PutsBackTypes, NowParts
  <2>3. machine' \in SUBSET Names /\ StepOutcome({Now.flag} \ {""}, {})
    BY <1>3, <2>2, StepDoneOutcome
  <2> QED
    BY <1>2, <2>1, <2>3
<1>4. CASE StepFails
  <2>1. run.phase \in {"steps", "within"} /\ UNCHANGED <<family, origin, warned, runs>>
    BY <1>4 DEF StepFails
  <2>2. machine \cup Now.mess \in SUBSET Names
    BY <2>1, PutsBackTypes, NowParts, Zenon
  <2> QED
    <3>1. PutBack(Now.undoes) \cup Now.does \in SUBSET Names /\ machine \in SUBSET Names
      BY <2>1, PutsBackTypes, NowParts
    <3>2. /\ machine' \in SUBSET Names
          /\ \/ StepOutcome({}, {})
             \/ StepOutcome({}, Now.mess)
             \/ StepOutcome({}, IF Now.flag = "" THEN {} ELSE Now.does)
      BY <1>4, <2>2, <3>1, StepFailsOutcome
    <3> QED
      BY <1>2, <2>1, <3>2
<1>5. CASE EnterWithin
  <2>1. run.phase \in {"steps", "within"} /\ UNCHANGED <<family, origin, warned, runs>>
    BY <1>5 DEF EnterWithin
  <2>2. It' = It
    BY <1>5, EnterWithinOutcome DEF It
  <2>3. Now' = Now /\ Now.within # {}
    BY <1>5, <2>2, EnterWithinOutcome DEF Now, EnterWithin
  <2> QED
    BY <1>5, <2>1, <2>2, <2>3, EnterWithinOutcome, PutsBackTypes, NowParts DEF Running
<1>6. CASE LeaveWithin
  <2>1. run.phase \in {"steps", "within"} /\ UNCHANGED <<family, origin, warned, runs>>
    BY <1>6 DEF LeaveWithin
  <2> QED
    <3>1. machine' \in SUBSET Names /\ StepOutcome({}, {})
      BY <1>6, <2>1, LeaveWithinOutcome, PutsBackTypes, NowParts
    <3> QED
      BY <1>2, <2>1, <3>1
<1>7. CASE WithinStays
  <2>1. run.phase \in {"steps", "within"} /\ UNCHANGED <<family, origin, warned, runs>>
    BY <1>7 DEF WithinStays
  <2> QED
    BY <1>2, <1>7, <2>1, WithinStaysOutcome, PutsBackTypes, NowParts
<1>8. CASE CleanOk
  <2>1. run.phase = "rows" /\ UNCHANGED <<family, origin, warned, runs>>
    BY <1>8 DEF CleanOk
  <2>2. It' = It
    BY <1>8, CleanOkOutcome DEF It
  <2>3. AtRow.does \in SUBSET Names
    BY <2>1, AtHand DEF Running, RowRecords
  <2>4. machine' \in SUBSET Names
    <3>1. PutBack(AtRow.undoes) \cup AtRow.does \in SUBSET Names /\ machine \in SUBSET Names
      BY <2>3, PutsBackTypes
    <3> QED
      BY <1>8, <3>1, CleanOkOutcome
  <2> QED
    BY <1>8, <2>1, <2>2, <2>4, CleanOkOutcome DEF Running
<1>9. CASE CleanFails
  <2>1. run.phase = "rows" /\ UNCHANGED <<family, origin, machine, runs>>
        /\ warned' \in BOOLEAN
    BY <1>9 DEF CleanFails
  <2>2. It' = It
    BY <1>9, CleanFailsOutcome DEF It
  <2> QED
    BY <1>9, <2>1, <2>2, CleanFailsOutcome DEF Running
<1>10. ASSUME NEW p \in Phases, run' = [run EXCEPT !.phase = p],
              p \notin {"steps", "within", "rows"}, Running \/ p # "report",
              machine' \in SUBSET Names, warned' \in BOOLEAN,
              UNCHANGED <<family, origin, runs>>
       PROVE  VmTypes'
  BY <1>10, EndOutcome DEF Running
<1>11. CASE Report
  <2> DEFINE p == IF ~LooksClean THEN "dirty" ELSE IF run.ok THEN "passed" ELSE "clean"
  <2>1. p \in Phases /\ p \notin {"steps", "within", "rows"} /\ p # "report"
    BY DEF Phases
  <2>2. /\ run' = [run EXCEPT !.phase = p] /\ warned' \in BOOLEAN
        /\ UNCHANGED <<family, origin, machine, runs>>
    BY <1>11 DEF Report
  <2> HIDE DEF p
  <2> QED
    BY <1>10, <2>1, <2>2
<1>12. CASE Kill
  <2>1. /\ run' = [run EXCEPT !.phase = "ended"] /\ warned' \in BOOLEAN
        /\ UNCHANGED <<family, origin, machine, runs>>
    BY <1>12 DEF Kill
  <2> QED
    BY <1>10, <2>1 DEF Phases
<1>13. CASE Reboot
  <2>1. /\ run' = [run EXCEPT !.phase = "idle"] /\ warned' \in BOOLEAN
        /\ UNCHANGED <<family, origin, runs>>
        /\ machine' = (machine \ Volatile) \cup (origin \cap Volatile)
    BY <1>13 DEF Reboot
  <2>2. machine' \in SUBSET Names
    BY <2>1, Zenon
  <2> QED
    BY <1>10, <2>1, <2>2 DEF Phases
<1> QED
  BY <1>1, <1>3, <1>4, <1>5, <1>6, <1>7, <1>8, <1>9, <1>11, <1>12, <1>13 DEF VmNext

----------------------------------------------------------------------------
(* The reports.                                                            *)

\* More flags, more rows.
LEMMA AccountedGrows ==
  ASSUME NEW E, NEW few, NEW many, few \subseteq many, NEW k
  PROVE  Accounted(E, few, k) \subseteq Accounted(E, many, k)
BY DEF Accounted, Owed, Certain

\* What a step changes is accounted for by the rows.
LEMMA StepsAccounted ==
  ASSUME GoodTables, VmTypes, run.phase \in {"steps", "within"}
  PROVE  /\ Now.does \subseteq Accounted(It, {Now.flag} \ {""}, 1)
         /\ Now.within # {} => Now.flag = ""
<1>1. AccountsFor(It) /\ run.pc \in DOMAIN It.steps
  BY AtHand DEF Running, VmTypes
<1> QED
  BY <1>1 DEF AccountsFor, Now

\* The debt after a step, when what it added is excused or accounted for.
LEMMA StepDebt ==
  ASSUME GoodTables, VmTypes, DebtInv, run.phase \in {"steps", "within"},
         NEW flags, NEW why, StepOutcome(flags, why),
         machine' \ run.found \subseteq
           ((machine \ run.found) \ InTest(It, run)) \cup why
             \cup Accounted(It, run.flags \cup flags, 1)
  PROVE  DebtInv'
<1> SUFFICES ASSUME Running' PROVE DebtOf(It, run, machine)'
  BY DEF DebtInv
<1>1. It' = It
  BY DEF It, StepOutcome
<1>2. DebtOf(It, run, machine)
  BY DEF DebtInv, Running
<1>3. run'.phase \in {"steps", "rows"} /\ FirstDue(It, run') = 1 /\ InTest(It, run') = {}
  BY DEF StepOutcome, Running, FirstDue, InTest
<1>4. FirstDue(It, run) = 1
  BY DEF FirstDue
<1>5. Accounted(It, run.flags, 1) \subseteq Accounted(It, run.flags \cup flags, 1)
  BY AccountedGrows
<1>6. /\ run'.found = run.found /\ run'.rowsOk = run.rowsOk
      /\ run'.flags = run.flags \cup flags /\ run'.excused = run.excused \cup why
  BY DEF StepOutcome
<1> QED
  BY <1>1, <1>2, <1>3, <1>4, <1>5, <1>6 DEF DebtOf

\* A row that is certain is due.
LEMMA CertainIsDue ==
  ASSUME run.phase = "rows", Certain(It, run.flags, run.pc)
  PROVE  Due
BY DEF Certain, Due, AtRow

\* The rows from k on are row k and the rows behind it.
LEMMA RowsBehind ==
  ASSUME NEW E, NEW flags, NEW k \in Nat, DOMAIN E.rows \subseteq Nat
  PROVE  /\ Accounted(E, flags, k) \subseteq
              Accounted(E, flags, k + 1) \cup
                (IF Certain(E, flags, k) THEN E.rows[k].undoes ELSE {})
         /\ k \notin DOMAIN E.rows => Accounted(E, flags, k) \subseteq Accounted(E, flags, k + 1)
<1>1. \A i \in DOMAIN E.rows : i >= k => i = k \/ i >= k + 1
  OBVIOUS
<1>2. ASSUME NEW x \in Owed(E, flags, k)
      PROVE  \/ x \in Owed(E, flags, k + 1)
             \/ k \in DOMAIN E.rows /\ Certain(E, flags, k) /\ x \in E.rows[k].undoes
  <2>1. PICK j \in DOMAIN E.rows : j >= k /\ Certain(E, flags, j) /\ x \in E.rows[j].undoes
    BY DEF Owed
  <2>2. CASE j = k
    BY <2>1, <2>2
  <2>3. CASE j >= k + 1
    BY <2>1, <2>3 DEF Owed
  <2> QED
    BY <1>1, <2>1, <2>2, <2>3
<1> QED
  BY <1>2 DEF Accounted

\* What differs stays accounted for.
LEMMA DebtNext ==
  ASSUME GoodTables, VmTypes, DebtInv, VmNext
  PROVE  DebtInv'
<1>1. ASSUME NEW e \in family, Begin(e) PROVE DebtInv'
  <2>1. Exercises[e].needs \cap machine = {} /\ machine' = machine
    BY <1>1 DEF Begin
  <2>2. It' = Exercises[e]
    BY <1>1, BeginOutcome DEF It
  <2> QED
    BY <1>1, <2>1, <2>2, BeginOutcome DEF DebtInv, DebtOf
<1>3. CASE StepDone
  <2>1. run.phase = "steps"
    BY <1>3 DEF StepDone
  <2>2. PutBack(Now.undoes) \ run.found = (machine \ run.found) \ Now.undoes
    BY PutsBack
  <2>3. Accounted(It, {Now.flag} \ {""}, 1)
          \subseteq Accounted(It, run.flags \cup ({Now.flag} \ {""}), 1)
    BY AccountedGrows
  <2>4. InTest(It, run) = {}
    BY <2>1 DEF InTest
  <2>5. machine' \ run.found \subseteq
          (machine \ run.found) \cup Accounted(It, run.flags \cup ({Now.flag} \ {""}), 1)
    BY <1>3, <2>1, <2>2, <2>3, StepDoneOutcome, StepsAccounted
  <2> QED
    BY <1>3, <2>1, <2>4, <2>5, StepDoneOutcome, StepDebt
<1>4. CASE StepFails
  <2>1. run.phase = "steps"
    BY <1>4 DEF StepFails
  <2>2. InTest(It, run) = {}
    BY <2>1 DEF InTest
  <2>3. CASE machine' = machine /\ StepOutcome({}, {})
    BY <2>1, <2>2, <2>3, StepDebt
  <2>4. CASE machine' = machine \cup Now.mess /\ StepOutcome({}, Now.mess)
    BY <2>1, <2>2, <2>4, StepDebt
  <2> DEFINE why == IF Now.flag = "" THEN {} ELSE Now.does
  <2>5. CASE machine' = PutBack(Now.undoes) \cup Now.does /\ StepOutcome({}, why)
    <3>1. PutBack(Now.undoes) \ run.found = (machine \ run.found) \ Now.undoes
      BY PutsBack
    <3>2. Now.does \subseteq why \cup Accounted(It, run.flags \cup {}, 1)
      <4>1. CASE Now.flag = ""
        <5>1. Now.does \subseteq Accounted(It, {}, 1)
          <6>1. {Now.flag} \ {""} = {}
            BY <4>1
          <6> QED
            BY <2>1, <6>1, StepsAccounted
        <5>2. Accounted(It, {}, 1) \subseteq Accounted(It, run.flags \cup {}, 1)
          BY AccountedGrows
        <5> QED
          BY <5>1, <5>2
      <4>2. CASE Now.flag # ""
        BY <4>2
      <4> QED
        BY <4>1, <4>2
    <3> HIDE DEF why
    <3>3. machine' \ run.found \subseteq
            (machine \ run.found) \cup why \cup Accounted(It, run.flags \cup {}, 1)
      BY <2>5, <3>1, <3>2
    <3> QED
      BY <2>1, <2>2, <2>5, <3>3, StepDebt
  <2> QED
    BY <1>4, <2>3, <2>4, <2>5, StepFailsOutcome
<1>5. CASE EnterWithin
  <2>1. run.phase = "steps" /\ Now.within # {}
    BY <1>5 DEF EnterWithin
  <2>2. It' = It
    BY <1>5, EnterWithinOutcome DEF It
  <2>3. DebtOf(It, run, machine)
    BY <2>1 DEF DebtInv, Running
  <2>4. Now.does \subseteq Accounted(It, {}, 1)
    <3>1. {Now.flag} \ {""} = {}
      BY <2>1, StepsAccounted
    <3> QED
      BY <2>1, <3>1, StepsAccounted
  <2>5. Accounted(It, {}, 1) \subseteq Accounted(It, run.flags, 1)
    BY AccountedGrows
  <2>6. FirstDue(It, run) = 1 /\ FirstDue(It, run') = 1 /\ InTest(It, run) = {}
        /\ InTest(It, run') = Now.within
    BY <1>5, <2>1, EnterWithinOutcome DEF FirstDue, InTest, Now
  <2>7. DebtOf(It, run', machine')
    BY <1>5, <2>3, <2>4, <2>5, <2>6, EnterWithinOutcome DEF DebtOf
  <2> QED
    BY <2>2, <2>7 DEF DebtInv
<1>6. CASE LeaveWithin
  <2>1. run.phase = "within"
    BY <1>6 DEF LeaveWithin
  <2>2. PutBack(Now.within) \ run.found = (machine \ run.found) \ Now.within
    BY PutsBack
  <2>3. InTest(It, run) = Now.within
    BY <2>1 DEF InTest, Now
  <2>4. machine' \ run.found = (machine \ run.found) \ InTest(It, run)
    BY <1>6, <2>2, <2>3, LeaveWithinOutcome
  <2> QED
    BY <1>6, <2>1, <2>4, LeaveWithinOutcome, StepDebt
<1>7. CASE WithinStays
  <2>1. run.phase = "within"
    BY <1>7 DEF WithinStays
  <2>2. InTest(It, run) = Now.within
    BY <2>1 DEF InTest, Now
  <2>3. machine' \ run.found \subseteq ((machine \ run.found) \ InTest(It, run)) \cup Now.within
    BY <1>7, <2>2, WithinStaysOutcome
  <2> QED
    BY <1>7, <2>1, <2>3, WithinStaysOutcome, StepDebt
<1>8. CASE CleanOk
  <2>1. run.phase = "rows"
    BY <1>8 DEF CleanOk
  <2>2. It' = It
    BY <1>8, CleanOkOutcome DEF It
  <2>3. DebtOf(It, run, machine)
    BY <2>1 DEF DebtInv, Running
  <2>4. AccountsFor(It) /\ It \in ExerciseRecords /\ run.pc \in DOMAIN It.rows
    BY <2>1, AtHand DEF Running, VmTypes
  <2>5. It.rows \in Seq(RowRecords)
    BY <2>4 DEF ExerciseRecords
  <2>6. /\ DOMAIN It.rows = 1 .. Len(It.rows) /\ DOMAIN It.rows \subseteq Nat
        /\ run.pc \in Nat
    BY <2>4, <2>5, LenProperties
  <2> DEFINE behind == Accounted(It, run.flags, run.pc + 1)
  <2>7. Accounted(It, run.flags, run.pc) \subseteq
          behind \cup (IF Certain(It, run.flags, run.pc) THEN AtRow.undoes ELSE {})
    BY <2>6, RowsBehind DEF AtRow
  <2>8. AtRow.does \subseteq behind
    <3>1. AtRow.does \subseteq Accounted(It, {}, run.pc + 1)
      BY <2>4 DEF AccountsFor, AtRow
    <3>2. Accounted(It, {}, run.pc + 1) \subseteq behind
      BY AccountedGrows
    <3> QED
      BY <3>1, <3>2
  <2>9. /\ InTest(It, run) = {} /\ FirstDue(It, run) = run.pc
        /\ InTest(It, run') = {} /\ FirstDue(It, run') = run.pc + 1
    BY <1>8, <2>1, CleanOkOutcome DEF InTest, FirstDue
  <2> HIDE DEF behind
  <2>10. ASSUME run.rowsOk PROVE machine' \ run.found \subseteq run.excused \cup behind
    <3>1. machine \ run.found \subseteq run.excused \cup Accounted(It, run.flags, run.pc)
      BY <2>3, <2>9, <2>10 DEF DebtOf
    <3>2. CASE Due
      <4>1. PutBack(AtRow.undoes) \ run.found = (machine \ run.found) \ AtRow.undoes
        BY PutsBack
      <4> QED
        BY <1>8, <2>7, <2>8, <3>1, <3>2, <4>1, CleanOkOutcome
    <3>3. CASE ~Due
      BY <1>8, <2>1, <2>7, <3>1, <3>3, CertainIsDue, CleanOkOutcome
    <3> QED
      BY <3>2, <3>3
  <2>11. DebtOf(It, run', machine')
    BY <1>8, <2>3, <2>9, <2>10, CleanOkOutcome DEF DebtOf, behind
  <2> QED
    BY <2>2, <2>11 DEF DebtInv
<1>9. CASE CleanFails
  <2>1. It' = It /\ run.phase = "rows"
    BY <1>9, CleanFailsOutcome DEF It, CleanFails
  <2>2. DebtOf(It, run, machine)
    BY <2>1 DEF DebtInv, Running
  <2>3. ~run'.rowsOk \/ run'.phase = "ended"
    BY <1>9, CleanFailsOutcome
  <2> QED
    BY <1>9, <2>1, <2>2, <2>3, CleanFailsOutcome DEF DebtInv, DebtOf, Running
<1>10. ASSUME NEW p \in Phases, run' = [run EXCEPT !.phase = p],
              p \notin {"steps", "within", "rows", "report"}
       PROVE  DebtInv'
  BY <1>10, EndOutcome DEF DebtInv, Running
<1>11. CASE Report
  <2> DEFINE p == IF ~LooksClean THEN "dirty" ELSE IF run.ok THEN "passed" ELSE "clean"
  <2>1. p \in Phases /\ p \notin {"steps", "within", "rows", "report"}
    BY DEF Phases
  <2>2. run' = [run EXCEPT !.phase = p]
    BY <1>11 DEF Report
  <2> HIDE DEF p
  <2> QED
    BY <1>10, <2>1, <2>2
<1>12. CASE Kill
  BY <1>10, <1>12 DEF Kill, Phases
<1>13. CASE Reboot
  BY <1>10, <1>13 DEF Reboot, Phases
<1> QED
  BY <1>1, <1>3, <1>4, <1>5, <1>6, <1>7, <1>8, <1>9, <1>11, <1>12, <1>13 DEF VmNext

\* The report says what is true.
LEMMA PassedNext ==
  ASSUME GoodTables, VmTypes, DebtInv, PassedInv, VmNext
  PROVE  PassedInv'
<1>1. ASSUME NEW e \in family, Begin(e) PROVE PassedInv'
  BY <1>1, BeginOutcome DEF PassedInv
<1>2. ASSUME NEW flags, NEW why, StepOutcome(flags, why) PROVE PassedInv'
  BY <1>2 DEF StepOutcome, PassedInv
<1>3. CASE StepDone
  BY <1>2, <1>3, StepDoneOutcome
<1>4. CASE StepFails
  BY <1>2, <1>4, StepFailsOutcome
<1>5. CASE EnterWithin
  BY <1>5, EnterWithinOutcome DEF PassedInv
<1>6. CASE LeaveWithin
  BY <1>2, <1>6, LeaveWithinOutcome
<1>7. CASE WithinStays
  BY <1>2, <1>7, WithinStaysOutcome
<1>8. CASE CleanOk
  BY <1>8, CleanOkOutcome DEF PassedInv
<1>9. CASE CleanFails
  BY <1>9, CleanFailsOutcome DEF PassedInv
<1>11. CASE Report
  <2> DEFINE p == IF ~LooksClean THEN "dirty" ELSE IF run.ok THEN "passed" ELSE "clean"
  <2>1. p \in Phases /\ (p = "passed" => run.ok) /\ (p \in {"clean", "passed"} => LooksClean)
    BY DEF Phases
  <2>2. run' = [run EXCEPT !.phase = p] /\ machine' = machine /\ run.phase = "report"
    BY <1>11 DEF Report
  <2> HIDE DEF p
  <2>3. /\ run'.phase = p /\ run'.ok = run.ok /\ run'.excused = run.excused
        /\ run'.found = run.found /\ run'.name = run.name
    BY <2>1, <2>2, EndOutcome
  <2>4. It' = It /\ Left' = Left
    BY <2>2, <2>3 DEF It, Left
  <2>5. ASSUME LooksClean PROVE Left \subseteq It.forgets \cup run.excused
    <3>1. run.rowsOk /\ It.checks \cap Left = {}
      BY <2>5 DEF LooksClean
    <3>2. DebtOf(It, run, machine)
      BY <2>2 DEF DebtInv, Running
    <3>3. It \in ExerciseRecords /\ AccountsFor(It)
      BY <2>2, AtHand DEF Running
    <3>4. \A j \in DOMAIN It.rows : ~(j >= Len(It.rows) + 1)
      <4>1. It.rows \in Seq(RowRecords)
        BY <3>3 DEF ExerciseRecords
      <4> QED
        BY <4>1, LenProperties
    <3>5. Owed(It, run.flags, Len(It.rows) + 1) = {}
      BY <3>4 DEF Owed
    <3>6. InTest(It, run) = {} /\ FirstDue(It, run) = Len(It.rows) + 1
      BY <2>2 DEF InTest, FirstDue
    <3>7. machine \ run.found \subseteq run.excused \cup It.forgets \cup It.checks
      BY <3>1, <3>2, <3>5, <3>6 DEF DebtOf, Accounted
    <3>8. (run.found \ machine) \cap {"mode"} \subseteq It.forgets \cup It.checks
      BY <3>2, <3>3 DEF DebtOf, AccountsFor
    <3> QED
      BY <3>1, <3>7, <3>8 DEF Left
  <2> QED
    BY <2>1, <2>3, <2>4, <2>5 DEF PassedInv
<1>12. CASE Kill
  <2>1. run'.phase = "ended" /\ run'.ok = run.ok /\ run'.excused = run.excused
    BY <1>12, EndOutcome DEF Kill, Phases
  <2> QED
    BY <2>1 DEF PassedInv
<1>13. CASE Reboot
  <2>1. run'.phase = "idle" /\ run'.ok = run.ok /\ run'.excused = run.excused
    BY <1>13, EndOutcome DEF Reboot, Phases
  <2> QED
    BY <2>1 DEF PassedInv
<1> QED
  BY <1>1, <1>3, <1>4, <1>5, <1>6, <1>7, <1>8, <1>9, <1>11, <1>12, <1>13 DEF VmNext

\* A row that failed is counted.
LEMMA FaultNext ==
  ASSUME GoodTables, VmTypes, FaultInv, VmNext
  PROVE  FaultInv'
<1>0. run.faults \in Nat
  BY DEF VmTypes, RunRecords
<1>1. ASSUME NEW e \in family, Begin(e) PROVE FaultInv'
  BY <1>1, BeginOutcome DEF FaultInv
<1>2. ASSUME NEW flags, NEW why, StepOutcome(flags, why),
             run.phase \in {"steps", "within"}
      PROVE  FaultInv'
  <2>1. run'.faults \in Nat
    BY <1>2 DEF StepOutcome, RunRecords
  <2> QED
    BY <1>0, <1>2, <2>1 DEF StepOutcome, FaultInv, Running
<1>3. CASE StepDone
  BY <1>2, <1>3, StepDoneOutcome DEF StepDone
<1>4. CASE StepFails
  BY <1>2, <1>4, StepFailsOutcome DEF StepFails
<1>5. CASE EnterWithin
  BY <1>5, EnterWithinOutcome DEF FaultInv, Running, EnterWithin
<1>6. CASE LeaveWithin
  BY <1>2, <1>6, LeaveWithinOutcome DEF LeaveWithin
<1>7. CASE WithinStays
  BY <1>2, <1>7, WithinStaysOutcome DEF WithinStays
<1>8. CASE CleanOk
  BY <1>8, CleanOkOutcome DEF FaultInv, Running, CleanOk
<1>9. CASE CleanFails
  BY <1>9, CleanFailsOutcome DEF FaultInv, Running
<1>11. CASE Report
  <2> DEFINE p == IF ~LooksClean THEN "dirty" ELSE IF run.ok THEN "passed" ELSE "clean"
  <2>1. p \in Phases /\ p \notin {"steps", "within", "rows", "report"}
    BY DEF Phases
  <2>2. run' = [run EXCEPT !.phase = p]
    BY <1>11 DEF Report
  <2> HIDE DEF p
  <2> QED
    BY <2>1, <2>2, EndOutcome DEF FaultInv, Running
<1>12. CASE Kill
  BY <1>12, EndOutcome DEF Kill, Phases, FaultInv, Running
<1>13. CASE Reboot
  BY <1>13, EndOutcome DEF Reboot, Phases, FaultInv, Running
<1> QED
  BY <1>1, <1>3, <1>4, <1>5, <1>6, <1>7, <1>8, <1>9, <1>11, <1>12, <1>13 DEF VmNext

----------------------------------------------------------------------------
(* The marks.                                                              *)

\* Whoever is at work on an altered thing without a failed row has left its
\* mark.
LEMMA WorkIsMarked ==
  ASSUME NEW E, NEW x, NEW m, NEW r, NEW M, NEW O, Guards(E, x, m), WorkOf(E, x, m, r, M, O),
         r.phase \in {"steps", "within"} \/ (r.phase \in {"rows", "report"} /\ r.rowsOk)
  PROVE  Marked(x, m, M, O)
<1>1. CASE LeavesAlone(E, x, m)
  BY <1>1 DEF WorkOf, Marked
<1>2. ASSUME NEW s \in Nat \ {0}, NEW w \in Nat \ {0}, Brackets(E, x, m, s, w)
      PROVE  Marked(x, m, M, O)
  BY <1>2 DEF WorkOf, Marked
<1> QED
  BY <1>1, <1>2 DEF Guards

\* A step keeps the mark of what is altered.
LEMMA StepMarks ==
  ASSUME GoodTables, VmTypes, run.phase \in {"steps", "within"},
         NEW x, NEW m, Guards(It, x, m), WorkOf(It, x, m, run, machine, origin),
         NEW flags, NEW why, StepOutcome(flags, why),
         x \in machine' => x \in machine \/ x \in Touches(It, run.pc)
                           \/ (x \in It.saves /\ x \in run.found),
         m \in machine /\ m \notin Now.undoes \cup Now.within => m \in machine',
         run'.phase = "steps" /\ Now.within = {} /\ m \in Now.does => m \in machine'
  PROVE  IF Running' THEN WorkOf(It, x, m, run', machine', origin)
         ELSE Marked(x, m, machine', origin)
<1>1. /\ run.pc \in DOMAIN It.steps /\ DOMAIN It.steps = 1 .. Len(It.steps)
      /\ run.pc \in Nat \ {0} /\ It \in ExerciseRecords
  <2>1. It \in ExerciseRecords
    BY AtHand DEF Running
  <2>2. It.steps \in Seq(StepRecords)
    BY <2>1 DEF ExerciseRecords
  <2> QED
    BY <2>1, <2>2, LenProperties DEF VmTypes
<1>2. x \in run.found \ origin => x \notin It.saves
  BY DEF WorkOf
<1>3. ASSUME LeavesAlone(It, x, m)
      PROVE  IF m \in It.needs THEN x \notin machine' \ origin ELSE Marked(x, m, machine', origin)
  <2>1. x \in machine' => x \in machine
    BY <1>1, <1>3 DEF LeavesAlone
  <2>2. m \notin It.needs => m \notin Now.undoes \cup Now.within
    BY <1>1, <1>3 DEF LeavesAlone, Now
  <2> QED
    BY <1>3, <2>1, <2>2 DEF WorkOf, Marked
<1>4. ASSUME NEW s \in Nat \ {0}, NEW w \in Nat \ {0}, Brackets(It, x, m, s, w)
      PROVE  IF run.pc <= s THEN x \notin machine' \ origin ELSE m \in machine'
  <2>1. CASE run.pc <= s
    <3>1. run.pc \in 1 .. s
      BY <1>1, <2>1
    <3>2. x \notin Touches(It, run.pc)
      BY <1>4, <3>1 DEF Brackets
    <3>3. x \notin machine \ origin
      BY <1>4, <2>1 DEF WorkOf
    <3> QED
      BY <1>2, <2>1, <3>2, <3>3
  <2>2. CASE ~(run.pc <= s)
    <3>1. m \in machine
      BY <1>4, <2>2 DEF WorkOf
    <3>2. m \notin Now.undoes \cup Now.within
      BY <1>1, <1>4 DEF Brackets, Now
    <3> QED
      BY <2>2, <3>1, <3>2
  <2> QED
    BY <2>1, <2>2
<1>5. CASE run'.phase = "ended"
  <2>1. ASSUME LeavesAlone(It, x, m) PROVE Marked(x, m, machine', origin)
    BY <1>3, <2>1 DEF Marked
  <2>2. ASSUME NEW s \in Nat \ {0}, NEW w \in Nat \ {0}, Brackets(It, x, m, s, w)
        PROVE  Marked(x, m, machine', origin)
    BY <1>4, <2>2 DEF Marked
  <2>3. Marked(x, m, machine', origin)
    BY <2>1, <2>2 DEF Guards
  <2> QED
    BY <1>5, <2>3 DEF Running
<1>6. CASE run'.phase \in {"steps", "rows"}
  <2>1. run'.found = run.found
    BY DEF StepOutcome
  <2>2. ASSUME NEW s \in Nat \ {0}, NEW w \in Nat \ {0}, Brackets(It, x, m, s, w)
        PROVE  /\ run'.phase = "steps" =>
                    IF run'.pc <= s THEN x \notin machine' \ origin ELSE m \in machine'
               /\ run'.phase = "rows" => (x \in machine' \ origin => run'.pc <= w /\ m \in machine')
    <3>1. CASE run'.phase = "steps"
      <4>1. run'.pc = run.pc + 1
        BY <3>1 DEF StepOutcome
      <4>2. CASE run.pc + 1 <= s
        BY <1>1, <1>4, <2>2, <3>1, <4>1, <4>2
      <4>3. CASE run.pc > s
        BY <1>1, <1>4, <2>2, <3>1, <4>1, <4>3
      <4>4. CASE run.pc = s
        <5>1. m \in Now.does /\ Now.within = {}
          BY <2>2, <4>4 DEF Brackets, Now
        <5>2. m \in machine'
          BY <3>1, <5>1
        <5>3. ~(run'.pc <= s)
          BY <1>1, <4>1, <4>4
        <5> QED
          BY <3>1, <5>2, <5>3
      <4> QED
        BY <1>1, <4>2, <4>3, <4>4
    <3>2. CASE run'.phase = "rows"
      <4>1. run'.pc = 1 /\ 1 <= w
        BY <3>2 DEF StepOutcome
      <4> QED
        BY <1>4, <2>2, <3>2, <4>1
    <3> QED
      BY <1>6, <3>1, <3>2
  <2>3. WorkOf(It, x, m, run', machine', origin)
    BY <1>2, <1>3, <1>6, <2>1, <2>2 DEF WorkOf
  <2> QED
    BY <1>6, <2>3 DEF Running
<1> QED
  BY <1>5, <1>6 DEF StepOutcome

\* A row keeps the mark of what is still altered.
LEMMA RowMarks ==
  ASSUME GoodTables, VmTypes, CleanOk,
         NEW x, NEW m, WorkOf(It, x, m, run, machine, origin)
  PROVE  WorkOf(It, x, m, run', machine', origin)
<1>1. run.phase = "rows"
  BY DEF CleanOk
<1>2. /\ run.pc \in DOMAIN It.rows /\ DOMAIN It.rows = 1 .. Len(It.rows)
      /\ run.pc \in Nat \ {0} /\ Len(It.rows) \in Nat
  <2>1. It \in ExerciseRecords
    BY <1>1, AtHand DEF Running
  <2>2. It.rows \in Seq(RowRecords)
    BY <2>1 DEF ExerciseRecords
  <2> QED
    BY <1>1, <2>2, LenProperties DEF VmTypes
<1>3. x \in run.found \ origin => x \notin It.saves
  BY DEF WorkOf
<1>4. /\ run'.found = run.found /\ run'.rowsOk = run.rowsOk
      /\ \/ run'.phase = "rows" /\ run'.pc = run.pc + 1
         \/ run'.phase = "report" /\ run.pc = Len(It.rows)
  BY CleanOkOutcome
<1>5. ASSUME x \notin AtRow.does
      PROVE  /\ x \in machine' => x \in machine \/ (x \in It.saves /\ x \in run.found)
             /\ Due /\ x \in AtRow.undoes /\ x \in machine' => x \in It.saves /\ x \in run.found
  <2>1. x \in PutBack(AtRow.undoes) <=>
          (x \in machine /\ x \notin AtRow.undoes)
            \/ (x \in AtRow.undoes /\ x \in It.saves /\ x \in run.found)
    BY PutsBack
  <2> QED
    BY <1>5, <2>1, CleanOkOutcome
<1>6. m \in machine /\ m \notin AtRow.undoes => m \in machine'
  <2>1. m \in PutBack(AtRow.undoes) <=>
          (m \in machine /\ m \notin AtRow.undoes)
            \/ (m \in AtRow.undoes /\ m \in It.saves /\ m \in run.found)
    BY PutsBack
  <2> QED
    BY <2>1, CleanOkOutcome
<1>7. ASSUME LeavesAlone(It, x, m)
      PROVE  IF m \in It.needs THEN x \notin machine' \ origin ELSE Marked(x, m, machine', origin)
  <2>1. x \in machine' => x \in machine
    BY <1>2, <1>5, <1>7 DEF LeavesAlone, AtRow
  <2>2. m \notin It.needs => m \notin AtRow.undoes
    BY <1>2, <1>7 DEF LeavesAlone, AtRow
  <2> QED
    BY <1>6, <1>7, <2>1, <2>2 DEF WorkOf, Marked
<1>8. ASSUME NEW s \in Nat \ {0}, NEW w \in Nat \ {0}, Brackets(It, x, m, s, w), run.rowsOk
      PROVE  /\ run'.phase = "rows" =>
                  (x \in machine' \ origin => run'.pc <= w /\ m \in machine')
             /\ run'.phase = "report" => x \notin machine' \ origin
  <2>1. x \in machine \ origin => run.pc <= w /\ m \in machine
    BY <1>1, <1>8 DEF WorkOf
  <2>2. x \notin AtRow.does /\ w \in DOMAIN It.rows /\ It.rows[w].when = "always"
        /\ x \in It.rows[w].undoes
    BY <1>2, <1>8 DEF Brackets, AtRow
  <2>3. x \in machine' \ origin => x \in machine \ origin
    BY <1>3, <1>5, <2>2
  <2>4. CASE run.pc = w
    <3>1. Due /\ x \in AtRow.undoes
      BY <2>2, <2>4 DEF Due, AtRow
    <3>2. x \notin machine' \ origin
      BY <1>3, <1>5, <2>2, <3>1
    <3> QED
      BY <3>2
  <2>5. CASE run.pc > w
    <3>1. x \notin machine \ origin
      BY <1>2, <2>1, <2>5
    <3> QED
      BY <2>3, <3>1
  <2>6. CASE run.pc < w
    <3>1. run.pc \in 1 .. w
      BY <1>2, <2>6
    <3>2. m \notin AtRow.undoes
      BY <1>8, <3>1 DEF Brackets, AtRow
    <3>3. run'.phase = "rows" /\ run'.pc <= w
      BY <1>2, <1>4, <2>2, <2>6
    <3> QED
      BY <1>6, <2>1, <2>3, <3>2, <3>3
  <2> QED
    BY <1>2, <2>4, <2>5, <2>6
<1> QED
  BY <1>3, <1>4, <1>7, <1>8 DEF WorkOf

\* What is altered and saved by some exercise is marked, as long as nobody
\* was warned.
LEMMA MarkNext ==
  ASSUME GoodTables, VmTypes, FaultInv, MarkInv, VmNext
  PROVE  MarkInv'
<1>1. family' = family /\ origin' = origin /\ (warned => warned')
  <2>1. ASSUME \E e \in family : Begin(e) PROVE UNCHANGED <<family, origin, warned>>
    BY <2>1 DEF Begin
  <2>2. StepDone \/ StepFails \/ EnterWithin => UNCHANGED <<family, origin, warned>>
    BY DEF StepDone, StepFails, EnterWithin
  <2>3. LeaveWithin \/ WithinStays \/ CleanOk \/ Reboot => UNCHANGED <<family, origin, warned>>
    BY DEF LeaveWithin, WithinStays, CleanOk, Reboot
  <2>4. CleanFails \/ Report \/ Kill => UNCHANGED <<family, origin>>
    BY DEF CleanFails, Report, Kill
  <2>5. CleanFails => (warned => warned')
    BY Zenon DEF CleanFails
  <2>6. Report \/ Kill => (warned => warned')
    BY Zenon DEF Report, Kill
  <2> QED
    BY <2>1, <2>2, <2>3, <2>4, <2>5, <2>6 DEF VmNext
<1> SUFFICES ASSUME ~warned', NEW x \in Saved(family)
             PROVE  (IF Running THEN WorkOf(It, x, Mark(family, x), run, machine, origin)
                     ELSE Marked(x, Mark(family, x), machine, origin))'
  BY <1>1 DEF MarkInv
<1> DEFINE m == Mark(family, x)
<1>2. Mark(family, x)' = m
  BY <1>1
<1> HIDE DEF m
<1>3. IF Running THEN WorkOf(It, x, m, run, machine, origin) ELSE Marked(x, m, machine, origin)
  BY <1>1 DEF MarkInv, m
<1>4. \A e \in family : /\ Guards(Exercises[e], x, m)
                        /\ x \in Exercises[e].saves => m \in Exercises[e].needs
                        /\ m \notin Volatile
  BY DEF GoodTables, VmTypes, MarksKept, m
<1>5. ASSUME Running PROVE Guards(It, x, m) /\ WorkOf(It, x, m, run, machine, origin)
  BY <1>3, <1>4, <1>5 DEF VmTypes, It
<1> SUFFICES IF Running' THEN WorkOf(It', x, m, run', machine', origin)
             ELSE Marked(x, m, machine', origin)
  BY <1>1, <1>2
<1>6. ASSUME NEW e \in family, Begin(e)
      PROVE  IF Running' THEN WorkOf(It', x, m, run', machine', origin)
             ELSE Marked(x, m, machine', origin)
  <2>1. ~Running /\ Exercises[e].needs \cap machine = {} /\ machine' = machine
    BY <1>6 DEF Begin
  <2>2. It' = Exercises[e] /\ Running'
    BY <1>6, BeginOutcome DEF It, Running
  <2>3. Marked(x, m, machine, origin)
    BY <1>3, <2>1
  <2>4. run'.found = machine /\ run'.phase = "steps" /\ run'.pc = 1
    BY <1>6, BeginOutcome
  <2>5. m \in Exercises[e].needs => x \notin machine \ origin
    BY <2>1, <2>3 DEF Marked
  <2>6. x \in run'.found \ origin => x \notin Exercises[e].saves
    BY <1>4, <2>4, <2>5
  <2>7. ASSUME NEW s \in Nat \ {0}, NEW w \in Nat \ {0}, Brackets(Exercises[e], x, m, s, w)
        PROVE  run'.pc <= s /\ x \notin machine \ origin
    <3>1. m \in Exercises[e].needs
      BY <2>7 DEF Brackets
    <3> QED
      BY <2>4, <2>5, <3>1
  <2>8. WorkOf(Exercises[e], x, m, run', machine, origin)
    BY <2>3, <2>4, <2>5, <2>6, <2>7 DEF WorkOf
  <2> QED
    BY <2>1, <2>2, <2>8
<1>7. ASSUME run.phase \in {"steps", "within"}, NEW flags, NEW why, StepOutcome(flags, why),
             x \in machine' => x \in machine \/ x \in Touches(It, run.pc)
                               \/ (x \in It.saves /\ x \in run.found),
             m \in machine /\ m \notin Now.undoes \cup Now.within => m \in machine',
             run'.phase = "steps" /\ Now.within = {} /\ m \in Now.does => m \in machine'
      PROVE  IF Running' THEN WorkOf(It', x, m, run', machine', origin)
             ELSE Marked(x, m, machine', origin)
  <2>1. It' = It
    BY <1>7 DEF It, StepOutcome
  <2>2. Guards(It, x, m) /\ WorkOf(It, x, m, run, machine, origin)
    BY <1>5, <1>7 DEF Running
  <2> QED
    BY <1>7, <2>1, <2>2, StepMarks
<1>8. \A T, y : y \in PutBack(T) <=>
        (y \in machine /\ y \notin T) \/ (y \in T /\ y \in It.saves /\ y \in run.found)
  BY PutsBack
<1>9. CASE StepDone
  <2>1. run.phase = "steps" /\ StepOutcome({Now.flag} \ {""}, {})
    BY <1>9, StepDoneOutcome DEF StepDone
  <2>2. \A y : y \in machine' <=> y \in PutBack(Now.undoes) \/ y \in Now.does
    BY <1>9, StepDoneOutcome
  <2>3. \A y : y \in Now.does => y \in Touches(It, run.pc)
    BY DEF Touches, Now
  <2> QED
    BY <1>7, <1>8, <2>1, <2>2, <2>3
<1>10. CASE StepFails
  <2>1. run.phase = "steps"
    BY <1>10 DEF StepFails
  <2>2. \A y : y \in Now.does \cup Now.mess => y \in Touches(It, run.pc)
    BY DEF Touches, Now
  <2>3. CASE machine' = machine /\ StepOutcome({}, {}) /\ run'.phase # "steps"
    BY <1>7, <2>1, <2>3
  <2>4. CASE machine' = machine \cup Now.mess /\ StepOutcome({}, Now.mess)
             /\ run'.phase # "steps"
    BY <1>7, <2>1, <2>2, <2>4
  <2> DEFINE why == IF Now.flag = "" THEN {} ELSE Now.does
  <2>5. CASE machine' = PutBack(Now.undoes) \cup Now.does /\ StepOutcome({}, why)
             /\ run'.phase # "steps"
    <3> HIDE DEF why
    <3>1. \A y : y \in machine' <=> y \in PutBack(Now.undoes) \/ y \in Now.does
      BY <2>5
    <3> QED
      BY <1>7, <1>8, <2>1, <2>2, <2>5, <3>1
  <2> QED
    BY <1>10, <2>3, <2>4, <2>5, StepFailsOutcome
<1>11. CASE EnterWithin
  <2>1. run.phase = "steps" /\ It' = It
    BY <1>11, EnterWithinOutcome DEF EnterWithin, It
  <2>2. WorkOf(It, x, m, run, machine, origin)
    BY <1>5, <2>1 DEF Running
  <2>3. /\ run.pc \in Nat \ {0} /\ run.pc \in DOMAIN It.steps
    <3>1. It \in ExerciseRecords
      BY <2>1, AtHand DEF Running
    <3>2. It.steps \in Seq(StepRecords)
      BY <3>1 DEF ExerciseRecords
    <3> QED
      BY <2>1, <3>2, LenProperties DEF VmTypes
  <2>4. \A y : y \in machine' <=> y \in machine \/ y \in Now.within \/ y \in Now.does
    BY <1>11, EnterWithinOutcome
  <2>5. \A y : y \in Now.does \cup Now.within => y \in Touches(It, run.pc)
    BY DEF Touches, Now
  <2>6. run'.found = run.found /\ run'.phase = "within" /\ run'.pc = run.pc
    BY <1>11, EnterWithinOutcome
  <2>7. ASSUME LeavesAlone(It, x, m)
        PROVE  IF m \in It.needs THEN x \notin machine' \ origin
               ELSE Marked(x, m, machine', origin)
    <3>1. x \in machine' => x \in machine
      BY <2>3, <2>4, <2>5, <2>7 DEF LeavesAlone
    <3> QED
      BY <2>2, <2>4, <2>7, <3>1 DEF WorkOf, Marked
  <2>8. ASSUME NEW s \in Nat \ {0}, NEW w \in Nat \ {0}, Brackets(It, x, m, s, w)
        PROVE  IF run.pc <= s THEN x \notin machine' \ origin ELSE m \in machine'
    <3>1. IF run.pc <= s THEN x \notin machine \ origin ELSE m \in machine
      BY <2>1, <2>2, <2>8 DEF WorkOf
    <3>2. run.pc <= s => x \notin Touches(It, run.pc)
      <4>1. run.pc <= s => run.pc \in 1 .. s
        BY <2>3
      <4> QED
        BY <2>8, <4>1 DEF Brackets
    <3> QED
      BY <2>4, <2>5, <3>1, <3>2
  <2>9. WorkOf(It, x, m, run', machine', origin)
    BY <2>2, <2>6, <2>7, <2>8 DEF WorkOf
  <2> QED
    BY <2>1, <2>6, <2>9 DEF Running
<1>12. CASE LeaveWithin
  <2>1. run.phase = "within" /\ Now.within # {}
    BY <1>12 DEF LeaveWithin, VmTypes
  <2>2. machine' = PutBack(Now.within) /\ StepOutcome({}, {})
    BY <1>12, LeaveWithinOutcome
  <2> QED
    BY <1>7, <1>8, <2>1, <2>2
<1>13. CASE WithinStays
  <2>1. run.phase = "within" /\ machine' = machine /\ StepOutcome({}, Now.within)
        /\ run'.phase # "steps"
    BY <1>13, WithinStaysOutcome DEF WithinStays
  <2> QED
    BY <1>7, <2>1
<1>14. CASE CleanOk
  <2>1. run.phase = "rows" /\ It' = It /\ Running'
    BY <1>14, CleanOkOutcome DEF It, Running, CleanOk
  <2>2. WorkOf(It, x, m, run, machine, origin)
    BY <1>5, <2>1 DEF Running
  <2> QED
    BY <1>14, <2>1, <2>2, RowMarks
<1>15. CASE CleanFails
  <2>1. run.phase = "rows" /\ It' = It /\ machine' = machine /\ run'.found = run.found
    BY <1>15, CleanFailsOutcome DEF It, CleanFails
  <2>2. Guards(It, x, m) /\ WorkOf(It, x, m, run, machine, origin)
    BY <1>5, <2>1 DEF Running
  <2>3. CASE ~run'.rowsOk /\ run'.phase \in {"rows", "report"}
    <3>1. WorkOf(It, x, m, run', machine', origin)
      BY <2>1, <2>2, <2>3 DEF WorkOf
    <3> QED
      BY <2>1, <2>3, <3>1 DEF Running
  <2>4. CASE run'.phase = "ended" /\ warned' = (warned \/ run.faults > 0)
    <3>1. run.rowsOk
      BY <2>1, <2>4 DEF FaultInv, Running
    <3>2. Marked(x, m, machine, origin)
      BY <2>1, <2>2, <3>1, WorkIsMarked
    <3> QED
      BY <2>1, <2>4, <3>2 DEF Running
  <2> QED
    BY <1>15, <2>3, <2>4, CleanFailsOutcome
<1>16. CASE Report
  <2>1. run.phase = "report" /\ machine' = machine /\ LooksClean
    BY <1>16 DEF Report
  <2>2. ~Running'
    <3> DEFINE p == IF ~LooksClean THEN "dirty" ELSE IF run.ok THEN "passed" ELSE "clean"
    <3>1. p \in Phases /\ p \notin {"steps", "within", "rows", "report"}
      BY DEF Phases
    <3>2. run' = [run EXCEPT !.phase = p]
      BY <1>16 DEF Report
    <3> HIDE DEF p
    <3> QED
      BY <3>1, <3>2, EndOutcome DEF Running
  <2>3. Marked(x, m, machine, origin)
    BY <1>5, <2>1, WorkIsMarked DEF LooksClean, Running
  <2> QED
    BY <2>1, <2>2, <2>3
<1>17. CASE Kill
  <2>1. Running /\ machine' = machine /\ ~(run.faults > 0)
    BY <1>17 DEF Kill
  <2>2. ~Running'
    BY <1>17, EndOutcome DEF Kill, Phases, Running
  <2>3. run.rowsOk
    BY <2>1 DEF FaultInv
  <2>4. Marked(x, m, machine, origin)
    BY <1>5, <2>1, <2>3, WorkIsMarked DEF Running
  <2> QED
    BY <2>1, <2>2, <2>4
<1>18. CASE Reboot
  <2>1. ~Running /\ machine' = (machine \ Volatile) \cup (origin \cap Volatile)
    BY <1>18 DEF Reboot
  <2>2. ~Running'
    BY <1>18, EndOutcome DEF Reboot, Phases, Running
  <2>3. Marked(x, m, machine, origin)
    BY <1>3, <2>1
  <2>4. m \notin Volatile
    <3>1. \E e : e \in family
      BY DEF Saved
    <3> QED
      BY <1>4, <3>1
  <2> QED
    BY <2>1, <2>2, <2>3, <2>4 DEF Marked
<1> QED
  BY <1>6, <1>9, <1>10, <1>11, <1>12, <1>13, <1>14, <1>15, <1>16, <1>17, <1>18 DEF VmNext

----------------------------------------------------------------------------
(* The tables.                                                             *)

\* Words that are no things.
LEMMA Words ==
  /\ {"", "always", "recorded", "raises"} \subseteq Names
  /\ {""} \ {""} = {} /\ {} \in SUBSET Names
  /\ {"recorded"} \in SUBSET Names /\ {"raises"} \in SUBSET Names
  /\ {"recorded", "raises"} \in SUBSET Names
  /\ \A f : f # "" => {f} \ {""} = {f}
<1>1. {"", "always", "recorded", "raises"} \subseteq Names
  BY DEF Names
<1> QED
  BY <1>1

\* The parts of a step.
StepWith(t, does, flag, within, undoes) ==
  /\ t \in StepRecords /\ t.does = does /\ t.mess = {} /\ t.flag = flag
  /\ t.within = within /\ t.undoes = undoes

\* The parts of a row.
RowWith(w, undoes, when, does) ==
  w \in RowRecords /\ w.undoes = undoes /\ w.when = when /\ w.does = does

\* Another kind of failure is all that sets these rows apart.
LEMMA OtherRows ==
  ASSUME NEW T, NEW w, NEW when, RowWith(w, T, when, {})
  PROVE  RowWith(RaisesAlone(w), T, when, {}) /\ RowWith(Either(w), T, when, {})
<1>1. RowWith(RaisesAlone(w), T, when, {})
  BY Words DEF RaisesAlone, RowRecords, RowWith
<1>2. RowWith(Either(w), T, when, {})
  BY Words DEF Either, RowRecords, RowWith
<1> QED
  BY <1>1, <1>2

\* The parts of a row that is always done, by the way it is written.
LEMMA RowForms ==
  ASSUME NEW T \in SUBSET Names
  PROVE  /\ RowWith(Restores(T), T, "always", {})
         /\ RowWith(Disturbs(T), {}, "always", T)
         /\ RowWith(RestoresBare(T), T, "always", {})
         /\ RowWith(Either(Restores(T)), T, "always", {})
<1>1. RowWith(Restores(T), T, "always", {})
  BY Words DEF Restores, Row, RowRecords, RowWith
<1>2. RowWith(Disturbs(T), {}, "always", T)
  BY Words DEF Disturbs, Row, RowRecords, RowWith
<1> QED
  BY <1>1, <1>2, OtherRows DEF RestoresBare

\* The parts of a row with a condition.
LEMMA FlagRowForms ==
  ASSUME NEW T \in SUBSET Names, NEW f \in Names
  PROVE  /\ RowWith(RestoresIf(T, f), T, f, {})
         /\ RowWith(RaisesAlone(RestoresIf(T, f)), T, f, {})
         /\ RowWith(Either(RestoresIf(T, f)), T, f, {})
<1>1. RowWith(RestoresIf(T, f), T, f, {})
  BY Words DEF RestoresIf, Row, RowRecords, RowWith
<1> QED
  BY <1>1, OtherRows

\* Rows that are always done are rows.
LEMMA RowsAreRows ==
  ASSUME NEW T \in SUBSET Names
  PROVE  /\ Restores(T) \in RowRecords /\ Disturbs(T) \in RowRecords
         /\ RestoresBare(T) \in RowRecords /\ Either(Restores(T)) \in RowRecords
BY RowForms DEF RowWith

\* Rows with a condition are rows.
LEMMA FlagRowsAreRows ==
  ASSUME NEW T \in SUBSET Names, NEW f \in Names
  PROVE  /\ RestoresIf(T, f) \in RowRecords /\ RaisesAlone(RestoresIf(T, f)) \in RowRecords
         /\ Either(RestoresIf(T, f)) \in RowRecords
BY FlagRowForms DEF RowWith

\* Steps of E that are accounted for, never take away one of safe and never
\* change one of quiet.
GoodSteps(E, safe, quiet) ==
  {t \in StepRecords :
     /\ t.does \subseteq Accounted(E, {t.flag} \ {""}, 1)
     /\ t.within # {} => t.flag = ""
     /\ (t.undoes \cup t.within) \cap safe = {}
     /\ (t.does \cup t.mess \cup t.within) \cap quiet = {}}

\* Which steps are good.
LEMMA IsGood ==
  ASSUME NEW E, NEW safe, NEW quiet,
         NEW t, NEW does, NEW flag, NEW within, NEW undoes,
         StepWith(t, does, flag, within, undoes),
         does \subseteq Accounted(E, {flag} \ {""}, 1),
         within = {} \/ flag = "",
         undoes \cap safe = {}, within \cap safe = {}, does \cap quiet = {},
         within \cap quiet = {}
  PROVE  t \in GoodSteps(E, safe, quiet)
BY DEF GoodSteps, StepWith

\* The things that are accounted for when flags are set, and none of quiet;
\* the things that are none of safe.
Paid(E, flags, quiet) ==
  {T \in SUBSET Names : T \subseteq Accounted(E, flags, 1) /\ T \cap quiet = {}}
Free(safe) == {T \in SUBSET Names : T \cap safe = {}}

\* A change of what is accounted for.
LEMMA DoesGood ==
  ASSUME NEW E, NEW safe, NEW quiet, NEW T \in Paid(E, {}, quiet)
  PROVE  Does(T) \in GoodSteps(E, safe, quiet)
<1>1. StepWith(Does(T), T, "", {}, {})
  BY Words DEF Does, Step, StepRecords, StepWith, Paid
<1>2. T \subseteq Accounted(E, {""} \ {""}, 1) /\ T \cap quiet = {}
  BY Words DEF Paid
<1> QED
  BY <1>1, <1>2, IsGood

\* A change with a flag.
LEMMA FlaggedGood ==
  ASSUME NEW E, NEW safe, NEW quiet, NEW f \in Names, f # "", NEW T \in Paid(E, {f}, quiet)
  PROVE  Flagged(T, f) \in GoodSteps(E, safe, quiet)
<1>1. StepWith(Flagged(T, f), T, f, {}, {})
  BY Words DEF Flagged, Step, StepRecords, StepWith, Paid
<1>2. T \subseteq Accounted(E, {f} \ {""}, 1) /\ T \cap quiet = {}
  BY Words DEF Paid
<1> QED
  BY <1>1, <1>2, IsGood

\* A restoration of what is not a mark.
LEMMA UndoesGood ==
  ASSUME NEW E, NEW safe, NEW quiet, NEW T \in Free(safe)
  PROVE  Undoes(T) \in GoodSteps(E, safe, quiet)
<1>1. StepWith(Undoes(T), {}, "", {}, T)
  BY Words DEF Undoes, Step, StepRecords, StepWith, Free
<1>2. {} \subseteq Accounted(E, {""} \ {""}, 1) /\ T \cap safe = {}
  BY DEF Free
<1> QED
  BY <1>1, <1>2, IsGood

\* A test inside a step.
LEMMA WithinGood ==
  ASSUME NEW E, NEW safe, NEW quiet, NEW T \in Free(safe), T \in Free(quiet),
         NEW B \in Paid(E, {}, quiet)
  PROVE  Within(T, B) \in GoodSteps(E, safe, quiet)
<1>1. StepWith(Within(T, B), B, "", T, {})
  BY Words DEF Within, Step, StepRecords, StepWith, Paid, Free
<1>2. /\ B \subseteq Accounted(E, {""} \ {""}, 1) /\ B \cap quiet = {}
      /\ T \cap safe = {} /\ T \cap quiet = {}
  BY Words DEF Paid, Free
<1> QED
  BY <1>1, <1>2, IsGood

\* A test.
LEMMA TestsGood ==
  ASSUME NEW E, NEW safe, NEW quiet
  PROVE  Tests \in GoodSteps(E, safe, quiet)
<1>1. StepWith(Tests, {}, "", {}, {})
  BY Words DEF Tests, Step, StepRecords, StepWith
<1>2. {} \subseteq Accounted(E, {""} \ {""}, 1) /\ {} \cap safe = {} /\ {} \cap quiet = {}
  OBVIOUS
<1> QED
  BY <1>1, <1>2, IsGood, Zenon

\* A file that is written beside the old one.
LEMMA InstallGood ==
  ASSUME NEW E, NEW safe, NEW T \in Paid(E, {}, {}), NEW M \in Free(safe)
  PROVE  [Does(T) EXCEPT !.mess = M, !.undoes = M] \in GoodSteps(E, safe, {})
<1> DEFINE t == [Does(T) EXCEPT !.mess = M, !.undoes = M]
<1>1. /\ t \in StepRecords /\ t.does = T /\ t.mess = M /\ t.flag = ""
      /\ t.within = {} /\ t.undoes = M
  BY Words DEF Does, Step, StepRecords, Paid, Free
<1>2. T \subseteq Accounted(E, {""} \ {""}, 1) /\ M \cap safe = {}
  BY Words DEF Paid, Free
<1> HIDE DEF t
<1> QED
  BY <1>1, <1>2 DEF GoodSteps, t

\* A row that is always done pays what it undoes, and one with a flag does
\* when its flag is set.
LEMMA RowPaysAlways ==
  ASSUME NEW E, NEW j \in DOMAIN E.rows, NEW T, NEW does, j >= 1,
         RowWith(E.rows[j], T, "always", does)
  PROVE  T \subseteq Accounted(E, {}, 1)
BY DEF Accounted, Owed, Certain, RowWith

\* A row with a flag pays what it undoes when its flag is set.
LEMMA RowPaysFlag ==
  ASSUME NEW E, NEW j \in DOMAIN E.rows, NEW T, NEW does, NEW f, j >= 1,
         RowWith(E.rows[j], T, f, does)
  PROVE  T \subseteq Accounted(E, {f}, 1)
BY DEF Accounted, Owed, Certain, RowWith

\* The parts of a step, by the way it is written.
LEMMA StepForms ==
  ASSUME NEW T, NEW f
  PROVE  /\ Does(T).does = T /\ Does(T).mess = {} /\ Does(T).within = {}
         /\ Flagged(T, f).does = T /\ Flagged(T, f).mess = {} /\ Flagged(T, f).within = {}
BY DEF Does, Flagged, Step

\* What a change changes.
LEMMA DoesTouches ==
  ASSUME NEW E, NEW i, NEW T, E.steps[i] = Does(T)
  PROVE  Touches(E, i) = T /\ E.steps[i].does = T /\ E.steps[i].within = {}
BY StepForms DEF Touches

\* What a change with a flag changes.
LEMMA FlaggedTouches ==
  ASSUME NEW E, NEW i, NEW T, NEW f, E.steps[i] = Flagged(T, f)
  PROVE  Touches(E, i) = T
BY StepForms DEF Touches

\* Setup and tests, one after the other.
LEMMA InOrder ==
  ASSUME NEW S, NEW first \in Seq(S), NEW second \in Seq(S)
  PROVE  /\ first \o second \in Seq(S)
         /\ \A i \in DOMAIN first : i \in DOMAIN (first \o second) /\ (first \o second)[i] = first[i]
<1>1. /\ DOMAIN first = 1 .. Len(first) /\ DOMAIN (first \o second) = 1 .. Len(first \o second)
      /\ Len(first \o second) = Len(first) + Len(second)
      /\ Len(first) \in Nat /\ Len(second) \in Nat
  BY ConcatProperties, LenProperties
<1> QED
  BY <1>1, ConcatProperties

\* Good steps are steps.
LEMMA StepsAreSteps ==
  ASSUME NEW E, NEW safe, NEW quiet, NEW s \in Seq(GoodSteps(E, safe, quiet))
  PROVE  s \in Seq(StepRecords) /\ \A i \in DOMAIN s : s[i] \in GoodSteps(E, safe, quiet)
<1>1. DOMAIN s = 1 .. Len(s) /\ Len(s) \in Nat
      /\ \A i \in DOMAIN s : s[i] \in GoodSteps(E, safe, quiet)
  BY LenProperties, ElementOfSeq
<1>2. \A i \in DOMAIN s : s[i] \in StepRecords
  BY <1>1 DEF GoodSteps
<1>3. s = [i \in 1 .. Len(s) |-> s[i]]
  BY <1>1, LenProperties
<1> QED
  BY <1>1, <1>2, <1>3

\* Good steps and rows that are paid for account for everything.
LEMMA Sound ==
  ASSUME NEW E, NEW safe, NEW quiet,
         \A i \in DOMAIN E.steps : E.steps[i] \in GoodSteps(E, safe, quiet),
         \A j \in DOMAIN E.rows : E.rows[j].does \subseteq Accounted(E, {}, j + 1),
         "mode" \in E.needs \cup E.forgets \cup E.checks
  PROVE  AccountsFor(E)
BY DEF AccountsFor, GoodSteps

\* An exercise that never touches x.
LEMMA QuietGuards ==
  ASSUME NEW E, NEW safe, NEW quiet,
         \A i \in DOMAIN E.steps : E.steps[i] \in GoodSteps(E, safe, quiet),
         NEW x \in quiet, x \notin E.saves, \A j \in DOMAIN E.rows : x \notin E.rows[j].does,
         NEW m, m \in E.needs \/ (m \in safe /\ \A j \in DOMAIN E.rows : m \notin E.rows[j].undoes)
  PROVE  Guards(E, x, m)
<1>1. \A i \in DOMAIN E.steps : x \notin Touches(E, i)
  BY DEF GoodSteps, Touches
<1>2. m \in safe => \A i \in DOMAIN E.steps : m \notin E.steps[i].undoes \cup E.steps[i].within
  BY DEF GoodSteps
<1> QED
  BY <1>1, <1>2 DEF Guards, LeavesAlone

\* An exercise that makes the mark first and removes it last.
LEMMA BracketGuards ==
  ASSUME NEW E, NEW safe, NEW quiet,
         \A i \in DOMAIN E.steps : E.steps[i] \in GoodSteps(E, safe, quiet),
         NEW x, NEW m \in safe, m \in E.needs,
         NEW s \in (Nat \ {0}) \cap DOMAIN E.steps, NEW r \in (Nat \ {0}) \cap DOMAIN E.rows,
         m \in E.steps[s].does, E.steps[s].within = {},
         \A i \in 1 .. s : x \notin Touches(E, i),
         E.rows[r].when = "always", x \in E.rows[r].undoes,
         \A j \in DOMAIN E.rows : x \notin E.rows[j].does,
         \A j \in 1 .. r : m \notin E.rows[j].undoes
  PROVE  Guards(E, x, m)
<1>1. \A i \in DOMAIN E.steps : m \notin E.steps[i].undoes \cup E.steps[i].within
  BY DEF GoodSteps
<1>2. Brackets(E, x, m, s, r)
  BY <1>1 DEF Brackets
<1> QED
  BY <1>2 DEF Guards

\* The rows of TransitionsRows, one by one.
LEMMA TransitionsRowList ==
  /\ DOMAIN TransitionsRows = 1 .. 9 /\ TransitionsRows \in Seq(RowRecords)
  /\ RowWith(TransitionsRows[1], {"helper-process"}, "always", {})
  /\ RowWith(TransitionsRows[2], {"unit"}, "always", {})
  /\ RowWith(TransitionsRows[3], {"mode"}, "always", {})
  /\ RowWith(TransitionsRows[4], {"mapping"}, "mapping", {})
  /\ RowWith(TransitionsRows[5], {"user", "primary-group"}, "user", {})
  /\ RowWith(TransitionsRows[6], {"group"}, "group", {})
  /\ RowWith(TransitionsRows[7], {"pam"}, "always", {})
  /\ RowWith(TransitionsRows[8], {"module"}, "always", {})
  /\ RowWith(TransitionsRows[9], {"gate"}, "always", {})
<1>1. /\ {"gate"} \in SUBSET Names /\ {"group"} \in SUBSET Names
      /\ {"helper-process"} \in SUBSET Names /\ {"mapping"} \in SUBSET Names
      /\ {"mode"} \in SUBSET Names /\ {"module"} \in SUBSET Names
      /\ {"pam"} \in SUBSET Names /\ {"unit"} \in SUBSET Names
      /\ {"user", "primary-group"} \in SUBSET Names /\ "always" \in Names
      /\ "group" \in Names /\ "mapping" \in Names /\ "user" \in Names
  BY DEF Names
<1>2. {} \in SUBSET Names
  BY Words
<1>3. TransitionsRows \in Seq(RowRecords)
  BY <1>1, <1>2, RowsAreRows, FlagRowsAreRows DEF TransitionsRows
<1> QED
  BY <1>1, <1>2, <1>3, RowForms, FlagRowForms DEF TransitionsRows

\* The rows of PasswordRows, one by one.
LEMMA PasswordRowList ==
  /\ DOMAIN PasswordRows = 1 .. 14 /\ PasswordRows \in Seq(RowRecords)
  /\ RowWith(PasswordRows[1], {"client"}, "always", {})
  /\ RowWith(PasswordRows[2], {"gdm", "managers"}, "always", {})
  /\ RowWith(PasswordRows[3], {"shadow"}, "always", {})
  /\ RowWith(PasswordRows[4], {"mode"}, "always", {})
  /\ RowWith(PasswordRows[5], {}, "always", {"accounts"})
  /\ RowWith(PasswordRows[6], {"worker"}, "always", {})
  /\ RowWith(PasswordRows[7], {"label"}, "always", {})
  /\ RowWith(PasswordRows[8], {"files"}, "always", {})
  /\ RowWith(PasswordRows[9], {"accounts"}, "always", {})
  /\ RowWith(PasswordRows[10], {"backup"}, "worker-intact", {})
  /\ RowWith(PasswordRows[11], {"module"}, "always", {})
  /\ RowWith(PasswordRows[12], {"session-program"}, "always", {})
  /\ RowWith(PasswordRows[13], {"gate"}, "always", {})
  /\ RowWith(PasswordRows[14], {"policy"}, "policy", {})
<1>1. /\ {"accounts"} \in SUBSET Names /\ {"backup"} \in SUBSET Names
      /\ {"client"} \in SUBSET Names /\ {"files"} \in SUBSET Names
      /\ {"gate"} \in SUBSET Names /\ {"gdm", "managers"} \in SUBSET Names
      /\ {"label"} \in SUBSET Names /\ {"mode"} \in SUBSET Names
      /\ {"module"} \in SUBSET Names /\ {"policy"} \in SUBSET Names
      /\ {"session-program"} \in SUBSET Names /\ {"shadow"} \in SUBSET Names
      /\ {"worker"} \in SUBSET Names /\ "always" \in Names /\ "policy" \in Names
      /\ "worker-intact" \in Names
  BY DEF Names
<1>2. {} \in SUBSET Names
  BY Words
<1>3. PasswordRows \in Seq(RowRecords)
  BY <1>1, <1>2, RowsAreRows, FlagRowsAreRows DEF PasswordRows
<1> QED
  BY <1>1, <1>2, <1>3, RowForms, FlagRowForms DEF PasswordRows

\* The rows of GdmRows, one by one.
LEMMA GdmRowList ==
  /\ DOMAIN GdmRows = 1 .. 12 /\ GdmRows \in Seq(RowRecords)
  /\ RowWith(GdmRows[1], {"gdm", "managers"}, "always", {})
  /\ RowWith(GdmRows[2], {"mode"}, "always", {})
  /\ RowWith(GdmRows[3], {}, "always", {"accounts"})
  /\ RowWith(GdmRows[4], {"worker"}, "always", {})
  /\ RowWith(GdmRows[5], {"label"}, "always", {})
  /\ RowWith(GdmRows[6], {"files"}, "always", {})
  /\ RowWith(GdmRows[7], {"accounts"}, "always", {})
  /\ RowWith(GdmRows[8], {"backup"}, "worker-intact", {})
  /\ RowWith(GdmRows[9], {"module"}, "always", {})
  /\ RowWith(GdmRows[10], {"session-program"}, "always", {})
  /\ RowWith(GdmRows[11], {"gate"}, "always", {})
  /\ RowWith(GdmRows[12], {"policy"}, "policy", {})
<1>1. /\ {"accounts"} \in SUBSET Names /\ {"backup"} \in SUBSET Names
      /\ {"files"} \in SUBSET Names /\ {"gate"} \in SUBSET Names
      /\ {"gdm", "managers"} \in SUBSET Names /\ {"label"} \in SUBSET Names
      /\ {"mode"} \in SUBSET Names /\ {"module"} \in SUBSET Names
      /\ {"policy"} \in SUBSET Names /\ {"session-program"} \in SUBSET Names
      /\ {"worker"} \in SUBSET Names /\ "always" \in Names /\ "policy" \in Names
      /\ "worker-intact" \in Names
  BY DEF Names
<1>2. {} \in SUBSET Names
  BY Words
<1>3. GdmRows \in Seq(RowRecords)
  BY <1>1, <1>2, RowsAreRows, FlagRowsAreRows DEF GdmRows
<1> QED
  BY <1>1, <1>2, <1>3, RowForms, FlagRowForms DEF GdmRows

\* The rows of SystemdRows, one by one.
LEMMA SystemdRowList ==
  /\ DOMAIN SystemdRows = 1 .. 5 /\ SystemdRows \in Seq(RowRecords)
  /\ RowWith(SystemdRows[1], {"managers"}, "always", {})
  /\ RowWith(SystemdRows[2], {"mode"}, "always", {})
  /\ RowWith(SystemdRows[3], {"files"}, "always", {})
  /\ RowWith(SystemdRows[4], {"module"}, "always", {})
  /\ RowWith(SystemdRows[5], {"gate"}, "always", {})
<1>1. /\ {"files"} \in SUBSET Names /\ {"gate"} \in SUBSET Names
      /\ {"managers"} \in SUBSET Names /\ {"mode"} \in SUBSET Names
      /\ {"module"} \in SUBSET Names /\ "always" \in Names
  BY DEF Names
<1>2. {} \in SUBSET Names
  BY Words
<1>3. SystemdRows \in Seq(RowRecords)
  BY <1>1, <1>2, RowsAreRows, FlagRowsAreRows DEF SystemdRows
<1> QED
  BY <1>1, <1>2, <1>3, RowForms, FlagRowForms DEF SystemdRows

\* The rows of IdentityRows, one by one.
LEMMA IdentityRowList ==
  /\ DOMAIN IdentityRows = 1 .. 6 /\ IdentityRows \in Seq(RowRecords)
  /\ RowWith(IdentityRows[1], {"mode"}, "always", {})
  /\ RowWith(IdentityRows[2], {"mapping"}, "mapping", {})
  /\ RowWith(IdentityRows[3], {"user", "primary-group"}, "user", {})
  /\ RowWith(IdentityRows[4], {"group"}, "group", {})
  /\ RowWith(IdentityRows[5], {"pam"}, "always", {})
  /\ RowWith(IdentityRows[6], {"module"}, "always", {})
<1>1. /\ {"group"} \in SUBSET Names /\ {"mapping"} \in SUBSET Names
      /\ {"mode"} \in SUBSET Names /\ {"module"} \in SUBSET Names
      /\ {"pam"} \in SUBSET Names /\ {"user", "primary-group"} \in SUBSET Names
      /\ "always" \in Names /\ "group" \in Names /\ "mapping" \in Names
      /\ "user" \in Names
  BY DEF Names
<1>2. {} \in SUBSET Names
  BY Words
<1>3. IdentityRows \in Seq(RowRecords)
  BY <1>1, <1>2, RowsAreRows, FlagRowsAreRows DEF IdentityRows
<1> QED
  BY <1>1, <1>2, <1>3, RowForms, FlagRowForms DEF IdentityRows

\* The rows of EntriesRows, one by one.
LEMMA EntriesRowList ==
  /\ DOMAIN EntriesRows = 1 .. 9 /\ EntriesRows \in Seq(RowRecords)
  /\ RowWith(EntriesRows[1], {"client", "tunnel"}, "always", {})
  /\ RowWith(EntriesRows[2], {}, "always", {})
  /\ RowWith(EntriesRows[3], {"server"}, "server", {})
  /\ RowWith(EntriesRows[4], {"mode"}, "always", {})
  /\ RowWith(EntriesRows[5], {"files"}, "always", {})
  /\ RowWith(EntriesRows[6], {"user", "primary-group"}, "user", {})
  /\ RowWith(EntriesRows[7], {"group"}, "group", {})
  /\ RowWith(EntriesRows[8], {"sshd.conf", "hostkey"}, "always", {})
  /\ RowWith(EntriesRows[9], {"private", "keys"}, "always", {})
<1>1. /\ {"client", "tunnel"} \in SUBSET Names /\ {"files"} \in SUBSET Names
      /\ {"group"} \in SUBSET Names /\ {"mode"} \in SUBSET Names
      /\ {"private", "keys"} \in SUBSET Names /\ {"server"} \in SUBSET Names
      /\ {"sshd.conf", "hostkey"} \in SUBSET Names
      /\ {"user", "primary-group"} \in SUBSET Names /\ "always" \in Names
      /\ "group" \in Names /\ "server" \in Names /\ "user" \in Names
  BY DEF Names
<1>2. {} \in SUBSET Names
  BY Words
<1>3. EntriesRows \in Seq(RowRecords)
  BY <1>1, <1>2, RowsAreRows, FlagRowsAreRows DEF EntriesRows
<1> QED
  BY <1>1, <1>2, <1>3, RowForms, FlagRowForms DEF EntriesRows

\* The rows of CallbacksRows, one by one.
LEMMA CallbacksRowList ==
  /\ DOMAIN CallbacksRows = 1 .. 8 /\ CallbacksRows \in Seq(RowRecords)
  /\ RowWith(CallbacksRows[1], {"auditd"}, "always", {})
  /\ RowWith(CallbacksRows[2], {}, "always", {})
  /\ RowWith(CallbacksRows[3], {"managers"}, "always", {})
  /\ RowWith(CallbacksRows[4], {"mode"}, "always", {})
  /\ RowWith(CallbacksRows[5], {"files"}, "always", {})
  /\ RowWith(CallbacksRows[6], {"generated"}, "always", {})
  /\ RowWith(CallbacksRows[7], {"directories"}, "always", {})
  /\ RowWith(CallbacksRows[8], {"policy"}, "policy", {})
<1>1. /\ {"auditd"} \in SUBSET Names /\ {"directories"} \in SUBSET Names
      /\ {"files"} \in SUBSET Names /\ {"generated"} \in SUBSET Names
      /\ {"managers"} \in SUBSET Names /\ {"mode"} \in SUBSET Names
      /\ {"policy"} \in SUBSET Names /\ "always" \in Names /\ "policy" \in Names
  BY DEF Names
<1>2. {} \in SUBSET Names
  BY Words
<1>3. CallbacksRows \in Seq(RowRecords)
  BY <1>1, <1>2, RowsAreRows, FlagRowsAreRows DEF CallbacksRows
<1> QED
  BY <1>1, <1>2, <1>3, RowForms, FlagRowForms DEF CallbacksRows

\* The rows of SessionRows, one by one.
LEMMA SessionRowList ==
  /\ DOMAIN SessionRows = 1 .. 8 /\ SessionRows \in Seq(RowRecords)
  /\ RowWith(SessionRows[1], {}, "always", {})
  /\ RowWith(SessionRows[2], {"managers"}, "always", {})
  /\ RowWith(SessionRows[3], {"mode"}, "always", {})
  /\ RowWith(SessionRows[4], {"auditd"}, "always", {})
  /\ RowWith(SessionRows[5], {"files"}, "always", {})
  /\ RowWith(SessionRows[6], {"generated"}, "always", {})
  /\ RowWith(SessionRows[7], {"directories"}, "always", {})
  /\ RowWith(SessionRows[8], {"policy"}, "policy", {})
<1>1. /\ {"auditd"} \in SUBSET Names /\ {"directories"} \in SUBSET Names
      /\ {"files"} \in SUBSET Names /\ {"generated"} \in SUBSET Names
      /\ {"managers"} \in SUBSET Names /\ {"mode"} \in SUBSET Names
      /\ {"policy"} \in SUBSET Names /\ "always" \in Names /\ "policy" \in Names
  BY DEF Names
<1>2. {} \in SUBSET Names
  BY Words
<1>3. SessionRows \in Seq(RowRecords)
  BY <1>1, <1>2, RowsAreRows, FlagRowsAreRows DEF SessionRows
<1> QED
  BY <1>1, <1>2, <1>3, RowForms, FlagRowForms DEF SessionRows

\* The transitions exercise is sound.
LEMMA TransitionsTable ==
  ASSUME NEW E, E = Exercises.transitions
  PROVE  /\ E \in ExerciseRecords /\ AccountsFor(E)
         /\ 1 \in DOMAIN E.steps /\ 1 \in DOMAIN E.rows
         /\ Guards(E, "files", "module")
         /\ Guards(E, "label", "module")
         /\ Guards(E, "shadow", "backup")
         /\ E.saves = {} /\ E.needs = TransitionsNeeds
<1> DEFINE G == GoodSteps(E, {"backup"}, {"files", "label", "shadow"})
<1>1. /\ E = [needs |-> E.needs, saves |-> E.saves, steps |-> E.steps, before |-> E.before,
              rows |-> E.rows, checks |-> E.checks, forgets |-> E.forgets]
      /\ E.needs = TransitionsNeeds /\ E.saves = {} /\ E.before = 0 /\ E.rows = TransitionsRows
      /\ E.checks = TransitionsChecks /\ E.forgets = {}
      /\ E.steps = TransitionsSetup \o TransitionsTests
  BY DEF Exercises, Exercise
<1>2. /\ DOMAIN E.rows = 1 .. 9
      /\ RowWith(E.rows[1], {"helper-process"}, "always", {})
      /\ RowWith(E.rows[2], {"unit"}, "always", {})
      /\ RowWith(E.rows[3], {"mode"}, "always", {})
      /\ RowWith(E.rows[4], {"mapping"}, "mapping", {})
      /\ RowWith(E.rows[5], {"user", "primary-group"}, "user", {})
      /\ RowWith(E.rows[6], {"group"}, "group", {})
      /\ RowWith(E.rows[7], {"pam"}, "always", {})
      /\ RowWith(E.rows[8], {"module"}, "always", {})
      /\ RowWith(E.rows[9], {"gate"}, "always", {})
  BY <1>1, TransitionsRowList
<1>3. /\ E.checks \cup E.forgets \subseteq Accounted(E, {}, 1)
      /\ {"helper-process"} \subseteq Accounted(E, {}, 1)
      /\ {"unit"} \subseteq Accounted(E, {}, 1)
      /\ {"mode"} \subseteq Accounted(E, {}, 1)
      /\ {"pam"} \subseteq Accounted(E, {}, 1)
      /\ {"module"} \subseteq Accounted(E, {}, 1)
      /\ {"gate"} \subseteq Accounted(E, {}, 1)
      /\ {"mapping"} \subseteq Accounted(E, {"mapping"}, 1)
      /\ {"user", "primary-group"} \subseteq Accounted(E, {"user"}, 1)
      /\ {"group"} \subseteq Accounted(E, {"group"}, 1)
  BY <1>2, RowPaysAlways, RowPaysFlag DEF RowWith, Accounted
<1>4. TransitionsSetup \in Seq(G) /\ TransitionsTests \in Seq(G)
  <2> DEFINE A == {"module", "gate", "pam", "mode", "helper-process", "unit"}
             U == {"helper-process", "unit", "primary-group"}
             W == {"primary-group"}
  <2>1. A \subseteq Names /\ U \subseteq Names
    BY DEF Names
  <2>2. A \subseteq Accounted(E, {}, 1)
    BY <1>1, <1>3
  <2>3. A \cap {"files", "label", "shadow"} = {} /\ U \cap {"backup"} = {} /\ W \cap {"files", "label", "shadow"} = {} /\ W \subseteq U
    OBVIOUS
  <2>4. /\ {"module"} \in SUBSET A /\ {"gate"} \in SUBSET A /\ {"pam"} \in SUBSET A
        /\ {"mode"} \in SUBSET A /\ {"helper-process"} \in SUBSET A
        /\ {"unit"} \in SUBSET A /\ {} \in SUBSET A
        /\ {"helper-process"} \in SUBSET U /\ {"unit"} \in SUBSET U
        /\ {"primary-group"} \in SUBSET U
        /\ {"primary-group"} \in SUBSET W
    OBVIOUS
  <2>5. {"group"} \in Paid(E, {"group"}, {"files", "label", "shadow"}) /\ "group" \in Names
    <3>1. {"group"} \subseteq Accounted(E, {"group"}, 1)
      BY <1>3
    <3> QED
      BY <3>1 DEF Paid, Names
  <2>6. {"user"} \in Paid(E, {"user"}, {"files", "label", "shadow"}) /\ "user" \in Names
    <3>1. {"user"} \subseteq Accounted(E, {"user"}, 1)
      BY <1>3
    <3> QED
      BY <3>1 DEF Paid, Names
  <2>7. {"mapping"} \in Paid(E, {"mapping"}, {"files", "label", "shadow"}) /\ "mapping" \in Names
    <3>1. {"mapping"} \subseteq Accounted(E, {"mapping"}, 1)
      BY <1>3
    <3> QED
      BY <3>1 DEF Paid, Names
  <2> HIDE DEF A, U, G, W
  <2>8. SUBSET A \subseteq Paid(E, {}, {"files", "label", "shadow"}) /\ SUBSET U \subseteq Free({"backup"})
        /\ SUBSET W \subseteq Free({"files", "label", "shadow"})
    BY <2>1, <2>2, <2>3 DEF Paid, Free
  <2>9. /\ Does({"module"}) \in G /\ Does({"gate"}) \in G /\ Does({"pam"}) \in G
        /\ Does({"mode"}) \in G /\ Does({"helper-process"}) \in G
        /\ Does({"unit"}) \in G
    BY <2>4, <2>8, DoesGood DEF G
  <2>10. /\ Flagged({"group"}, "group") \in G /\ Flagged({"user"}, "user") \in G
        /\ Flagged({"mapping"}, "mapping") \in G
    BY <2>5, <2>6, <2>7, FlaggedGood DEF G
  <2>11. /\ Tests \in G
    BY TestsGood DEF G
  <2>12. /\ Undoes({"helper-process"}) \in G /\ Undoes({"unit"}) \in G
    BY <2>4, <2>8, UndoesGood DEF G
  <2>13. /\ Within({"primary-group"}, {}) \in G
    BY <2>4, <2>8, WithinGood DEF G
  <2> QED
    BY <2>9, <2>10, <2>11, <2>12, <2>13
       DEF TransitionsSetup, TransitionsTests
<1>5. /\ E.steps \in Seq(G)
      /\ \A i \in DOMAIN TransitionsSetup : i \in DOMAIN E.steps /\ E.steps[i] = TransitionsSetup[i]
  <2> HIDE DEF G
  <2> QED
    BY <1>1, <1>4, InOrder
<1>s. /\ 1 .. 1 \subseteq DOMAIN E.steps
      /\ E.steps[1] = Does({"module"})
  <2>1. /\ 1 .. 1 \subseteq DOMAIN TransitionsSetup
        /\ TransitionsSetup[1] = Does({"module"})
    BY DEF TransitionsSetup
  <2> HIDE DEF G
  <2> QED
    BY <1>5, <2>1
<1>6. E.steps \in Seq(StepRecords) /\ \A i \in DOMAIN E.steps : E.steps[i] \in G
  BY <1>5, StepsAreSteps
<1>7. E \in ExerciseRecords
  <2>1. E.needs \in SUBSET Names /\ E.saves \in SUBSET Names
        /\ E.checks \in SUBSET Names /\ E.forgets \in SUBSET Names
    BY <1>1 DEF Names, TransitionsNeeds, TransitionsChecks
  <2>2. E.before \in Nat /\ E.rows \in Seq(RowRecords)
    BY <1>1, TransitionsRowList
  <2> QED
    BY <1>1, <1>6, <2>1, <2>2 DEF ExerciseRecords
<1>8. AccountsFor(E)
  <2>3. \A i \in DOMAIN E.rows : E.rows[i].does \subseteq Accounted(E, {}, i + 1)
    <3>1. \A i \in DOMAIN E.rows : E.rows[i].does = {}
      BY <1>2 DEF RowWith
    <3> QED
      BY <3>1
  <2>4. "mode" \in E.needs \cup E.forgets \cup E.checks
    BY <1>1 DEF TransitionsNeeds, TransitionsChecks
  <2> QED
    BY <1>6, <2>3, <2>4, Sound
<1>9. Guards(E, "files", "module")
  <2>1. "files" \notin E.saves /\ \A j \in DOMAIN E.rows : "files" \notin E.rows[j].does
    BY <1>1, <1>2 DEF RowWith
  <2>2. "module" \in E.needs
    BY <1>1 DEF TransitionsNeeds
  <2>3. "files" \in {"files", "label", "shadow"}
    OBVIOUS
  <2> QED
    BY <1>6, <2>1, <2>2, <2>3, QuietGuards
<1>10. Guards(E, "label", "module")
  <2>1. "label" \notin E.saves /\ \A j \in DOMAIN E.rows : "label" \notin E.rows[j].does
    BY <1>1, <1>2 DEF RowWith
  <2>2. "module" \in E.needs
    BY <1>1 DEF TransitionsNeeds
  <2>3. "label" \in {"files", "label", "shadow"}
    OBVIOUS
  <2> QED
    BY <1>6, <2>1, <2>2, <2>3, QuietGuards
<1>11. Guards(E, "shadow", "backup")
  <2>1. "shadow" \notin E.saves /\ \A j \in DOMAIN E.rows : "shadow" \notin E.rows[j].does
    BY <1>1, <1>2 DEF RowWith
  <2>2. \A j \in DOMAIN E.rows : "backup" \notin E.rows[j].undoes
    BY <1>2 DEF RowWith
  <2>3. "shadow" \in {"files", "label", "shadow"} /\ "backup" \in {"backup"}
    OBVIOUS
  <2> QED
    BY <1>6, <2>1, <2>2, <2>3, QuietGuards
<1> QED
  BY <1>1, <1>2, <1>s, <1>7, <1>8, <1>9, <1>10, <1>11

\* The password exercise is sound.
LEMMA PasswordTable ==
  ASSUME NEW E, E = Exercises.password
  PROVE  /\ E \in ExerciseRecords /\ AccountsFor(E)
         /\ 1 \in DOMAIN E.steps /\ 1 \in DOMAIN E.rows
         /\ Guards(E, "files", "module")
         /\ Guards(E, "label", "module")
         /\ Guards(E, "shadow", "backup")
         /\ E.saves = PasswordSaves /\ E.needs = PasswordNeeds
<1> DEFINE G == GoodSteps(E, {"module", "backup"}, {})
<1>1. /\ E = [needs |-> E.needs, saves |-> E.saves, steps |-> E.steps, before |-> E.before,
              rows |-> E.rows, checks |-> E.checks, forgets |-> E.forgets]
      /\ E.needs = PasswordNeeds /\ E.saves = PasswordSaves /\ E.before = 1 /\ E.rows = PasswordRows
      /\ E.checks = PasswordChecks /\ E.forgets = {}
      /\ E.steps = PasswordSetup \o PasswordTests
  BY DEF Exercises, Exercise
<1>2. /\ DOMAIN E.rows = 1 .. 14
      /\ RowWith(E.rows[1], {"client"}, "always", {})
      /\ RowWith(E.rows[2], {"gdm", "managers"}, "always", {})
      /\ RowWith(E.rows[3], {"shadow"}, "always", {})
      /\ RowWith(E.rows[4], {"mode"}, "always", {})
      /\ RowWith(E.rows[5], {}, "always", {"accounts"})
      /\ RowWith(E.rows[6], {"worker"}, "always", {})
      /\ RowWith(E.rows[7], {"label"}, "always", {})
      /\ RowWith(E.rows[8], {"files"}, "always", {})
      /\ RowWith(E.rows[9], {"accounts"}, "always", {})
      /\ RowWith(E.rows[10], {"backup"}, "worker-intact", {})
      /\ RowWith(E.rows[11], {"module"}, "always", {})
      /\ RowWith(E.rows[12], {"session-program"}, "always", {})
      /\ RowWith(E.rows[13], {"gate"}, "always", {})
      /\ RowWith(E.rows[14], {"policy"}, "policy", {})
  BY <1>1, PasswordRowList
<1>3. /\ E.checks \cup E.forgets \subseteq Accounted(E, {}, 1)
      /\ {"client"} \subseteq Accounted(E, {}, 1)
      /\ {"gdm", "managers"} \subseteq Accounted(E, {}, 1)
      /\ {"shadow"} \subseteq Accounted(E, {}, 1)
      /\ {"mode"} \subseteq Accounted(E, {}, 1)
      /\ {"worker"} \subseteq Accounted(E, {}, 1)
      /\ {"label"} \subseteq Accounted(E, {}, 1)
      /\ {"files"} \subseteq Accounted(E, {}, 1)
      /\ {"accounts"} \subseteq Accounted(E, {}, 1)
      /\ {"module"} \subseteq Accounted(E, {}, 1)
      /\ {"session-program"} \subseteq Accounted(E, {}, 1)
      /\ {"gate"} \subseteq Accounted(E, {}, 1)
      /\ {"policy"} \subseteq Accounted(E, {"policy"}, 1)
  BY <1>2, RowPaysAlways, RowPaysFlag DEF RowWith, Accounted
<1>4. PasswordSetup \in Seq(G) /\ PasswordTests \in Seq(G)
  <2> DEFINE A == {"backup", "shadow", "module", "session-program", "gate", "files", "label",
                 "worker", "mode", "gdm", "managers"}
             U == {"gdm", "managers", "client", "set-aside"}
             W == {"client", "set-aside"}
  <2>1. A \subseteq Names /\ U \subseteq Names
    BY DEF Names
  <2>2. A \subseteq Accounted(E, {}, 1)
    BY <1>1, <1>3 DEF PasswordChecks
  <2>3. A \cap {} = {} /\ U \cap {"module", "backup"} = {} /\ W \cap {} = {} /\ W \subseteq U
    OBVIOUS
  <2>4. /\ {"backup"} \in SUBSET A /\ {"shadow"} \in SUBSET A /\ {"module"} \in SUBSET A
        /\ {"session-program"} \in SUBSET A /\ {"gate"} \in SUBSET A
        /\ {"files"} \in SUBSET A /\ {"label"} \in SUBSET A
        /\ {"worker"} \in SUBSET A /\ {"mode"} \in SUBSET A
        /\ {"files", "gdm", "managers"} \in SUBSET A
        /\ {"gdm", "managers"} \in SUBSET A
        /\ {"gdm", "managers"} \in SUBSET U /\ {"client"} \in SUBSET U
        /\ {"set-aside"} \in SUBSET U
        /\ {"client"} \in SUBSET W /\ {"set-aside"} \in SUBSET W
    OBVIOUS
  <2>5. {"policy"} \in Paid(E, {"policy"}, {}) /\ "policy" \in Names
    <3>1. {"policy"} \subseteq Accounted(E, {"policy"}, 1)
      BY <1>3
    <3> QED
      BY <3>1 DEF Paid, Names
  <2> HIDE DEF A, U, G, W
  <2>6. SUBSET A \subseteq Paid(E, {}, {}) /\ SUBSET U \subseteq Free({"module", "backup"})
        /\ SUBSET W \subseteq Free({})
    BY <2>1, <2>2, <2>3 DEF Paid, Free
  <2>7. /\ Does({"backup"}) \in G /\ Does({"shadow"}) \in G /\ Does({"module"}) \in G
        /\ Does({"session-program"}) \in G /\ Does({"gate"}) \in G
        /\ Does({"files"}) \in G /\ Does({"label"}) \in G /\ Does({"worker"}) \in G
        /\ Does({"mode"}) \in G
    BY <2>4, <2>6, DoesGood DEF G
  <2>8. /\ Flagged({"policy"}, "policy") \in G
    BY <2>5, FlaggedGood DEF G
  <2>9. /\ PasswordStart \in G /\ Within({"set-aside"}, {"gdm", "managers"}) \in G
    BY <2>4, <2>6, WithinGood DEF G, PasswordStart
  <2>10. /\ PasswordStop \in G
    BY <2>4, <2>6, UndoesGood DEF G, PasswordStop
  <2> QED
    BY <2>7, <2>8, <2>9, <2>10
       DEF PasswordSetup, PasswordTests
<1>5. /\ E.steps \in Seq(G)
      /\ \A i \in DOMAIN PasswordSetup : i \in DOMAIN E.steps /\ E.steps[i] = PasswordSetup[i]
  <2> HIDE DEF G
  <2> QED
    BY <1>1, <1>4, InOrder
<1>s. /\ 1 .. 3 \subseteq DOMAIN E.steps
      /\ E.steps[1] = Does({"backup"}) /\ E.steps[2] = Does({"shadow"})
      /\ E.steps[3] = Does({"module"})
  <2>1. /\ 1 .. 3 \subseteq DOMAIN PasswordSetup
        /\ PasswordSetup[1] = Does({"backup"}) /\ PasswordSetup[2] = Does({"shadow"})
        /\ PasswordSetup[3] = Does({"module"})
    BY DEF PasswordSetup
  <2> HIDE DEF G
  <2> QED
    BY <1>5, <2>1
<1>6. E.steps \in Seq(StepRecords) /\ \A i \in DOMAIN E.steps : E.steps[i] \in G
  BY <1>5, StepsAreSteps
<1>7. E \in ExerciseRecords
  <2>1. E.needs \in SUBSET Names /\ E.saves \in SUBSET Names
        /\ E.checks \in SUBSET Names /\ E.forgets \in SUBSET Names
    BY <1>1 DEF Names, PasswordNeeds, PasswordSaves, PasswordChecks
  <2>2. E.before \in Nat /\ E.rows \in Seq(RowRecords)
    BY <1>1, PasswordRowList
  <2> QED
    BY <1>1, <1>6, <2>1, <2>2 DEF ExerciseRecords
<1>8. AccountsFor(E)
  <2>1. {"accounts"} \subseteq Accounted(E, {}, 5 + 1)
    <3>1. 9 \in DOMAIN E.rows /\ 9 >= 5 + 1 /\ Certain(E, {}, 9) /\ E.rows[9].undoes = {"accounts"}
      BY <1>2 DEF RowWith, Certain
    <3> QED
      BY <3>1 DEF Accounted, Owed
  <2>2. \A i \in DOMAIN E.rows : E.rows[i].does = {} \/ (i = 5 /\ E.rows[i].does = {"accounts"})
    BY <1>2 DEF RowWith
  <2>3. \A i \in DOMAIN E.rows : E.rows[i].does \subseteq Accounted(E, {}, i + 1)
    BY <2>1, <2>2
  <2>4. "mode" \in E.needs \cup E.forgets \cup E.checks
    BY <1>1 DEF PasswordNeeds, PasswordChecks
  <2> QED
    BY <1>6, <2>3, <2>4, Sound
<1>9. Guards(E, "files", "module")
  <2>1. "module" \in E.needs
    BY <1>1 DEF PasswordNeeds
  <2>a1. Touches(E, 1) = {"backup"}
    BY <1>s, DoesTouches
  <2>a2. Touches(E, 2) = {"shadow"}
    BY <1>s, DoesTouches
  <2>a3. Touches(E, 3) = {"module"}
    BY <1>s, DoesTouches
  <2>2. \A i \in 1 .. 3 : "files" \notin Touches(E, i)
    BY <2>a1, <2>a2, <2>a3
  <2>3. "module" \in E.steps[3].does /\ E.steps[3].within = {}
    <3>1. E.steps[3] = Does({"module"})
      BY <1>s
    <3> QED
      BY <3>1, DoesTouches
  <2>4. E.rows[8].when = "always" /\ "files" \in E.rows[8].undoes
    BY <1>2 DEF RowWith
  <2>7. \A j \in DOMAIN E.rows : "files" \notin E.rows[j].does
    BY <1>2 DEF RowWith
  <2>8. \A j \in 1 .. 8 : "module" \notin E.rows[j].undoes
    BY <1>2 DEF RowWith
  <2>5. 3 \in (Nat \ {0}) \cap DOMAIN E.steps /\ 8 \in (Nat \ {0}) \cap DOMAIN E.rows
    BY <1>2, <1>s
  <2>6. "module" \in {"module", "backup"}
    OBVIOUS
  <2> QED
    BY <1>6, <2>6, <2>1, <2>2, <2>3, <2>4, <2>5, <2>7, <2>8, BracketGuards
<1>10. Guards(E, "label", "module")
  <2>1. "module" \in E.needs
    BY <1>1 DEF PasswordNeeds
  <2>a1. Touches(E, 1) = {"backup"}
    BY <1>s, DoesTouches
  <2>a2. Touches(E, 2) = {"shadow"}
    BY <1>s, DoesTouches
  <2>a3. Touches(E, 3) = {"module"}
    BY <1>s, DoesTouches
  <2>2. \A i \in 1 .. 3 : "label" \notin Touches(E, i)
    BY <2>a1, <2>a2, <2>a3
  <2>3. "module" \in E.steps[3].does /\ E.steps[3].within = {}
    <3>1. E.steps[3] = Does({"module"})
      BY <1>s
    <3> QED
      BY <3>1, DoesTouches
  <2>4. E.rows[7].when = "always" /\ "label" \in E.rows[7].undoes
    BY <1>2 DEF RowWith
  <2>7. \A j \in DOMAIN E.rows : "label" \notin E.rows[j].does
    BY <1>2 DEF RowWith
  <2>8. \A j \in 1 .. 7 : "module" \notin E.rows[j].undoes
    BY <1>2 DEF RowWith
  <2>5. 3 \in (Nat \ {0}) \cap DOMAIN E.steps /\ 7 \in (Nat \ {0}) \cap DOMAIN E.rows
    BY <1>2, <1>s
  <2>6. "module" \in {"module", "backup"}
    OBVIOUS
  <2> QED
    BY <1>6, <2>6, <2>1, <2>2, <2>3, <2>4, <2>5, <2>7, <2>8, BracketGuards
<1>11. Guards(E, "shadow", "backup")
  <2>1. "backup" \in E.needs
    BY <1>1 DEF PasswordNeeds
  <2>a1. Touches(E, 1) = {"backup"}
    BY <1>s, DoesTouches
  <2>2. \A i \in 1 .. 1 : "shadow" \notin Touches(E, i)
    BY <2>a1
  <2>3. "backup" \in E.steps[1].does /\ E.steps[1].within = {}
    <3>1. E.steps[1] = Does({"backup"})
      BY <1>s
    <3> QED
      BY <3>1, DoesTouches
  <2>4. E.rows[3].when = "always" /\ "shadow" \in E.rows[3].undoes
    BY <1>2 DEF RowWith
  <2>7. \A j \in DOMAIN E.rows : "shadow" \notin E.rows[j].does
    BY <1>2 DEF RowWith
  <2>8. \A j \in 1 .. 3 : "backup" \notin E.rows[j].undoes
    BY <1>2 DEF RowWith
  <2>5. 1 \in (Nat \ {0}) \cap DOMAIN E.steps /\ 3 \in (Nat \ {0}) \cap DOMAIN E.rows
    BY <1>2, <1>s
  <2>6. "backup" \in {"module", "backup"}
    OBVIOUS
  <2> QED
    BY <1>6, <2>6, <2>1, <2>2, <2>3, <2>4, <2>5, <2>7, <2>8, BracketGuards
<1> QED
  BY <1>1, <1>2, <1>s, <1>7, <1>8, <1>9, <1>10, <1>11

\* The gdm exercise is sound.
LEMMA GdmTable ==
  ASSUME NEW E, E = Exercises.gdm
  PROVE  /\ E \in ExerciseRecords /\ AccountsFor(E)
         /\ 1 \in DOMAIN E.steps /\ 1 \in DOMAIN E.rows
         /\ Guards(E, "files", "module")
         /\ Guards(E, "label", "module")
         /\ Guards(E, "shadow", "backup")
         /\ E.saves = GdmSaves /\ E.needs = GdmNeeds
<1> DEFINE G == GoodSteps(E, {"module", "backup"}, {"shadow"})
<1>1. /\ E = [needs |-> E.needs, saves |-> E.saves, steps |-> E.steps, before |-> E.before,
              rows |-> E.rows, checks |-> E.checks, forgets |-> E.forgets]
      /\ E.needs = GdmNeeds /\ E.saves = GdmSaves /\ E.before = 1 /\ E.rows = GdmRows
      /\ E.checks = GdmChecks /\ E.forgets = {}
      /\ E.steps = GdmSetup \o GdmTests
  BY DEF Exercises, Exercise
<1>2. /\ DOMAIN E.rows = 1 .. 12
      /\ RowWith(E.rows[1], {"gdm", "managers"}, "always", {})
      /\ RowWith(E.rows[2], {"mode"}, "always", {})
      /\ RowWith(E.rows[3], {}, "always", {"accounts"})
      /\ RowWith(E.rows[4], {"worker"}, "always", {})
      /\ RowWith(E.rows[5], {"label"}, "always", {})
      /\ RowWith(E.rows[6], {"files"}, "always", {})
      /\ RowWith(E.rows[7], {"accounts"}, "always", {})
      /\ RowWith(E.rows[8], {"backup"}, "worker-intact", {})
      /\ RowWith(E.rows[9], {"module"}, "always", {})
      /\ RowWith(E.rows[10], {"session-program"}, "always", {})
      /\ RowWith(E.rows[11], {"gate"}, "always", {})
      /\ RowWith(E.rows[12], {"policy"}, "policy", {})
  BY <1>1, GdmRowList
<1>3. /\ E.checks \cup E.forgets \subseteq Accounted(E, {}, 1)
      /\ {"gdm", "managers"} \subseteq Accounted(E, {}, 1)
      /\ {"mode"} \subseteq Accounted(E, {}, 1)
      /\ {"worker"} \subseteq Accounted(E, {}, 1)
      /\ {"label"} \subseteq Accounted(E, {}, 1)
      /\ {"files"} \subseteq Accounted(E, {}, 1)
      /\ {"accounts"} \subseteq Accounted(E, {}, 1)
      /\ {"module"} \subseteq Accounted(E, {}, 1)
      /\ {"session-program"} \subseteq Accounted(E, {}, 1)
      /\ {"gate"} \subseteq Accounted(E, {}, 1)
      /\ {"policy"} \subseteq Accounted(E, {"policy"}, 1)
  BY <1>2, RowPaysAlways, RowPaysFlag DEF RowWith, Accounted
<1>4. GdmSetup \in Seq(G) /\ GdmTests \in Seq(G)
  <2> DEFINE A == {"backup", "module", "session-program", "gate", "files", "label", "worker",
                 "mode", "gdm", "managers"}
             U == {"gdm", "managers", "set-aside"}
             W == {"set-aside"}
  <2>1. A \subseteq Names /\ U \subseteq Names
    BY DEF Names
  <2>2. A \subseteq Accounted(E, {}, 1)
    BY <1>1, <1>3 DEF GdmChecks
  <2>3. A \cap {"shadow"} = {} /\ U \cap {"module", "backup"} = {} /\ W \cap {"shadow"} = {} /\ W \subseteq U
    OBVIOUS
  <2>4. /\ {"backup"} \in SUBSET A /\ {"module"} \in SUBSET A
        /\ {"session-program"} \in SUBSET A /\ {"gate"} \in SUBSET A
        /\ {"files"} \in SUBSET A /\ {"label"} \in SUBSET A
        /\ {"worker"} \in SUBSET A /\ {"mode"} \in SUBSET A
        /\ {"files", "gdm", "managers"} \in SUBSET A
        /\ {"gdm", "managers"} \in SUBSET A
        /\ {"gdm", "managers"} \in SUBSET U /\ {"set-aside"} \in SUBSET U
        /\ {"set-aside"} \in SUBSET W
    OBVIOUS
  <2>5. {"policy"} \in Paid(E, {"policy"}, {"shadow"}) /\ "policy" \in Names
    <3>1. {"policy"} \subseteq Accounted(E, {"policy"}, 1)
      BY <1>3
    <3> QED
      BY <3>1 DEF Paid, Names
  <2> HIDE DEF A, U, G, W
  <2>6. SUBSET A \subseteq Paid(E, {}, {"shadow"}) /\ SUBSET U \subseteq Free({"module", "backup"})
        /\ SUBSET W \subseteq Free({"shadow"})
    BY <2>1, <2>2, <2>3 DEF Paid, Free
  <2>7. /\ Does({"backup"}) \in G /\ Does({"module"}) \in G
        /\ Does({"session-program"}) \in G /\ Does({"gate"}) \in G
        /\ Does({"files"}) \in G /\ Does({"label"}) \in G /\ Does({"worker"}) \in G
        /\ Does({"mode"}) \in G /\ GdmStart \in G
    BY <2>4, <2>6, DoesGood DEF G, GdmStart
  <2>8. /\ Flagged({"policy"}, "policy") \in G
    BY <2>5, FlaggedGood DEF G
  <2>9. /\ GdmStop \in G
    BY <2>4, <2>6, UndoesGood DEF G, GdmStop
  <2>10. /\ Within({"set-aside"}, {"gdm", "managers"}) \in G
    BY <2>4, <2>6, WithinGood DEF G
  <2> QED
    BY <2>7, <2>8, <2>9, <2>10
       DEF GdmSetup, GdmTests
<1>5. /\ E.steps \in Seq(G)
      /\ \A i \in DOMAIN GdmSetup : i \in DOMAIN E.steps /\ E.steps[i] = GdmSetup[i]
  <2> HIDE DEF G
  <2> QED
    BY <1>1, <1>4, InOrder
<1>s. /\ 1 .. 2 \subseteq DOMAIN E.steps
      /\ E.steps[1] = Does({"backup"}) /\ E.steps[2] = Does({"module"})
  <2>1. /\ 1 .. 2 \subseteq DOMAIN GdmSetup
        /\ GdmSetup[1] = Does({"backup"}) /\ GdmSetup[2] = Does({"module"})
    BY DEF GdmSetup
  <2> HIDE DEF G
  <2> QED
    BY <1>5, <2>1
<1>6. E.steps \in Seq(StepRecords) /\ \A i \in DOMAIN E.steps : E.steps[i] \in G
  BY <1>5, StepsAreSteps
<1>7. E \in ExerciseRecords
  <2>1. E.needs \in SUBSET Names /\ E.saves \in SUBSET Names
        /\ E.checks \in SUBSET Names /\ E.forgets \in SUBSET Names
    BY <1>1 DEF Names, GdmNeeds, GdmSaves, GdmChecks
  <2>2. E.before \in Nat /\ E.rows \in Seq(RowRecords)
    BY <1>1, GdmRowList
  <2> QED
    BY <1>1, <1>6, <2>1, <2>2 DEF ExerciseRecords
<1>8. AccountsFor(E)
  <2>1. {"accounts"} \subseteq Accounted(E, {}, 3 + 1)
    <3>1. 7 \in DOMAIN E.rows /\ 7 >= 3 + 1 /\ Certain(E, {}, 7) /\ E.rows[7].undoes = {"accounts"}
      BY <1>2 DEF RowWith, Certain
    <3> QED
      BY <3>1 DEF Accounted, Owed
  <2>2. \A i \in DOMAIN E.rows : E.rows[i].does = {} \/ (i = 3 /\ E.rows[i].does = {"accounts"})
    BY <1>2 DEF RowWith
  <2>3. \A i \in DOMAIN E.rows : E.rows[i].does \subseteq Accounted(E, {}, i + 1)
    BY <2>1, <2>2
  <2>4. "mode" \in E.needs \cup E.forgets \cup E.checks
    BY <1>1 DEF GdmNeeds, GdmChecks
  <2> QED
    BY <1>6, <2>3, <2>4, Sound
<1>9. Guards(E, "files", "module")
  <2>1. "module" \in E.needs
    BY <1>1 DEF GdmNeeds
  <2>a1. Touches(E, 1) = {"backup"}
    BY <1>s, DoesTouches
  <2>a2. Touches(E, 2) = {"module"}
    BY <1>s, DoesTouches
  <2>2. \A i \in 1 .. 2 : "files" \notin Touches(E, i)
    BY <2>a1, <2>a2
  <2>3. "module" \in E.steps[2].does /\ E.steps[2].within = {}
    <3>1. E.steps[2] = Does({"module"})
      BY <1>s
    <3> QED
      BY <3>1, DoesTouches
  <2>4. E.rows[6].when = "always" /\ "files" \in E.rows[6].undoes
    BY <1>2 DEF RowWith
  <2>7. \A j \in DOMAIN E.rows : "files" \notin E.rows[j].does
    BY <1>2 DEF RowWith
  <2>8. \A j \in 1 .. 6 : "module" \notin E.rows[j].undoes
    BY <1>2 DEF RowWith
  <2>5. 2 \in (Nat \ {0}) \cap DOMAIN E.steps /\ 6 \in (Nat \ {0}) \cap DOMAIN E.rows
    BY <1>2, <1>s
  <2>6. "module" \in {"module", "backup"}
    OBVIOUS
  <2> QED
    BY <1>6, <2>6, <2>1, <2>2, <2>3, <2>4, <2>5, <2>7, <2>8, BracketGuards
<1>10. Guards(E, "label", "module")
  <2>1. "module" \in E.needs
    BY <1>1 DEF GdmNeeds
  <2>a1. Touches(E, 1) = {"backup"}
    BY <1>s, DoesTouches
  <2>a2. Touches(E, 2) = {"module"}
    BY <1>s, DoesTouches
  <2>2. \A i \in 1 .. 2 : "label" \notin Touches(E, i)
    BY <2>a1, <2>a2
  <2>3. "module" \in E.steps[2].does /\ E.steps[2].within = {}
    <3>1. E.steps[2] = Does({"module"})
      BY <1>s
    <3> QED
      BY <3>1, DoesTouches
  <2>4. E.rows[5].when = "always" /\ "label" \in E.rows[5].undoes
    BY <1>2 DEF RowWith
  <2>7. \A j \in DOMAIN E.rows : "label" \notin E.rows[j].does
    BY <1>2 DEF RowWith
  <2>8. \A j \in 1 .. 5 : "module" \notin E.rows[j].undoes
    BY <1>2 DEF RowWith
  <2>5. 2 \in (Nat \ {0}) \cap DOMAIN E.steps /\ 5 \in (Nat \ {0}) \cap DOMAIN E.rows
    BY <1>2, <1>s
  <2>6. "module" \in {"module", "backup"}
    OBVIOUS
  <2> QED
    BY <1>6, <2>6, <2>1, <2>2, <2>3, <2>4, <2>5, <2>7, <2>8, BracketGuards
<1>11. Guards(E, "shadow", "backup")
  <2>1. "shadow" \notin E.saves /\ \A j \in DOMAIN E.rows : "shadow" \notin E.rows[j].does
    BY <1>1, <1>2 DEF RowWith, GdmSaves
  <2>2. "backup" \in E.needs
    BY <1>1 DEF GdmNeeds
  <2>3. "shadow" \in {"shadow"}
    OBVIOUS
  <2> QED
    BY <1>6, <2>1, <2>2, <2>3, QuietGuards
<1> QED
  BY <1>1, <1>2, <1>s, <1>7, <1>8, <1>9, <1>10, <1>11

\* The systemd exercise is sound.
LEMMA SystemdTable ==
  ASSUME NEW E, E = Exercises.systemd
  PROVE  /\ E \in ExerciseRecords /\ AccountsFor(E)
         /\ 1 \in DOMAIN E.steps /\ 1 \in DOMAIN E.rows
         /\ Guards(E, "files", "module")
         /\ Guards(E, "label", "module")
         /\ Guards(E, "shadow", "backup")
         /\ E.saves = {"files"} /\ E.needs = SystemdNeeds
<1> DEFINE G == GoodSteps(E, {"module", "backup"}, {"label", "shadow"})
<1>1. /\ E = [needs |-> E.needs, saves |-> E.saves, steps |-> E.steps, before |-> E.before,
              rows |-> E.rows, checks |-> E.checks, forgets |-> E.forgets]
      /\ E.needs = SystemdNeeds /\ E.saves = {"files"} /\ E.before = 0 /\ E.rows = SystemdRows
      /\ E.checks = SystemdChecks /\ E.forgets = {}
      /\ E.steps = SystemdSetup \o SystemdTests
  BY DEF Exercises, Exercise
<1>2. /\ DOMAIN E.rows = 1 .. 5
      /\ RowWith(E.rows[1], {"managers"}, "always", {})
      /\ RowWith(E.rows[2], {"mode"}, "always", {})
      /\ RowWith(E.rows[3], {"files"}, "always", {})
      /\ RowWith(E.rows[4], {"module"}, "always", {})
      /\ RowWith(E.rows[5], {"gate"}, "always", {})
  BY <1>1, SystemdRowList
<1>3. /\ E.checks \cup E.forgets \subseteq Accounted(E, {}, 1)
      /\ {"managers"} \subseteq Accounted(E, {}, 1)
      /\ {"mode"} \subseteq Accounted(E, {}, 1)
      /\ {"files"} \subseteq Accounted(E, {}, 1)
      /\ {"module"} \subseteq Accounted(E, {}, 1)
      /\ {"gate"} \subseteq Accounted(E, {}, 1)
  BY <1>2, RowPaysAlways, RowPaysFlag DEF RowWith, Accounted
<1>4. SystemdSetup \in Seq(G) /\ SystemdTests \in Seq(G)
  <2> DEFINE A == {"module", "gate", "files", "mode", "managers"}
             U == {"managers", "set-aside"}
             W == {"set-aside"}
  <2>1. A \subseteq Names /\ U \subseteq Names
    BY DEF Names
  <2>2. A \subseteq Accounted(E, {}, 1)
    BY <1>1, <1>3
  <2>3. A \cap {"label", "shadow"} = {} /\ U \cap {"module", "backup"} = {} /\ W \cap {"label", "shadow"} = {} /\ W \subseteq U
    OBVIOUS
  <2>4. /\ {"module"} \in SUBSET A /\ {"gate"} \in SUBSET A /\ {"files"} \in SUBSET A
        /\ {"mode"} \in SUBSET A /\ {"managers"} \in SUBSET A
        /\ {"managers"} \in SUBSET U /\ {"set-aside"} \in SUBSET U
        /\ {"set-aside"} \in SUBSET W
    OBVIOUS
  <2> HIDE DEF A, U, G, W
  <2>5. SUBSET A \subseteq Paid(E, {}, {"label", "shadow"}) /\ SUBSET U \subseteq Free({"module", "backup"})
        /\ SUBSET W \subseteq Free({"label", "shadow"})
    BY <2>1, <2>2, <2>3 DEF Paid, Free
  <2>6. /\ Does({"module"}) \in G /\ Does({"gate"}) \in G /\ Does({"files"}) \in G
        /\ Does({"mode"}) \in G /\ SystemdStart \in G
    BY <2>4, <2>5, DoesGood DEF G, SystemdStart
  <2>7. /\ SystemdStop \in G
    BY <2>4, <2>5, UndoesGood DEF G, SystemdStop
  <2>8. /\ Within({"set-aside"}, {"managers"}) \in G
    BY <2>4, <2>5, WithinGood DEF G
  <2> QED
    BY <2>6, <2>7, <2>8
       DEF SystemdSetup, SystemdTests
<1>5. /\ E.steps \in Seq(G)
      /\ \A i \in DOMAIN SystemdSetup : i \in DOMAIN E.steps /\ E.steps[i] = SystemdSetup[i]
  <2> HIDE DEF G
  <2> QED
    BY <1>1, <1>4, InOrder
<1>s. /\ 1 .. 1 \subseteq DOMAIN E.steps
      /\ E.steps[1] = Does({"module"})
  <2>1. /\ 1 .. 1 \subseteq DOMAIN SystemdSetup
        /\ SystemdSetup[1] = Does({"module"})
    BY DEF SystemdSetup
  <2> HIDE DEF G
  <2> QED
    BY <1>5, <2>1
<1>6. E.steps \in Seq(StepRecords) /\ \A i \in DOMAIN E.steps : E.steps[i] \in G
  BY <1>5, StepsAreSteps
<1>7. E \in ExerciseRecords
  <2>1. E.needs \in SUBSET Names /\ E.saves \in SUBSET Names
        /\ E.checks \in SUBSET Names /\ E.forgets \in SUBSET Names
    BY <1>1 DEF Names, SystemdNeeds, SystemdChecks
  <2>2. E.before \in Nat /\ E.rows \in Seq(RowRecords)
    BY <1>1, SystemdRowList
  <2> QED
    BY <1>1, <1>6, <2>1, <2>2 DEF ExerciseRecords
<1>8. AccountsFor(E)
  <2>3. \A i \in DOMAIN E.rows : E.rows[i].does \subseteq Accounted(E, {}, i + 1)
    <3>1. \A i \in DOMAIN E.rows : E.rows[i].does = {}
      BY <1>2 DEF RowWith
    <3> QED
      BY <3>1
  <2>4. "mode" \in E.needs \cup E.forgets \cup E.checks
    BY <1>1 DEF SystemdNeeds, SystemdChecks
  <2> QED
    BY <1>6, <2>3, <2>4, Sound
<1>9. Guards(E, "files", "module")
  <2>1. "module" \in E.needs
    BY <1>1 DEF SystemdNeeds
  <2>a1. Touches(E, 1) = {"module"}
    BY <1>s, DoesTouches
  <2>2. \A i \in 1 .. 1 : "files" \notin Touches(E, i)
    BY <2>a1
  <2>3. "module" \in E.steps[1].does /\ E.steps[1].within = {}
    <3>1. E.steps[1] = Does({"module"})
      BY <1>s
    <3> QED
      BY <3>1, DoesTouches
  <2>4. E.rows[3].when = "always" /\ "files" \in E.rows[3].undoes
    BY <1>2 DEF RowWith
  <2>7. \A j \in DOMAIN E.rows : "files" \notin E.rows[j].does
    BY <1>2 DEF RowWith
  <2>8. \A j \in 1 .. 3 : "module" \notin E.rows[j].undoes
    BY <1>2 DEF RowWith
  <2>5. 1 \in (Nat \ {0}) \cap DOMAIN E.steps /\ 3 \in (Nat \ {0}) \cap DOMAIN E.rows
    BY <1>2, <1>s
  <2>6. "module" \in {"module", "backup"}
    OBVIOUS
  <2> QED
    BY <1>6, <2>6, <2>1, <2>2, <2>3, <2>4, <2>5, <2>7, <2>8, BracketGuards
<1>10. Guards(E, "label", "module")
  <2>1. "label" \notin E.saves /\ \A j \in DOMAIN E.rows : "label" \notin E.rows[j].does
    BY <1>1, <1>2 DEF RowWith
  <2>2. "module" \in E.needs
    BY <1>1 DEF SystemdNeeds
  <2>3. "label" \in {"label", "shadow"}
    OBVIOUS
  <2> QED
    BY <1>6, <2>1, <2>2, <2>3, QuietGuards
<1>11. Guards(E, "shadow", "backup")
  <2>1. "shadow" \notin E.saves /\ \A j \in DOMAIN E.rows : "shadow" \notin E.rows[j].does
    BY <1>1, <1>2 DEF RowWith
  <2>2. \A j \in DOMAIN E.rows : "backup" \notin E.rows[j].undoes
    BY <1>2 DEF RowWith
  <2>3. "shadow" \in {"label", "shadow"} /\ "backup" \in {"module", "backup"}
    OBVIOUS
  <2> QED
    BY <1>6, <2>1, <2>2, <2>3, QuietGuards
<1> QED
  BY <1>1, <1>2, <1>s, <1>7, <1>8, <1>9, <1>10, <1>11

\* The identity exercise is sound.
LEMMA IdentityTable ==
  ASSUME NEW E, E = Exercises.identity
  PROVE  /\ E \in ExerciseRecords /\ AccountsFor(E)
         /\ 1 \in DOMAIN E.steps /\ 1 \in DOMAIN E.rows
         /\ Guards(E, "mode", "module")
         /\ E.saves = {"mode"} /\ E.needs = IdentityNeeds
<1> DEFINE G == GoodSteps(E, {"module"}, {})
<1>1. /\ E = [needs |-> E.needs, saves |-> E.saves, steps |-> E.steps, before |-> E.before,
              rows |-> E.rows, checks |-> E.checks, forgets |-> E.forgets]
      /\ E.needs = IdentityNeeds /\ E.saves = {"mode"} /\ E.before = 0 /\ E.rows = IdentityRows
      /\ E.checks = IdentityChecks /\ E.forgets = {}
      /\ E.steps = IdentitySetup \o IdentityTests
  BY DEF Exercises, Exercise
<1>2. /\ DOMAIN E.rows = 1 .. 6
      /\ RowWith(E.rows[1], {"mode"}, "always", {})
      /\ RowWith(E.rows[2], {"mapping"}, "mapping", {})
      /\ RowWith(E.rows[3], {"user", "primary-group"}, "user", {})
      /\ RowWith(E.rows[4], {"group"}, "group", {})
      /\ RowWith(E.rows[5], {"pam"}, "always", {})
      /\ RowWith(E.rows[6], {"module"}, "always", {})
  BY <1>1, IdentityRowList
<1>3. /\ E.checks \cup E.forgets \subseteq Accounted(E, {}, 1)
      /\ {"mode"} \subseteq Accounted(E, {}, 1) /\ {"pam"} \subseteq Accounted(E, {}, 1)
      /\ {"module"} \subseteq Accounted(E, {}, 1)
      /\ {"mapping"} \subseteq Accounted(E, {"mapping"}, 1)
      /\ {"user", "primary-group"} \subseteq Accounted(E, {"user"}, 1)
      /\ {"group"} \subseteq Accounted(E, {"group"}, 1)
  BY <1>2, RowPaysAlways, RowPaysFlag DEF RowWith, Accounted
<1>4. IdentitySetup \in Seq(G) /\ IdentityTests \in Seq(G)
  <2> DEFINE A == {"module", "pam", "mode"}
             U == {"pam.new", "set-aside", "permissive-domain", "renamed", "primary-group"}
             W == {"set-aside", "permissive-domain", "renamed", "primary-group"}
  <2>1. A \subseteq Names /\ U \subseteq Names
    BY DEF Names
  <2>2. A \subseteq Accounted(E, {}, 1)
    BY <1>1, <1>3
  <2>3. A \cap {} = {} /\ U \cap {"module"} = {} /\ W \cap {} = {} /\ W \subseteq U
    OBVIOUS
  <2>4. /\ {"module"} \in SUBSET A /\ {"pam"} \in SUBSET A /\ {"mode"} \in SUBSET A
        /\ {} \in SUBSET A
        /\ {"pam.new"} \in SUBSET U /\ {"set-aside"} \in SUBSET U
        /\ {"permissive-domain"} \in SUBSET U /\ {"renamed"} \in SUBSET U
        /\ {"primary-group"} \in SUBSET U
        /\ {"set-aside"} \in SUBSET W /\ {"permissive-domain"} \in SUBSET W
        /\ {"renamed"} \in SUBSET W /\ {"primary-group"} \in SUBSET W
    OBVIOUS
  <2>5. {"group"} \in Paid(E, {"group"}, {}) /\ "group" \in Names
    <3>1. {"group"} \subseteq Accounted(E, {"group"}, 1)
      BY <1>3
    <3> QED
      BY <3>1 DEF Paid, Names
  <2>6. {"user"} \in Paid(E, {"user"}, {}) /\ "user" \in Names
    <3>1. {"user"} \subseteq Accounted(E, {"user"}, 1)
      BY <1>3
    <3> QED
      BY <3>1 DEF Paid, Names
  <2>7. {"mapping"} \in Paid(E, {"mapping"}, {}) /\ "mapping" \in Names
    <3>1. {"mapping"} \subseteq Accounted(E, {"mapping"}, 1)
      BY <1>3
    <3> QED
      BY <3>1 DEF Paid, Names
  <2> HIDE DEF A, U, G, W
  <2>8. SUBSET A \subseteq Paid(E, {}, {}) /\ SUBSET U \subseteq Free({"module"})
        /\ SUBSET W \subseteq Free({})
    BY <2>1, <2>2, <2>3 DEF Paid, Free
  <2>9. /\ Does({"module"}) \in G /\ Does({"mode"}) \in G
    BY <2>4, <2>8, DoesGood DEF G
  <2>10. /\ Flagged({"group"}, "group") \in G /\ Flagged({"user"}, "user") \in G
        /\ Flagged({"mapping"}, "mapping") \in G
    BY <2>5, <2>6, <2>7, FlaggedGood DEF G
  <2>11. /\ IdentityInstall \in G
    BY <2>4, <2>8, InstallGood DEF G, IdentityInstall
  <2>12. /\ Tests \in G
    BY TestsGood DEF G
  <2>13. /\ Change("set-aside") \in G /\ Change("permissive-domain") \in G
        /\ Change("renamed") \in G /\ Change("primary-group") \in G
    BY <2>4, <2>8, WithinGood DEF G, Change
  <2> QED
    BY <2>9, <2>10, <2>11, <2>12, <2>13
       DEF IdentitySetup, IdentityTests
<1>5. /\ E.steps \in Seq(G)
      /\ \A i \in DOMAIN IdentitySetup : i \in DOMAIN E.steps /\ E.steps[i] = IdentitySetup[i]
  <2> HIDE DEF G
  <2> QED
    BY <1>1, <1>4, InOrder
<1>s. /\ 1 .. 1 \subseteq DOMAIN E.steps
      /\ E.steps[1] = Does({"module"})
  <2>1. /\ 1 .. 1 \subseteq DOMAIN IdentitySetup
        /\ IdentitySetup[1] = Does({"module"})
    BY DEF IdentitySetup
  <2> HIDE DEF G
  <2> QED
    BY <1>5, <2>1
<1>6. E.steps \in Seq(StepRecords) /\ \A i \in DOMAIN E.steps : E.steps[i] \in G
  BY <1>5, StepsAreSteps
<1>7. E \in ExerciseRecords
  <2>1. E.needs \in SUBSET Names /\ E.saves \in SUBSET Names
        /\ E.checks \in SUBSET Names /\ E.forgets \in SUBSET Names
    BY <1>1 DEF Names, IdentityNeeds, IdentityChecks
  <2>2. E.before \in Nat /\ E.rows \in Seq(RowRecords)
    BY <1>1, IdentityRowList
  <2> QED
    BY <1>1, <1>6, <2>1, <2>2 DEF ExerciseRecords
<1>8. AccountsFor(E)
  <2>3. \A i \in DOMAIN E.rows : E.rows[i].does \subseteq Accounted(E, {}, i + 1)
    <3>1. \A i \in DOMAIN E.rows : E.rows[i].does = {}
      BY <1>2 DEF RowWith
    <3> QED
      BY <3>1
  <2>4. "mode" \in E.needs \cup E.forgets \cup E.checks
    BY <1>1 DEF IdentityNeeds, IdentityChecks
  <2> QED
    BY <1>6, <2>3, <2>4, Sound
<1>9. Guards(E, "mode", "module")
  <2>1. "module" \in E.needs
    BY <1>1 DEF IdentityNeeds
  <2>a1. Touches(E, 1) = {"module"}
    BY <1>s, DoesTouches
  <2>2. \A i \in 1 .. 1 : "mode" \notin Touches(E, i)
    BY <2>a1
  <2>3. "module" \in E.steps[1].does /\ E.steps[1].within = {}
    <3>1. E.steps[1] = Does({"module"})
      BY <1>s
    <3> QED
      BY <3>1, DoesTouches
  <2>4. E.rows[1].when = "always" /\ "mode" \in E.rows[1].undoes
    BY <1>2 DEF RowWith
  <2>7. \A j \in DOMAIN E.rows : "mode" \notin E.rows[j].does
    BY <1>2 DEF RowWith
  <2>8. \A j \in 1 .. 1 : "module" \notin E.rows[j].undoes
    BY <1>2 DEF RowWith
  <2>5. 1 \in (Nat \ {0}) \cap DOMAIN E.steps /\ 1 \in (Nat \ {0}) \cap DOMAIN E.rows
    BY <1>2, <1>s
  <2>6. "module" \in {"module"}
    OBVIOUS
  <2> QED
    BY <1>6, <2>6, <2>1, <2>2, <2>3, <2>4, <2>5, <2>7, <2>8, BracketGuards
<1> QED
  BY <1>1, <1>2, <1>s, <1>7, <1>8, <1>9

\* The entries exercise is sound.
LEMMA EntriesTable ==
  ASSUME NEW E, E = Exercises.entries
  PROVE  /\ E \in ExerciseRecords /\ AccountsFor(E)
         /\ 1 \in DOMAIN E.steps /\ 1 \in DOMAIN E.rows
         /\ E.saves = {} /\ E.needs = EntriesNeeds
<1> DEFINE G == GoodSteps(E, {}, {})
<1>1. /\ E = [needs |-> E.needs, saves |-> E.saves, steps |-> E.steps, before |-> E.before,
              rows |-> E.rows, checks |-> E.checks, forgets |-> E.forgets]
      /\ E.needs = EntriesNeeds /\ E.saves = {} /\ E.before = 0 /\ E.rows = EntriesRows
      /\ E.checks = EntriesChecks /\ E.forgets = {"sshd"}
      /\ E.steps = EntriesSetup \o EntriesTests
  BY DEF Exercises, Exercise
<1>2. /\ DOMAIN E.rows = 1 .. 9
      /\ RowWith(E.rows[1], {"client", "tunnel"}, "always", {})
      /\ RowWith(E.rows[2], {}, "always", {})
      /\ RowWith(E.rows[3], {"server"}, "server", {})
      /\ RowWith(E.rows[4], {"mode"}, "always", {})
      /\ RowWith(E.rows[5], {"files"}, "always", {})
      /\ RowWith(E.rows[6], {"user", "primary-group"}, "user", {})
      /\ RowWith(E.rows[7], {"group"}, "group", {})
      /\ RowWith(E.rows[8], {"sshd.conf", "hostkey"}, "always", {})
      /\ RowWith(E.rows[9], {"private", "keys"}, "always", {})
  BY <1>1, EntriesRowList
<1>3. /\ E.checks \cup E.forgets \subseteq Accounted(E, {}, 1)
      /\ {"client", "tunnel"} \subseteq Accounted(E, {}, 1)
      /\ {"mode"} \subseteq Accounted(E, {}, 1)
      /\ {"files"} \subseteq Accounted(E, {}, 1)
      /\ {"sshd.conf", "hostkey"} \subseteq Accounted(E, {}, 1)
      /\ {"private", "keys"} \subseteq Accounted(E, {}, 1)
      /\ {"server"} \subseteq Accounted(E, {"server"}, 1)
      /\ {"user", "primary-group"} \subseteq Accounted(E, {"user"}, 1)
      /\ {"group"} \subseteq Accounted(E, {"group"}, 1)
  BY <1>2, RowPaysAlways, RowPaysFlag DEF RowWith, Accounted
<1>4. EntriesSetup \in Seq(G) /\ EntriesTests \in Seq(G)
  <2> DEFINE A == {"sshd", "private", "keys", "hostkey", "sshd.conf", "mode", "tunnel",
                 "files"}
             U == {"pam.new", "tunnel", "files", "login", "client", "primary-group"}
             W == {"login", "client", "primary-group"}
  <2>1. A \subseteq Names /\ U \subseteq Names
    BY DEF Names
  <2>2. A \subseteq Accounted(E, {}, 1)
    BY <1>1, <1>3
  <2>3. A \cap {} = {} /\ U \cap {} = {} /\ W \cap {} = {} /\ W \subseteq U
    OBVIOUS
  <2>4. /\ {"sshd"} \in SUBSET A /\ {"private", "keys"} \in SUBSET A
        /\ {"hostkey"} \in SUBSET A /\ {"sshd.conf"} \in SUBSET A
        /\ {"mode"} \in SUBSET A /\ {} \in SUBSET A /\ {"tunnel"} \in SUBSET A
        /\ {"files"} \in SUBSET A
        /\ {"pam.new"} \in SUBSET U /\ {"tunnel"} \in SUBSET U /\ {"files"} \in SUBSET U
        /\ {"login"} \in SUBSET U /\ {"client"} \in SUBSET U
        /\ {"primary-group"} \in SUBSET U
        /\ {"login"} \in SUBSET W /\ {"client"} \in SUBSET W
        /\ {"primary-group"} \in SUBSET W
    OBVIOUS
  <2>5. {"group"} \in Paid(E, {"group"}, {}) /\ "group" \in Names
    <3>1. {"group"} \subseteq Accounted(E, {"group"}, 1)
      BY <1>3
    <3> QED
      BY <3>1 DEF Paid, Names
  <2>6. {"user"} \in Paid(E, {"user"}, {}) /\ "user" \in Names
    <3>1. {"user"} \subseteq Accounted(E, {"user"}, 1)
      BY <1>3
    <3> QED
      BY <3>1 DEF Paid, Names
  <2>7. {"server"} \in Paid(E, {"server"}, {}) /\ "server" \in Names
    <3>1. {"server"} \subseteq Accounted(E, {"server"}, 1)
      BY <1>3
    <3> QED
      BY <3>1 DEF Paid, Names
  <2> HIDE DEF A, U, G, W
  <2>8. SUBSET A \subseteq Paid(E, {}, {}) /\ SUBSET U \subseteq Free({})
        /\ SUBSET W \subseteq Free({})
    BY <2>1, <2>2, <2>3 DEF Paid, Free
  <2>9. /\ Does({"sshd"}) \in G /\ Does({"private", "keys"}) \in G
        /\ Does({"hostkey"}) \in G /\ Does({"sshd.conf"}) \in G
        /\ Does({"mode"}) \in G /\ Does({"tunnel"}) \in G
    BY <2>4, <2>8, DoesGood DEF G
  <2>10. /\ Flagged({"group"}, "group") \in G /\ Flagged({"user"}, "user") \in G
        /\ Flagged({"server"}, "server") \in G
    BY <2>5, <2>6, <2>7, FlaggedGood DEF G
  <2>11. /\ EntriesLogin \in G /\ EntriesTunnel \in G /\ Within({"primary-group"}, {}) \in G
    BY <2>4, <2>8, WithinGood DEF G, EntriesLogin, EntriesTunnel
  <2>12. /\ EntriesRemote \in G
    BY TestsGood DEF G, EntriesRemote
  <2>13. /\ EntriesPolicy \in G
    BY <2>4, <2>8, InstallGood DEF G, EntriesPolicy
  <2>14. /\ Undoes({"tunnel"}) \in G /\ Undoes({"files"}) \in G
    BY <2>4, <2>8, UndoesGood DEF G
  <2> QED
    BY <2>9, <2>10, <2>11, <2>12, <2>13, <2>14
       DEF EntriesSetup, EntriesTests
<1>5. /\ E.steps \in Seq(G)
      /\ \A i \in DOMAIN EntriesSetup : i \in DOMAIN E.steps /\ E.steps[i] = EntriesSetup[i]
  <2> HIDE DEF G
  <2> QED
    BY <1>1, <1>4, InOrder
<1>s. /\ 1 .. 1 \subseteq DOMAIN E.steps
      /\ E.steps[1] = Does({"sshd"})
  <2>1. /\ 1 .. 1 \subseteq DOMAIN EntriesSetup
        /\ EntriesSetup[1] = Does({"sshd"})
    BY DEF EntriesSetup
  <2> HIDE DEF G
  <2> QED
    BY <1>5, <2>1
<1>6. E.steps \in Seq(StepRecords) /\ \A i \in DOMAIN E.steps : E.steps[i] \in G
  BY <1>5, StepsAreSteps
<1>7. E \in ExerciseRecords
  <2>1. E.needs \in SUBSET Names /\ E.saves \in SUBSET Names
        /\ E.checks \in SUBSET Names /\ E.forgets \in SUBSET Names
    BY <1>1 DEF Names, EntriesNeeds, EntriesChecks
  <2>2. E.before \in Nat /\ E.rows \in Seq(RowRecords)
    BY <1>1, EntriesRowList
  <2> QED
    BY <1>1, <1>6, <2>1, <2>2 DEF ExerciseRecords
<1>8. AccountsFor(E)
  <2>3. \A i \in DOMAIN E.rows : E.rows[i].does \subseteq Accounted(E, {}, i + 1)
    <3>1. \A i \in DOMAIN E.rows : E.rows[i].does = {}
      BY <1>2 DEF RowWith
    <3> QED
      BY <3>1
  <2>4. "mode" \in E.needs \cup E.forgets \cup E.checks
    BY <1>1 DEF EntriesNeeds, EntriesChecks
  <2> QED
    BY <1>6, <2>3, <2>4, Sound
<1> QED
  BY <1>1, <1>2, <1>s, <1>7, <1>8

\* The callbacks exercise is sound.
LEMMA CallbacksTable ==
  ASSUME NEW E, E = Exercises.callbacks
  PROVE  /\ E \in ExerciseRecords /\ AccountsFor(E)
         /\ 1 \in DOMAIN E.steps /\ 1 \in DOMAIN E.rows
         /\ Guards(E, "files", "generated")
         /\ E.saves = CallbacksSaves /\ E.needs = CallbacksNeeds
<1> DEFINE G == GoodSteps(E, {"generated"}, {})
<1>1. /\ E = [needs |-> E.needs, saves |-> E.saves, steps |-> E.steps, before |-> E.before,
              rows |-> E.rows, checks |-> E.checks, forgets |-> E.forgets]
      /\ E.needs = CallbacksNeeds /\ E.saves = CallbacksSaves /\ E.before = 1 /\ E.rows = CallbacksRows
      /\ E.checks = {} /\ E.forgets = {"gdm", "mode"}
      /\ E.steps = CallbacksSetup \o CallbacksRelabel \o CallbacksTests
  BY DEF Exercises, Exercise
<1>2. /\ DOMAIN E.rows = 1 .. 8
      /\ RowWith(E.rows[1], {"auditd"}, "always", {})
      /\ RowWith(E.rows[2], {}, "always", {})
      /\ RowWith(E.rows[3], {"managers"}, "always", {})
      /\ RowWith(E.rows[4], {"mode"}, "always", {})
      /\ RowWith(E.rows[5], {"files"}, "always", {})
      /\ RowWith(E.rows[6], {"generated"}, "always", {})
      /\ RowWith(E.rows[7], {"directories"}, "always", {})
      /\ RowWith(E.rows[8], {"policy"}, "policy", {})
  BY <1>1, CallbacksRowList
<1>3. /\ E.checks \cup E.forgets \subseteq Accounted(E, {}, 1)
      /\ {"auditd"} \subseteq Accounted(E, {}, 1)
      /\ {"managers"} \subseteq Accounted(E, {}, 1)
      /\ {"mode"} \subseteq Accounted(E, {}, 1)
      /\ {"files"} \subseteq Accounted(E, {}, 1)
      /\ {"generated"} \subseteq Accounted(E, {}, 1)
      /\ {"directories"} \subseteq Accounted(E, {}, 1)
      /\ {"policy"} \subseteq Accounted(E, {"policy"}, 1)
  BY <1>2, RowPaysAlways, RowPaysFlag DEF RowWith, Accounted
<1>4. CallbacksSetup \in Seq(G) /\ CallbacksRelabel \in Seq(G) /\ CallbacksTests \in Seq(G)
  <2> DEFINE A == {"gdm", "directories", "generated", "files", "mode", "auditd"}
             U == {"mode"}
  <2>1. A \subseteq Names /\ U \subseteq Names
    BY DEF Names
  <2>2. A \subseteq Accounted(E, {}, 1)
    BY <1>1, <1>3
  <2>3. A \cap {} = {} /\ U \cap {"generated"} = {}
    OBVIOUS
  <2>4. /\ {"gdm"} \in SUBSET A /\ {"directories"} \in SUBSET A
        /\ {"generated"} \in SUBSET A /\ {"files"} \in SUBSET A
        /\ {"mode"} \in SUBSET A /\ {"auditd"} \in SUBSET A
        /\ {"mode"} \in SUBSET U
    OBVIOUS
  <2>5. {"policy"} \in Paid(E, {"policy"}, {}) /\ "policy" \in Names
    <3>1. {"policy"} \subseteq Accounted(E, {"policy"}, 1)
      BY <1>3
    <3> QED
      BY <3>1 DEF Paid, Names
  <2> HIDE DEF A, U, G
  <2>6. SUBSET A \subseteq Paid(E, {}, {}) /\ SUBSET U \subseteq Free({"generated"})
    BY <2>1, <2>2, <2>3 DEF Paid, Free
  <2>7. /\ Does({"gdm"}) \in G /\ Does({"directories"}) \in G /\ Does({"generated"}) \in G
        /\ Does({"files"}) \in G /\ Does({"mode"}) \in G /\ Does({"auditd"}) \in G
    BY <2>4, <2>6, DoesGood DEF G
  <2>8. /\ Flagged({"policy"}, "policy") \in G
    BY <2>5, FlaggedGood DEF G
  <2>9. /\ Tests \in G
    BY TestsGood DEF G
  <2>10. /\ Undoes({"mode"}) \in G
    BY <2>4, <2>6, UndoesGood DEF G
  <2> QED
    BY <2>7, <2>8, <2>9, <2>10
       DEF CallbacksSetup, CallbacksRelabel, CallbacksTests
<1>5. /\ E.steps \in Seq(G)
      /\ \A i \in DOMAIN CallbacksSetup : i \in DOMAIN E.steps /\ E.steps[i] = CallbacksSetup[i]
  <2> HIDE DEF G
  <2>1. /\ CallbacksSetup \o CallbacksRelabel \in Seq(G)
        /\ \A i \in DOMAIN CallbacksSetup : i \in DOMAIN (CallbacksSetup \o CallbacksRelabel)
             /\ (CallbacksSetup \o CallbacksRelabel)[i] = CallbacksSetup[i]
    BY <1>4, InOrder
  <2> QED
    BY <1>1, <1>4, <2>1, InOrder
<1>s. /\ 1 .. 3 \subseteq DOMAIN E.steps
      /\ E.steps[1] = Does({"gdm"}) /\ E.steps[2] = Does({"directories"})
      /\ E.steps[3] = Does({"generated"})
  <2>1. /\ 1 .. 3 \subseteq DOMAIN CallbacksSetup
        /\ CallbacksSetup[1] = Does({"gdm"}) /\ CallbacksSetup[2] = Does({"directories"})
        /\ CallbacksSetup[3] = Does({"generated"})
    BY DEF CallbacksSetup
  <2> HIDE DEF G
  <2> QED
    BY <1>5, <2>1
<1>6. E.steps \in Seq(StepRecords) /\ \A i \in DOMAIN E.steps : E.steps[i] \in G
  BY <1>5, StepsAreSteps
<1>7. E \in ExerciseRecords
  <2>1. E.needs \in SUBSET Names /\ E.saves \in SUBSET Names
        /\ E.checks \in SUBSET Names /\ E.forgets \in SUBSET Names
    BY <1>1 DEF Names, CallbacksNeeds, CallbacksSaves
  <2>2. E.before \in Nat /\ E.rows \in Seq(RowRecords)
    BY <1>1, CallbacksRowList
  <2> QED
    BY <1>1, <1>6, <2>1, <2>2 DEF ExerciseRecords
<1>8. AccountsFor(E)
  <2>3. \A i \in DOMAIN E.rows : E.rows[i].does \subseteq Accounted(E, {}, i + 1)
    <3>1. \A i \in DOMAIN E.rows : E.rows[i].does = {}
      BY <1>2 DEF RowWith
    <3> QED
      BY <3>1
  <2>4. "mode" \in E.needs \cup E.forgets \cup E.checks
    BY <1>1 DEF CallbacksNeeds
  <2> QED
    BY <1>6, <2>3, <2>4, Sound
<1>9. Guards(E, "files", "generated")
  <2>1. "generated" \in E.needs
    BY <1>1 DEF CallbacksNeeds
  <2>a1. Touches(E, 1) = {"gdm"}
    BY <1>s, DoesTouches
  <2>a2. Touches(E, 2) = {"directories"}
    BY <1>s, DoesTouches
  <2>a3. Touches(E, 3) = {"generated"}
    BY <1>s, DoesTouches
  <2>2. \A i \in 1 .. 3 : "files" \notin Touches(E, i)
    BY <2>a1, <2>a2, <2>a3
  <2>3. "generated" \in E.steps[3].does /\ E.steps[3].within = {}
    <3>1. E.steps[3] = Does({"generated"})
      BY <1>s
    <3> QED
      BY <3>1, DoesTouches
  <2>4. E.rows[5].when = "always" /\ "files" \in E.rows[5].undoes
    BY <1>2 DEF RowWith
  <2>7. \A j \in DOMAIN E.rows : "files" \notin E.rows[j].does
    BY <1>2 DEF RowWith
  <2>8. \A j \in 1 .. 5 : "generated" \notin E.rows[j].undoes
    BY <1>2 DEF RowWith
  <2>5. 3 \in (Nat \ {0}) \cap DOMAIN E.steps /\ 5 \in (Nat \ {0}) \cap DOMAIN E.rows
    BY <1>2, <1>s
  <2>6. "generated" \in {"generated"}
    OBVIOUS
  <2> QED
    BY <1>6, <2>6, <2>1, <2>2, <2>3, <2>4, <2>5, <2>7, <2>8, BracketGuards
<1> QED
  BY <1>1, <1>2, <1>s, <1>7, <1>8, <1>9

\* The session exercise is sound.
LEMMA SessionTable ==
  ASSUME NEW E, E = Exercises.session
  PROVE  /\ E \in ExerciseRecords /\ AccountsFor(E)
         /\ 1 \in DOMAIN E.steps /\ 1 \in DOMAIN E.rows
         /\ Guards(E, "files", "generated")
         /\ E.saves = SessionSaves /\ E.needs = SessionNeeds
<1> DEFINE G == GoodSteps(E, {"generated"}, {})
<1>1. /\ E = [needs |-> E.needs, saves |-> E.saves, steps |-> E.steps, before |-> E.before,
              rows |-> E.rows, checks |-> E.checks, forgets |-> E.forgets]
      /\ E.needs = SessionNeeds /\ E.saves = SessionSaves /\ E.before = 1 /\ E.rows = SessionRows
      /\ E.checks = {} /\ E.forgets = {"gdm", "mode"}
      /\ E.steps = SessionSetup \o SessionRelabel \o SessionTests
  BY DEF Exercises, Exercise
<1>2. /\ DOMAIN E.rows = 1 .. 8
      /\ RowWith(E.rows[1], {}, "always", {})
      /\ RowWith(E.rows[2], {"managers"}, "always", {})
      /\ RowWith(E.rows[3], {"mode"}, "always", {})
      /\ RowWith(E.rows[4], {"auditd"}, "always", {})
      /\ RowWith(E.rows[5], {"files"}, "always", {})
      /\ RowWith(E.rows[6], {"generated"}, "always", {})
      /\ RowWith(E.rows[7], {"directories"}, "always", {})
      /\ RowWith(E.rows[8], {"policy"}, "policy", {})
  BY <1>1, SessionRowList
<1>3. /\ E.checks \cup E.forgets \subseteq Accounted(E, {}, 1)
      /\ {"managers"} \subseteq Accounted(E, {}, 1)
      /\ {"mode"} \subseteq Accounted(E, {}, 1)
      /\ {"auditd"} \subseteq Accounted(E, {}, 1)
      /\ {"files"} \subseteq Accounted(E, {}, 1)
      /\ {"generated"} \subseteq Accounted(E, {}, 1)
      /\ {"directories"} \subseteq Accounted(E, {}, 1)
      /\ {"policy"} \subseteq Accounted(E, {"policy"}, 1)
  BY <1>2, RowPaysAlways, RowPaysFlag DEF RowWith, Accounted
<1>4. SessionSetup \in Seq(G) /\ SessionRelabel \in Seq(G) /\ SessionTests \in Seq(G)
  <2> DEFINE A == {"gdm", "directories", "generated", "files", "mode", "auditd", "managers"}
             U == {"mode"}
  <2>1. A \subseteq Names /\ U \subseteq Names
    BY DEF Names
  <2>2. A \subseteq Accounted(E, {}, 1)
    BY <1>1, <1>3
  <2>3. A \cap {} = {} /\ U \cap {"generated"} = {}
    OBVIOUS
  <2>4. /\ {"gdm"} \in SUBSET A /\ {"directories"} \in SUBSET A
        /\ {"generated"} \in SUBSET A /\ {"files"} \in SUBSET A
        /\ {"mode"} \in SUBSET A /\ {"auditd"} \in SUBSET A
        /\ {"managers"} \in SUBSET A
        /\ {"mode"} \in SUBSET U
    OBVIOUS
  <2>5. {"policy"} \in Paid(E, {"policy"}, {}) /\ "policy" \in Names
    <3>1. {"policy"} \subseteq Accounted(E, {"policy"}, 1)
      BY <1>3
    <3> QED
      BY <3>1 DEF Paid, Names
  <2> HIDE DEF A, U, G
  <2>6. SUBSET A \subseteq Paid(E, {}, {}) /\ SUBSET U \subseteq Free({"generated"})
    BY <2>1, <2>2, <2>3 DEF Paid, Free
  <2>7. /\ Does({"gdm"}) \in G /\ Does({"directories"}) \in G /\ Does({"generated"}) \in G
        /\ Does({"files"}) \in G /\ Does({"mode"}) \in G /\ Does({"auditd"}) \in G
        /\ Does({"managers"}) \in G
    BY <2>4, <2>6, DoesGood DEF G
  <2>8. /\ Flagged({"policy"}, "policy") \in G
    BY <2>5, FlaggedGood DEF G
  <2>9. /\ Tests \in G
    BY TestsGood DEF G
  <2>10. /\ Undoes({"mode"}) \in G
    BY <2>4, <2>6, UndoesGood DEF G
  <2> QED
    BY <2>7, <2>8, <2>9, <2>10
       DEF SessionSetup, SessionRelabel, SessionTests
<1>5. /\ E.steps \in Seq(G)
      /\ \A i \in DOMAIN SessionSetup : i \in DOMAIN E.steps /\ E.steps[i] = SessionSetup[i]
  <2> HIDE DEF G
  <2>1. /\ SessionSetup \o SessionRelabel \in Seq(G)
        /\ \A i \in DOMAIN SessionSetup : i \in DOMAIN (SessionSetup \o SessionRelabel)
             /\ (SessionSetup \o SessionRelabel)[i] = SessionSetup[i]
    BY <1>4, InOrder
  <2> QED
    BY <1>1, <1>4, <2>1, InOrder
<1>s. /\ 1 .. 3 \subseteq DOMAIN E.steps
      /\ E.steps[1] = Does({"gdm"}) /\ E.steps[2] = Does({"directories"})
      /\ E.steps[3] = Does({"generated"})
  <2>1. /\ 1 .. 3 \subseteq DOMAIN SessionSetup
        /\ SessionSetup[1] = Does({"gdm"}) /\ SessionSetup[2] = Does({"directories"})
        /\ SessionSetup[3] = Does({"generated"})
    BY DEF SessionSetup
  <2> HIDE DEF G
  <2> QED
    BY <1>5, <2>1
<1>6. E.steps \in Seq(StepRecords) /\ \A i \in DOMAIN E.steps : E.steps[i] \in G
  BY <1>5, StepsAreSteps
<1>7. E \in ExerciseRecords
  <2>1. E.needs \in SUBSET Names /\ E.saves \in SUBSET Names
        /\ E.checks \in SUBSET Names /\ E.forgets \in SUBSET Names
    BY <1>1 DEF Names, SessionNeeds, SessionSaves
  <2>2. E.before \in Nat /\ E.rows \in Seq(RowRecords)
    BY <1>1, SessionRowList
  <2> QED
    BY <1>1, <1>6, <2>1, <2>2 DEF ExerciseRecords
<1>8. AccountsFor(E)
  <2>3. \A i \in DOMAIN E.rows : E.rows[i].does \subseteq Accounted(E, {}, i + 1)
    <3>1. \A i \in DOMAIN E.rows : E.rows[i].does = {}
      BY <1>2 DEF RowWith
    <3> QED
      BY <3>1
  <2>4. "mode" \in E.needs \cup E.forgets \cup E.checks
    BY <1>1 DEF SessionNeeds
  <2> QED
    BY <1>6, <2>3, <2>4, Sound
<1>9. Guards(E, "files", "generated")
  <2>1. "generated" \in E.needs
    BY <1>1 DEF SessionNeeds
  <2>a1. Touches(E, 1) = {"gdm"}
    BY <1>s, DoesTouches
  <2>a2. Touches(E, 2) = {"directories"}
    BY <1>s, DoesTouches
  <2>a3. Touches(E, 3) = {"generated"}
    BY <1>s, DoesTouches
  <2>2. \A i \in 1 .. 3 : "files" \notin Touches(E, i)
    BY <2>a1, <2>a2, <2>a3
  <2>3. "generated" \in E.steps[3].does /\ E.steps[3].within = {}
    <3>1. E.steps[3] = Does({"generated"})
      BY <1>s
    <3> QED
      BY <3>1, DoesTouches
  <2>4. E.rows[5].when = "always" /\ "files" \in E.rows[5].undoes
    BY <1>2 DEF RowWith
  <2>7. \A j \in DOMAIN E.rows : "files" \notin E.rows[j].does
    BY <1>2 DEF RowWith
  <2>8. \A j \in 1 .. 5 : "generated" \notin E.rows[j].undoes
    BY <1>2 DEF RowWith
  <2>5. 3 \in (Nat \ {0}) \cap DOMAIN E.steps /\ 5 \in (Nat \ {0}) \cap DOMAIN E.rows
    BY <1>2, <1>s
  <2>6. "generated" \in {"generated"}
    OBVIOUS
  <2> QED
    BY <1>6, <2>6, <2>1, <2>2, <2>3, <2>4, <2>5, <2>7, <2>8, BracketGuards
<1> QED
  BY <1>1, <1>2, <1>s, <1>7, <1>8, <1>9

----------------------------------------------------------------------------
(* The families.                                                           *)

\* The parental exercises' originals, and what marks them.
LEMMA ParentalFamily == MarksKept({"transitions", "password", "gdm", "systemd"})
<1> DEFINE fam == {"transitions", "password", "gdm", "systemd"}
<1>1. Saved(fam) = {"files", "label", "shadow"}
  <2>1. /\ Exercises.transitions.saves = {} /\ Exercises.password.saves = PasswordSaves
        /\ Exercises.gdm.saves = GdmSaves /\ Exercises.systemd.saves = {"files"}
    BY TransitionsTable, PasswordTable, GdmTable, SystemdTable
  <2> QED
    BY <2>1 DEF Saved, PasswordSaves, GdmSaves
<1>2. Mark(fam, "files") = "module" /\ Mark(fam, "label") = "module" /\ Mark(fam, "shadow") = "backup"
  BY DEF Mark
<1>3. "module" \notin Volatile /\ "backup" \notin Volatile
  BY DEF Volatile
<1>4. ASSUME NEW e \in fam
      PROVE  /\ Guards(Exercises[e], "files", "module") /\ Guards(Exercises[e], "label", "module")
             /\ Guards(Exercises[e], "shadow", "backup")
  BY TransitionsTable, PasswordTable, GdmTable, SystemdTable
<1>5. ASSUME NEW e \in fam, NEW x \in Exercises[e].saves PROVE Mark(fam, x) \in Exercises[e].needs
  <2>1. e = "transitions" => Exercises[e].saves = {}
    BY TransitionsTable
  <2>2. e = "password" => /\ Exercises[e].saves = {"files", "label", "shadow"}
                          /\ {"module", "backup"} \subseteq Exercises[e].needs
    BY PasswordTable DEF PasswordSaves, PasswordNeeds
  <2>3. e = "gdm" => Exercises[e].saves = {"files", "label"} /\ "module" \in Exercises[e].needs
    BY GdmTable DEF GdmSaves, GdmNeeds
  <2>4. e = "systemd" => Exercises[e].saves = {"files"} /\ "module" \in Exercises[e].needs
    BY SystemdTable DEF SystemdNeeds
  <2> HIDE DEF fam
  <2>5. e \in {"transitions", "password", "gdm", "systemd"}
    BY DEF fam
  <2> QED
    BY <1>2, <1>5, <2>1, <2>2, <2>3, <2>4, <2>5
<1> HIDE DEF fam
<1>6. MarksKept(fam)
  BY <1>1, <1>2, <1>3, <1>4, <1>5 DEF MarksKept
<1> QED
  BY <1>6 DEF fam

\* The identity exercise, the mode of the machine.
LEMMA IdentityFamily == MarksKept({"identity"})
<1>1. Exercises.identity.saves = {"mode"} /\ "module" \in Exercises.identity.needs
  BY IdentityTable DEF IdentityNeeds
<1>2. Saved({"identity"}) = {"mode"}
  BY <1>1 DEF Saved
<1>3. Mark({"identity"}, "mode") = "module" /\ "module" \notin Volatile
  BY DEF Mark, Volatile
<1> QED
  BY <1>1, <1>2, <1>3, IdentityTable DEF MarksKept

\* The login exercise has no originals.
LEMMA EntriesFamily == MarksKept({"entries"})
<1>1. Saved({"entries"}) = {}
  BY EntriesTable DEF Saved
<1> QED
  BY <1>1 DEF MarksKept

\* The launchers, the session files.
LEMMA LauncherFamily == MarksKept({"callbacks", "session"})
<1> DEFINE fam == {"callbacks", "session"}
<1>1. /\ Exercises.callbacks.saves = {"files"} /\ "generated" \in Exercises.callbacks.needs
      /\ Exercises.session.saves = {"files"} /\ "generated" \in Exercises.session.needs
  BY CallbacksTable, SessionTable DEF CallbacksSaves, CallbacksNeeds, SessionSaves,
     SessionNeeds
<1>2. Saved(fam) = {"files"}
  BY <1>1 DEF Saved
<1>3. Mark(fam, "files") = "generated" /\ "generated" \notin Volatile
  BY DEF Mark, Volatile
<1>4. ASSUME NEW e \in fam
      PROVE  Guards(Exercises[e], "files", "generated") /\ "generated" \in Exercises[e].needs
  BY <1>1, CallbacksTable, SessionTable
<1> HIDE DEF fam
<1>5. MarksKept(fam)
  BY <1>2, <1>3, <1>4 DEF MarksKept
<1> QED
  BY <1>5 DEF fam

\* The tables of the code are what the proofs above ask of tables.
LEMMA TablesAreGood == GoodTables
<1>1. DOMAIN Exercises = {"transitions", "password", "gdm", "systemd", "identity", "entries",
                          "callbacks", "session"}
  BY DEF Exercises
<1>2. DOMAIN Exercises \subseteq Names /\ \A fam \in Families : fam \subseteq DOMAIN Exercises
  BY <1>1 DEF Names, Families
<1>3. ASSUME NEW e \in DOMAIN Exercises
      PROVE  /\ Exercises[e] \in ExerciseRecords /\ AccountsFor(Exercises[e])
             /\ 1 \in DOMAIN Exercises[e].steps /\ 1 \in DOMAIN Exercises[e].rows
  <2>1. CASE e \in {"transitions", "password", "gdm", "systemd"}
    BY <2>1, TransitionsTable, PasswordTable, GdmTable, SystemdTable
  <2>2. CASE e \in {"identity", "entries", "callbacks", "session"}
    BY <2>2, IdentityTable, EntriesTable, CallbacksTable, SessionTable
  <2> QED
    BY <1>1, <2>1, <2>2
<1>4. ASSUME NEW fam \in Families PROVE MarksKept(fam)
  BY ParentalFamily, IdentityFamily, EntriesFamily, LauncherFamily DEF Families
<1> QED
  BY <1>2, <1>3, <1>4 DEF GoodTables

----------------------------------------------------------------------------
(* The theorems.                                                           *)

\* A machine that was handed over has run nothing.
LEMMA ExerciseStarts == VmInit => VmInv
<1> SUFFICES ASSUME VmInit PROVE VmInv
  OBVIOUS
<1>1. /\ {"", "mode"} \subseteq Names /\ {} \in SUBSET Names /\ {"mode"} \in SUBSET Names
      /\ "idle" \in Phases /\ 1 \in Nat /\ 0 \in Nat
  BY DEF Names, Phases
<1>2. /\ run = Resting /\ run.phase = "idle" /\ run.ok = TRUE /\ run.excused = {}
      /\ run.rowsOk = TRUE /\ ~Running
  BY DEF VmInit, Resting, Running
<1>3. run \in RunRecords
  BY <1>1 DEF VmInit, Resting, RunRecords
<1>4. family \in Families /\ machine = origin /\ origin \in SUBSET Names
      /\ warned = FALSE /\ runs = 0
  BY <1>1 DEF VmInit
<1>5. VmTypes
  BY <1>1, <1>2, <1>3, <1>4 DEF VmTypes
<1>6. DebtInv /\ PassedInv /\ FaultInv
  BY <1>2 DEF DebtInv, PassedInv, FaultInv
<1>7. MarkInv
  BY <1>2, <1>4 DEF MarkInv, Marked
<1> QED
  BY <1>5, <1>6, <1>7 DEF VmInv

\* A stuttering step.
LEMMA NothingHappens ==
  ASSUME UNCHANGED vmVars
  PROVE  /\ (VmTypes => VmTypes') /\ (DebtInv => DebtInv') /\ (PassedInv => PassedInv')
         /\ (FaultInv => FaultInv') /\ (MarkInv => MarkInv')
<1> USE DEF vmVars
<1>1. VmTypes => VmTypes'
  BY DEF VmTypes, Running, It, Now
<1>2. DebtInv => DebtInv'
  BY DEF DebtInv, Running, It
<1>3. PassedInv => PassedInv'
  BY DEF PassedInv, It, Left
<1>4. FaultInv => FaultInv'
  BY DEF FaultInv, Running
<1>5. MarkInv => MarkInv'
  BY DEF MarkInv, Running, It
<1> QED
  BY <1>1, <1>2, <1>3, <1>4, <1>5

(* The inductive invariant of the exercises: as long as no row of the      *)
(* cleanup has failed, what differs from what was found is accounted for   *)
(* by the rows still to come, and an original is altered under the mark    *)
(* that stops the next exercise.                                           *)
THEOREM ExerciseInvariance == ExerciseSpec => []VmInv
<1>1. VmInit => VmInv
  BY ExerciseStarts
<1>2. VmInv /\ [VmNext]_vmVars => VmInv'
  <2>1. ASSUME VmInv, VmNext PROVE VmInv'
    BY <2>1, TablesAreGood, VmTypesNext, DebtNext, PassedNext, FaultNext, MarkNext DEF VmInv
  <2>2. ASSUME VmInv, UNCHANGED vmVars PROVE VmInv'
    BY <2>2, NothingHappens DEF VmInv
  <2> QED
    BY <2>1, <2>2
<1> QED
  BY <1>1, <1>2, PTL DEF ExerciseSpec

(* A report that calls the machine clean is true, whatever failed before   *)
(* it and however many exercises ran on the machine (the finally clauses   *)
(* of the eight exercise programs against all their steps).                *)
THEOREM CleanReportHolds == ExerciseSpec => []CleanReportIsTrue
<1>1. VmInv => CleanReportIsTrue
  BY DEF VmInv, PassedInv, CleanReportIsTrue
<1> QED
  BY <1>1, ExerciseInvariance, PTL

(* No exercise remembers an altered file, label or password as the         *)
(* machine's own, unless somebody was told that the machine is not clean   *)
(* (the assertions at the start of the exercises against the order in      *)
(* which their cleanups remove what they assert to be absent).             *)
THEOREM OriginalsStayPristine == ExerciseSpec => []OriginalsArePristine
<1>1. VmInv => OriginalsArePristine
  <2> SUFFICES ASSUME VmInv, Running, ~warned,
                      NEW x \in (run.found \ origin) \cap It.saves
               PROVE  FALSE
    BY DEF OriginalsArePristine
  <2>1. run.name \in family
    BY DEF VmInv, VmTypes
  <2>2. x \in Saved(family)
    BY <2>1 DEF Saved, It
  <2>3. WorkOf(It, x, Mark(family, x), run, machine, origin)
    BY <2>2 DEF VmInv, MarkInv
  <2> QED
    BY <2>3 DEF WorkOf
<1> QED
  BY <1>1, ExerciseInvariance, PTL
============================================================================
