-------------------------- MODULE VmFixtureTables --------------------------
(***************************************************************************)
(* What the recoverable exercises of the parental VM change, and which of  *)
(* it their snapshot calls and their copies of recover() name.  Each of    *)
(* them is the one before it with more of the desktop under the policy.    *)
(*                                                                         *)
(* A thing is a part of the machine that is saved and put back together:   *)
(* originals (packaged files: bytes, labels, owners, times), generated     *)
(* files, directories made for them, the policy module, GDM's              *)
(* configuration, files and attributes of the account's caches, a          *)
(* generated tree; and the services, the mode, the audit settings and the  *)
(* runtime directory, which a power loss resets.                           *)
(***************************************************************************)
EXTENDS Sequences

Persistent == {"originals", "generated", "directories", "policy", "gdm-config",
               "cache-files", "cache-labels", "trees"}

\* A step is the set of things it changes; a test changes none.
Test == {}

\* The steps of recover(): things put back, or what else is done.
Undo(things) == [kind |-> "undo", things |-> things]
Other(kind) == [kind |-> kind, things |-> {}]

\* What snapshot() refuses to start with, and what recover() resets on any
\* manifest.
RefusedBySnapshot == {"policy", "mode", "gdm", "manager", "audit", "trees"}
AlwaysReset == {"policy", "mode", "gdm", "manager", "audit", "localed"}
\* What keeps a directory of the fixture from being removed.
InDirectories == {"generated", "cache-files"}

\* session.py: GDM's configuration, enforcing mode, the services; and its
\* finally clause, which leaves the runtime directory to logind.
DesktopStarts == {"gdm-config", "mode", "gdm", "manager", "runtime"}
DesktopStops == {"gdm-config", "mode", "gdm", "manager"}

----------------------------------------------------------------------------
(* The copies of recover().                                                *)
XwaylandRecovery ==
  <<Undo({"gdm", "manager"}), Undo({"mode"}), Undo({"audit"}),
    Undo({"originals", "generated", "gdm-config"}), Undo({"directories"}), Undo({"policy"}),
    Other("await"), Other("unlink"), Other("syncdir")>>

\* With systemd-localed and the font cache.
InputRecovery ==
  <<Undo({"gdm", "manager", "localed"}), Undo({"mode"}), Undo({"audit"}),
    Undo({"cache-files"}), Undo({"originals", "generated", "gdm-config"}),
    Undo({"directories"}), Undo({"cache-labels"}), Undo({"policy"}),
    Other("await"), Other("unlink"), Other("syncdir")>>

SessionRecoverySyncsLate ==  \* mutant: os.sync after the marker is gone
  <<Undo({"gdm", "manager", "localed"}), Undo({"mode"}), Undo({"audit"}), Undo({"trees"}),
    Undo({"cache-files"}), Undo({"originals", "generated", "gdm-config"}),
    Undo({"directories"}), Undo({"cache-labels"}), Undo({"policy"}),
    Other("await"), Other("unlink"), Other("sync"), Other("syncdir")>>
SessionRecoveryLeavesLocaled ==  \* mutant: the services of the older copies only
  <<Undo({"gdm", "manager"}), Undo({"mode"}), Undo({"audit"}), Undo({"trees"}),
    Undo({"cache-files"}), Undo({"originals", "generated", "gdm-config"}),
    Undo({"directories"}), Undo({"cache-labels"}), Undo({"policy"}),
    Other("await"), Other("sync"), Other("unlink"), Other("syncdir")>>
SessionRecoveryDirectoriesFirst ==  \* mutant: directories before the files in them
  <<Undo({"gdm", "manager", "localed"}), Undo({"mode"}), Undo({"audit"}), Undo({"trees"}),
    Undo({"directories"}), Undo({"cache-files"}),
    Undo({"originals", "generated", "gdm-config"}), Undo({"cache-labels"}), Undo({"policy"}),
    Other("await"), Other("sync"), Other("unlink"), Other("syncdir")>>

\* With generated trees, a wait for logind, and os.sync before the marker goes.
SessionRecovery ==
  <<Undo({"gdm", "manager", "localed"}), Undo({"mode"}), Undo({"audit"}), Undo({"trees"}),
    Undo({"cache-files"}), Undo({"originals", "generated", "gdm-config"}),
    Undo({"directories"}), Undo({"cache-labels"}), Undo({"policy"}),
    Other("await"), Other("sync"), Other("unlink"), Other("syncdir")>>

\* Copies of the session's, byte for byte.
HelpersRecovery == SessionRecovery
ShortcutsRecovery == SessionRecovery

----------------------------------------------------------------------------
XwaylandNeeds == {"generated"}
XwaylandSaves == {"originals", "generated", "directories", "gdm-config"}
XwaylandBuild == <<{"directories"}, {"generated"}>>
XwaylandPolicy == <<{"policy"}>>
XwaylandRelabel == <<{"originals"}>>
XwaylandEnforced == <<{"audit"}, {"mode"}, Test>>
XwaylandDesktop == {}

GnomeNeeds == {"generated"}
GnomeSaves == {"originals", "generated", "directories", "gdm-config"}
GnomeBuild == <<{"directories"}, {"generated"}>>
GnomePolicy == <<{"policy"}>>
GnomeRelabel == <<{"originals"}>>
GnomeEnforced == <<{"audit"}, {"mode"}, Test>>
GnomeDesktop == {}

\* The account's dconf directory must be absent; its files are generated.
DconfNeeds == {"generated", "directories"}
DconfSaves == {"originals", "generated", "directories", "gdm-config"}
DconfBuild == <<{"directories"}, {"generated"}>>
DconfPolicy == <<{"policy"}>>
DconfRelabel == <<{"originals"}>>
DconfEnforced == <<{"audit"}, {"mode"}, Test>>
DconfDesktop == {"generated"}

A11yNeeds == {"generated", "directories"}
A11ySaves == {"originals", "generated", "directories", "gdm-config"}
A11yBuild == <<{"directories"}, {"generated"}>>
A11yPolicy == <<{"policy"}>>
A11yRelabel == <<{"originals"}>>
A11yEnforced == <<{"audit"}, {"mode"}, Test>>
A11yDesktop == {"generated"}

\* The keyboard configuration restarts systemd-localed; the font cache is
\* relabelled and grows.
InputNeeds == {"generated", "directories"}
InputSaves == {"originals", "generated", "directories", "gdm-config", "cache-files",
               "cache-labels"}
InputBuild == <<{"directories"}, {"generated", "localed"}>>
InputPolicy == <<{"policy"}>>
InputRelabel == <<{"originals", "cache-labels"}>>
InputEnforced == <<{"audit"}, {"mode"}, Test>>
InputDesktop == {"generated", "cache-files"}

\* Data directories of WirePlumber and the portals, and the search cache.
SessionFixtureNeeds == {"generated", "directories"}
SessionFixtureSaves == {"originals", "generated", "directories", "gdm-config", "cache-files",
                        "cache-labels", "trees"}
SessionFixtureBuild ==
  <<{"directories"}, {"generated", "cache-labels"}, {"localed"}, {"originals"}>>
SessionFixturePolicy == <<{"policy"}>>
SessionFixtureRelabel == <<{"originals", "cache-labels"}>>
SessionFixtureEnforced == <<{"audit"}, {"mode"}, Test>>
SessionFixtureDesktop == {"generated", "cache-files", "trees"}

HelpersNeeds == {"generated", "directories"}
HelpersSaves == {"originals", "generated", "directories", "gdm-config", "cache-files",
                 "cache-labels", "trees"}
HelpersBuild ==
  <<{"directories"}, {"generated", "originals"}, {"cache-labels"}, {"localed"}>>
HelpersPolicy == <<{"policy"}>>
HelpersBoundaries == <<Test>>
HelpersRelabel == <<{"originals", "cache-labels"}>>
HelpersEnforced == <<{"audit"}, {"mode"}, Test>>
HelpersDesktop == {"generated", "cache-files", "trees"}

ShortcutsNeeds == {"generated", "directories"}
ShortcutsSaves == {"originals", "generated", "directories", "gdm-config", "cache-files",
                   "cache-labels", "trees"}
ShortcutsBuild ==
  <<{"directories"}, {"originals"}, {"generated", "cache-labels"}, {"localed"}>>
ShortcutsPolicy == <<{"policy"}>>
ShortcutsBoundaries == <<Test>>
ShortcutsRelabel == <<{"originals", "cache-labels"}>>
ShortcutsEnforced == <<{"audit"}, {"mode"}, Test>>
ShortcutsDesktop == {"generated", "cache-files", "trees"}

----------------------------------------------------------------------------
Fixture(needs, saves, steps, desktop, recovery) ==
  [needs |-> needs, saves |-> saves, steps |-> steps, desktop |-> desktop,
   recovery |-> recovery]

XwaylandFixture ==
  Fixture(XwaylandNeeds, XwaylandSaves,
          XwaylandBuild \o XwaylandPolicy \o XwaylandRelabel \o XwaylandEnforced,
          XwaylandDesktop, XwaylandRecovery)
GnomeFixture ==
  Fixture(GnomeNeeds, GnomeSaves, GnomeBuild \o GnomePolicy \o GnomeRelabel \o GnomeEnforced,
          GnomeDesktop, XwaylandRecovery)
DconfFixture ==
  Fixture(DconfNeeds, DconfSaves, DconfBuild \o DconfPolicy \o DconfRelabel \o DconfEnforced,
          DconfDesktop, XwaylandRecovery)
A11yFixture ==
  Fixture(A11yNeeds, A11ySaves, A11yBuild \o A11yPolicy \o A11yRelabel \o A11yEnforced,
          A11yDesktop, XwaylandRecovery)
InputFixture ==
  Fixture(InputNeeds, InputSaves,
          InputBuild \o InputPolicy \o InputRelabel \o InputEnforced,
          InputDesktop, InputRecovery)
SessionFixture ==
  Fixture(SessionFixtureNeeds, SessionFixtureSaves,
          SessionFixtureBuild \o SessionFixturePolicy \o SessionFixtureRelabel
            \o SessionFixtureEnforced,
          SessionFixtureDesktop, SessionRecovery)
HelpersFixture ==
  Fixture(HelpersNeeds, HelpersSaves,
          HelpersBuild \o HelpersPolicy \o HelpersBoundaries \o HelpersRelabel
            \o HelpersEnforced,
          HelpersDesktop, HelpersRecovery)
ShortcutsFixture ==
  Fixture(ShortcutsNeeds, ShortcutsSaves,
          ShortcutsBuild \o ShortcutsPolicy \o ShortcutsBoundaries \o ShortcutsRelabel
            \o ShortcutsEnforced,
          ShortcutsDesktop, ShortcutsRecovery)

Fixtures ==
  [xwayland |-> XwaylandFixture, gnome |-> GnomeFixture, dconf |-> DconfFixture,
   a11y |-> A11yFixture, input |-> InputFixture, session |-> SessionFixture,
   helpers |-> HelpersFixture, shortcuts |-> ShortcutsFixture]
============================================================================
