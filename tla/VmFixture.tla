---------------------------- MODULE VmFixture ----------------------------
(***************************************************************************)
(* The recoverable fixture of the parental VM (fixture_recovery.py): the   *)
(* exercises of parental-xwayland, -gnome-services, -dconf, -a11y, -input, *)
(* -session, -helpers and -shortcuts save what they will change, leave a   *)
(* durable marker (active.json), change the machine and run a desktop      *)
(* session on it; recover() puts everything back and removes the marker.   *)
(* It is called by the exercise's finally clause, by ExecStopPost and by   *)
(* hand, one at a time under a lock.  Any command may fail, any process be *)
(* killed, and the machine may lose power with every change that was not   *)
(* synced written or not, thing by thing.                                  *)
(***************************************************************************)
EXTENDS VmFixtureTables, Naturals, FiniteSets

CONSTANTS MaxExercises,   \* bound: exercises started on the machine
          MaxTroubles     \* bound: failures, kills and power losses together

ASSUME FixtureAssumption == MaxExercises \in Nat /\ MaxTroubles \in Nat

VARIABLES
  fixture,      \* the exercise this machine is used for
  live,         \* what is altered now
  unsynced,     \* whose last change may not have reached the disk
  marker,       \* "none", "renamed", "present", "unlinked": active.json
  pending,      \* pending.json exists
  exercise,     \* "idle", a step of snapshot(), "steps", "desktop", "finally", "ended"
  at,           \* the next step of the exercise
  recovery,     \* [by, at]: who recovers, and its next step
  restored,     \* the last recover() returned restored
  powerLost,    \* the power was lost once
  started, troubles

fixtureVars == <<fixture, live, unsynced, marker, pending, exercise, at, recovery,
                 restored, powerLost, started, troubles>>

Nobody == [by |-> "nobody", at |-> 1]
My == Fixtures[fixture]
MarkerExists == marker \in {"renamed", "present"}
LockFree == recovery.by = "nobody" /\ exercise \notin {"lock", "pending", "rename"}

FixtureInit ==
  /\ fixture \in DOMAIN Fixtures
  /\ live = {} /\ unsynced = {} /\ marker = "none" /\ pending = FALSE
  /\ exercise = "idle" /\ at = 1 /\ recovery = Nobody
  /\ restored = FALSE /\ powerLost = FALSE /\ started = 0 /\ troubles = 0

Alter(things) ==
  /\ live' = live \cup things
  /\ unsynced' = unsynced \cup (things \cap Persistent)
PutThingsBack(things) ==
  /\ live' = live \ things
  /\ unsynced' = unsynced \cup (things \cap live \cap Persistent)
Keep == UNCHANGED <<live, unsynced>>
KeepMarker == UNCHANGED <<marker, pending>>
Trouble == troubles < MaxTroubles /\ troubles' = troubles + 1

----------------------------------------------------------------------------
(* snapshot()                                                              *)
StartExercise ==
  /\ exercise \in {"idle", "ended"} /\ started < MaxExercises
  /\ My.needs \cap live = {}
  /\ exercise' = "lock" /\ started' = started + 1 /\ restored' = FALSE
  /\ LockFree
  /\ Keep /\ KeepMarker /\ UNCHANGED <<fixture, at, recovery, powerLost, troubles>>

\* Under the lock: no recovery is due, no fixture is loaded, nothing of it
\* runs; then every file is saved beside its hash and synced.
SnapshotRefused == MarkerExists \/ live \cap (My.needs \cup RefusedBySnapshot) # {}

SaveOriginals ==
  /\ exercise = "lock"
  /\ exercise' = IF SnapshotRefused THEN "ended" ELSE "pending"
  /\ Keep /\ KeepMarker
  /\ UNCHANGED <<fixture, at, recovery, restored, powerLost, started, troubles>>

\* pending.json is opened exclusively: one that a crash left refuses it.
WritePending ==
  /\ exercise = "pending"
  /\ exercise' = IF pending THEN "ended" ELSE "rename"
  /\ pending' = TRUE
  /\ Keep /\ UNCHANGED <<fixture, marker, at, recovery, restored, powerLost, started, troubles>>

ReplaceActive ==
  /\ exercise = "rename" /\ pending
  /\ marker' = "renamed" /\ pending' = FALSE
  /\ Keep
  /\ UNCHANGED <<fixture, exercise, at, recovery, restored, powerLost, started, troubles>>

SyncMarker ==
  /\ exercise = "rename" /\ marker = "renamed"
  /\ marker' = "present" /\ exercise' = "steps" /\ at' = 1
  /\ Keep
  /\ UNCHANGED <<fixture, pending, recovery, restored, powerLost, started, troubles>>

\* A failing or killed snapshot ends the exercise where it is.
SnapshotFails ==
  /\ exercise \in {"lock", "pending", "rename"} /\ Trouble
  /\ exercise' = "ended"
  /\ Keep /\ KeepMarker /\ UNCHANGED <<fixture, at, recovery, restored, powerLost, started>>

----------------------------------------------------------------------------
(* The exercise, between its snapshot and its finally clause.              *)
NextStep ==
  IF at < Len(My.steps) THEN at' = at + 1 /\ UNCHANGED exercise
  ELSE exercise' = "desktop" /\ UNCHANGED at

DoStep ==
  /\ exercise = "steps"
  /\ Alter(My.steps[at]) /\ NextStep
  /\ KeepMarker /\ UNCHANGED <<fixture, recovery, restored, powerLost, started, troubles>>

\* The native session: setenforce 0 before it, then its own configuration
\* of GDM, enforcing mode, and what the session itself writes.
StartDesktop ==
  /\ exercise = "desktop" /\ "gdm" \notin live
  /\ Alter(DesktopStarts \cup My.desktop)
  /\ KeepMarker
  /\ UNCHANGED <<fixture, exercise, at, recovery, restored, powerLost, started, troubles>>

\* session.py's finally clause checks no exit code, so any of it may be
\* left, and a timeout kills session.py before it; a configuration left
\* behind raises.
EndDesktop ==
  /\ exercise = "desktop" /\ "gdm" \in live
  /\ \E left \in SUBSET DesktopStops :
       /\ PutThingsBack(DesktopStops \ left)
       /\ IF left = {} THEN UNCHANGED troubles ELSE Trouble
  /\ exercise' = "finally"
  /\ KeepMarker /\ UNCHANGED <<fixture, at, recovery, restored, powerLost, started>>

\* A command fails with all of its effect or none, and raises.
StepRaises ==
  /\ exercise \in {"steps", "desktop"} /\ Trouble
  /\ Keep \/ (exercise = "steps" /\ Alter(My.steps[at]))
  /\ exercise' = "finally"
  /\ KeepMarker /\ UNCHANGED <<fixture, at, recovery, restored, powerLost, started>>

\* RuntimeMaxSec, SIGTERM and SIGKILL end it without its finally clause.
KillExercise ==
  /\ exercise \in {"steps", "desktop", "finally"} /\ recovery.by # "exercise" /\ Trouble
  /\ exercise' = "ended"
  /\ Keep /\ KeepMarker /\ UNCHANGED <<fixture, at, recovery, restored, powerLost, started>>

\* logind removes the runtime directory some time after the manager ended.
LogindCleans ==
  /\ "runtime" \in live /\ "manager" \notin live
  /\ live' = live \ {"runtime"}
  /\ KeepMarker
  /\ UNCHANGED <<fixture, unsynced, exercise, at, recovery, restored, powerLost, started,
                 troubles>>

----------------------------------------------------------------------------
(* recover()                                                               *)
EndOfExercise == IF recovery.by = "exercise" THEN "ended" ELSE exercise

\* by: the finally clause, or ExecStopPost or the operator, who do not
\* recover under an exercise that is at work.
StartRecovery(by) ==
  /\ LockFree
  /\ by = "exercise" => exercise = "finally"
  /\ by = "other" => exercise \in {"idle", "finally", "ended"}
  /\ IF MarkerExists
       THEN recovery' = [by |-> by, at |-> 1] /\ UNCHANGED <<exercise, restored>>
       ELSE /\ restored' = TRUE /\ UNCHANGED recovery
            /\ exercise' = IF by = "exercise" THEN "ended" ELSE exercise
  /\ Keep /\ KeepMarker /\ UNCHANGED <<fixture, at, powerLost, started, troubles>>

GoOn == recovery' = [recovery EXCEPT !.at = @ + 1]
This == My.recovery[recovery.at]
\* What the manifest names, and what every recovery resets.
Undone == This.things \cap (My.saves \cup AlwaysReset)

UndoThings ==
  /\ recovery.by # "nobody" /\ This.kind = "undo"
  /\ "directories" \in This.things => live \cap InDirectories = {}
  /\ PutThingsBack(Undone) /\ GoOn
  /\ KeepMarker
  /\ UNCHANGED <<fixture, exercise, at, restored, powerLost, started, troubles>>

\* The runtime directory is gone, after a wait in the later copies.
AssertRuntimeGone ==
  /\ recovery.by # "nobody" /\ This.kind = "await" /\ "runtime" \notin live
  /\ GoOn
  /\ Keep /\ KeepMarker
  /\ UNCHANGED <<fixture, exercise, at, restored, powerLost, started, troubles>>

SyncEverything ==
  /\ recovery.by # "nobody" /\ This.kind = "sync"
  /\ unsynced' = {} /\ GoOn
  /\ KeepMarker
  /\ UNCHANGED <<fixture, live, exercise, at, restored, powerLost, started, troubles>>

UnlinkMarker ==
  /\ recovery.by # "nobody" /\ This.kind = "unlink"
  /\ marker' = "unlinked" /\ GoOn
  /\ Keep
  /\ UNCHANGED <<fixture, pending, exercise, at, restored, powerLost, started, troubles>>

SyncUnlinked ==
  /\ recovery.by # "nobody" /\ This.kind = "syncdir"
  /\ marker' = "none" /\ restored' = TRUE
  /\ recovery' = Nobody /\ exercise' = EndOfExercise
  /\ Keep /\ UNCHANGED <<fixture, pending, at, powerLost, started, troubles>>

\* A step fails or its process is killed, before its effect or after it.
RecoveryFails ==
  /\ recovery.by # "nobody" /\ Trouble
  /\ Keep \/ (This.kind = "undo" /\ PutThingsBack(Undone))
  /\ recovery' = Nobody /\ exercise' = EndOfExercise
  /\ KeepMarker /\ UNCHANGED <<fixture, at, restored, powerLost, started>>

\* Its assertion fails without anybody's fault: the directory is there yet,
\* or a directory is not empty.
RecoveryRefuses ==
  /\ recovery.by # "nobody"
  /\ \/ This.kind = "await" /\ "runtime" \in live
     \/ "directories" \in This.things /\ live \cap InDirectories # {}
  /\ recovery' = Nobody /\ exercise' = EndOfExercise
  /\ Keep /\ KeepMarker
  /\ UNCHANGED <<fixture, at, restored, powerLost, started, troubles>>

----------------------------------------------------------------------------
\* Power loss: what was not synced is on the disk or is not, each for itself.
LosePower ==
  /\ Trouble
  /\ \E kept \in SUBSET unsynced :
       live' = ((live \cap Persistent) \ unsynced) \cup kept
  /\ unsynced' = {}
  /\ marker' \in CASE marker = "renamed" -> {"none", "present"}
                  [] marker = "unlinked" -> {"none", "present"}
                  [] OTHER -> {marker}
  /\ pending' \in IF marker = "renamed" /\ marker' = "none" THEN BOOLEAN
                  ELSE IF pending THEN BOOLEAN ELSE {FALSE}
  /\ exercise' = IF exercise = "idle" THEN "idle" ELSE "ended"
  /\ recovery' = Nobody /\ restored' = FALSE /\ powerLost' = TRUE
  /\ UNCHANGED <<fixture, at, started>>

Snapshot == SaveOriginals \/ WritePending \/ ReplaceActive \/ SyncMarker \/ SnapshotFails
Work == DoStep \/ StartDesktop \/ EndDesktop \/ StepRaises \/ KillExercise
RecoveryStep ==
  \/ UndoThings \/ AssertRuntimeGone \/ SyncEverything \/ UnlinkMarker \/ SyncUnlinked
  \/ RecoveryRefuses

FixtureNext ==
  \/ StartExercise \/ Snapshot \/ Work \/ LogindCleans
  \/ \E by \in {"exercise", "other"} : StartRecovery(by)
  \/ RecoveryStep \/ RecoveryFails \/ LosePower

\* The exercise goes on, somebody recovers while a marker is left, logind
\* cleans up.
FixtureFairness ==
  /\ WF_fixtureVars(Snapshot \/ DoStep \/ StartDesktop \/ EndDesktop)
  /\ WF_fixtureVars(\E by \in {"exercise", "other"} : StartRecovery(by))
  /\ WF_fixtureVars(RecoveryStep) /\ WF_fixtureVars(LogindCleans)

----------------------------------------------------------------------------
Durable == \E i \in DOMAIN My.recovery : My.recovery[i].kind = "sync"
Quiet == exercise \in {"idle", "ended"} /\ recovery.by = "nobody"

(* Who finds no marker finds the machine's own files: nothing of a fixture *)
(* is on the disk without a marker that says so, whatever failed, was      *)
(* killed or lost power where (fixture_recovery.py:131-133 of the snapshot *)
(* and :225-231 of the recovery).  The copies without os.sync promise it   *)
(* only while the power stays on.                                          *)
NoMarkerNoRemains ==
  Quiet /\ ~MarkerExists /\ (Durable \/ ~powerLost) => live \cap Persistent = {}

(* A recover() that says restored has undone all of it: every file, label, *)
(* directory, cache, tree and policy module its exercise changed, and the  *)
(* services, the audit settings, the SELinux mode and the runtime          *)
(* directory (each exercise's steps and session against its snapshot call  *)
(* and the copy of recover() beside it).                                   *)
RestoredIsWhole ==
  restored /\ Quiet /\ (Durable \/ ~powerLost) => live = {}

(* A recovery that is repeated after it failed, was killed or lost power   *)
(* at any of its steps gets to its end once the trouble is over: it leaves *)
(* nothing behind on which a later one stops for good.                     *)
RecoveryEnds == MarkerExists ~> ~MarkerExists
==========================================================================
