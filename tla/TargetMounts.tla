---------------------------- MODULE TargetMounts ----------------------------
(***************************************************************************)
(* The mount table under the installer's two roots (/run/lyra-installer/    *)
(* target and staging) through successive runs of the service, each of      *)
(* which may fail, be cancelled, leave mounts behind or die.  The           *)
(* operations are those of service/operations that mount, unmount or need   *)
(* the table to be in some state; the others are steps of the run that      *)
(* leave the table alone.  `execute` (modelled by InstallEngine) drives     *)
(* them and unwinds.                                                       *)
(*                                                                         *)
(* The kernel's part: a mount hides what was mounted earlier at its point   *)
(* and below; umount detaches the mount a path shows and refuses while     *)
(* another hangs on it.                                                    *)
(***************************************************************************)
EXTENDS Naturals, Sequences, FiniteSets, FiniteSetsExt

CONSTANTS
  Disks,
  MaxRuns,    \* bound on the runs of the service
  MaxFaults   \* bound on the commands that fail although they could succeed

ASSUME BoundAssumption == MaxRuns \in Nat /\ MaxFaults \in Nat

\* The mount points a path leads through, its own included.  One of the
\* twenty-odd subvolumes stands for all: none is inside another.
PathTo ==
  [p \in {"/", "/home", "/boot/efi", "/sys", "/run", "/run/udev",
          "efivars", "staging"} |->
     CASE p \in {"/", "staging"} -> {p}
       [] p = "/run/udev" -> {"/", "/run", p}
       [] p = "efivars" -> {"/", "/sys", p}
       [] OTHER -> {"/", p}]

Points == DOMAIN PathTo

\* Path components below /run/lyra-installer.
Depth(p) == CASE p \in {"/", "staging"} -> 1
              [] p \in {"/boot/efi", "/run/udev"} -> 3
              [] p = "efivars" -> 5
              [] OTHER -> 2

\* What is mounted where: partitions of the chosen disk, or nobody's disk.
OnDisk == {"/", "/home", "/boot/efi", "staging"}

\* Mutant: the subvolumes in the order of the plan, not by depth.
StepsUnsorted ==
  <<"release", "partition", "subvolumes", "/home", "/", "/boot/efi",
    "extract", "/sys", "/run", "/run/udev", "bootloader", "finish">>

\* The operations of one run, in order; "extract" stands for every operation
\* that mounts nothing, "/sys" for /proc and /dev too.
Steps ==
  <<"release", "partition", "subvolumes", "/", "/home", "/boot/efi",
    "extract", "/sys", "/run", "/run/udev", "bootloader", "finish">>

VARIABLES
  mounts,    \* the table: [id, point, source, run]; ids are times of mounting
  phase,     \* "idle", "work", "unwind", "over"
  disks,     \* the disk of each run so far
  at,        \* index into Steps
  todo,      \* mount points ReleaseDisk has still to release
  inner,     \* what the operation is in the middle of: the temporary mount it
             \* holds inside its perform, or "release"
  acquired,  \* mount points of the completed operations, in order
  leaked,    \* those whose undo failed
  cause,     \* why the loop ended: "none", "failed", "cancelled"
  verdict,   \* of this run; "lost" when the service died
  faults     \* injected so far

vars == <<mounts, phase, disks, at, todo, inner, acquired, leaked, cause,
          verdict, faults>>

NoDisk == "no disk"

run == Len(disks)
disk == IF disks = << >> THEN NoDisk ELSE disks[run]

Init ==
  /\ mounts = {}
  /\ phase = "idle"
  /\ disks = << >>
  /\ at = 1
  /\ todo = {}
  /\ inner = "none"
  /\ acquired = << >>
  /\ leaked = {}
  /\ cause = "none"
  /\ verdict = "none"
  /\ faults = 0

-----------------------------------------------------------------------------
(* The kernel's mount table.                                               *)

\* What the path of p shows (at most one mount): nothing mounted later on the
\* way hides it.
Shown(p) ==
  {m \in mounts : /\ m.point = p
                  /\ \A c \in mounts : c.point \in PathTo[p] => c.id <= m.id}

\* The path of c led through a when c was mounted.  Whatever has hidden a since
\* then cannot have been detached before c, so it is still in the table.
HangsOn(c, a) ==
  /\ a.id < c.id
  /\ a.point \in PathTo[c.point]
  /\ ~\E x \in mounts : /\ a.id < x.id /\ x.id < c.id
                        /\ x.point \in PathTo[a.point] \ {a.point}

Source(p) == IF p \in OnDisk THEN disk ELSE "kernel"

Mounted(p) ==
  mounts \union {[id |-> Max({m.id : m \in mounts} \union {0}) + 1,
                  point |-> p, source |-> Source(p), run |-> run]}

Busy(m) == \E c \in mounts : HangsOn(c, m)

\* umount p, successful.
Umount(p) ==
  \E m \in Shown(p) : ~Busy(m) /\ mounts' = mounts \ {m}

\* umount p cannot succeed.
CannotUmount(p) == \A m \in Shown(p) : Busy(m)

\* m and everything that hangs on it.
Tree(m) == {m} \union {c \in mounts : HangsOn(c, m)}

\* umount -R p, successful.
UmountTree(p) ==
  \E m \in Shown(p) : mounts' = mounts \ Tree(m)

\* umount -R p, stopped on its way up.
UmountSome(p) ==
  \E m \in Shown(p), left \in SUBSET mounts :
    /\ mounts \ Tree(m) \subseteq left /\ m \in left
    /\ \A x \in left, y \in mounts : HangsOn(x, y) => y \in left
    /\ mounts' = left

InUse(d) == \E m \in mounts : m.source = d

Fault == faults < MaxFaults /\ faults' = faults + 1

-----------------------------------------------------------------------------
(* A run.                                                                  *)

\* Discovery, translation and revalidation have succeeded: ReleaseDisk gets
\* the mount points lsblk lists for the partitions of the chosen disk.
Launch ==
  /\ phase \in {"idle", "over"}
  /\ run < MaxRuns
  /\ \E d \in Disks :
       /\ disks' = Append(disks, d)
       /\ todo' = {m.point : m \in {x \in mounts : x.source = d}}
       /\ at' = IF todo' = {} THEN 2 ELSE 1
  /\ phase' = "work"
  /\ inner' = "none"
  /\ acquired' = << >>
  /\ leaked' = {}
  /\ cause' = "none"
  /\ verdict' = "none"
  /\ UNCHANGED <<mounts, faults>>

Working(step) == phase = "work" /\ Steps[at] = step

\* perform returned Ok.
Done == at' = at + 1 /\ UNCHANGED <<phase, cause>>

\* perform returned Err: execute leaves the loop and unwinds.
Failed == phase' = "unwind" /\ cause' = "failed" /\ UNCHANGED at

fixed == <<disks, leaked, verdict>>

\* Mutant: plain umount, without the mounts below.
ReleaseShallow ==
  /\ Working("release") /\ todo # {}
  /\ \E p \in todo :
       /\ \A q \in todo : Depth(q) <= Depth(p)
       /\ todo' = todo \ {p}
       /\ inner' = IF todo' = {} THEN "none" ELSE "release"
       /\ \/ Umount(p)
          \/ CannotUmount(p) /\ UNCHANGED mounts
  /\ UNCHANGED <<phase, at, cause, acquired, fixed, faults>>

\* ReleaseDisk: the deepest first, with everything below; the first failure
\* ends it.
Release ==
  /\ Working("release") /\ todo # {}
  /\ \E p \in todo :
       /\ \A q \in todo : Depth(q) <= Depth(p)
       /\ \/ /\ UmountTree(p)
             /\ todo' = todo \ {p}
             /\ inner' = IF todo' = {} THEN "none" ELSE "release"
             /\ UNCHANGED <<phase, at, cause, faults>>
          \/ /\ UmountSome(p) /\ Fault /\ Failed
             /\ inner' = "none"
             /\ UNCHANGED todo
          \/ /\ Shown(p) = {} /\ Failed
             /\ inner' = "none"
             /\ UNCHANGED <<todo, mounts, faults>>
  /\ UNCHANGED <<acquired, fixed>>

ReleaseDone ==
  /\ Working("release") /\ todo = {}
  /\ Done
  /\ UNCHANGED <<mounts, todo, inner, acquired, fixed, faults>>

\* CreatePartitionTable and the formats: wipefs refuses a disk in use.
Partition ==
  /\ Working("partition")
  /\ \/ ~InUse(disk) /\ Done /\ UNCHANGED faults
     \/ InUse(disk) /\ Failed /\ UNCHANGED faults
     \/ Failed /\ Fault
  /\ UNCHANGED <<mounts, todo, inner, acquired, fixed>>

\* Mutant: the failed operation is unwound as if it had completed.
MountStepPushed ==
  /\ phase = "work" /\ Steps[at] \in Points
  /\ acquired' = Append(acquired, Steps[at])
  /\ \/ /\ mounts' = Mounted(Steps[at])
        /\ Done /\ UNCHANGED faults
     \/ /\ Failed /\ Fault
        /\ UNCHANGED mounts
  /\ UNCHANGED <<todo, inner, fixed>>

\* MountSubvolume, MountEsp, BindMount, MountVirtualFs.  A command that fails
\* has mounted nothing.
MountStep ==
  /\ phase = "work" /\ Steps[at] \in Points
  /\ \/ /\ mounts' = Mounted(Steps[at])
        /\ acquired' = Append(acquired, Steps[at])
        /\ Done /\ UNCHANGED faults
     \/ /\ Failed /\ Fault
        /\ UNCHANGED <<mounts, acquired>>
  /\ UNCHANGED <<todo, inner, fixed>>

\* CreateSubvolumes and InstallBootloader mount something for themselves...
InnerPoint == [s \in {"subvolumes", "bootloader"} |->
                 IF s = "subvolumes" THEN "staging" ELSE "efivars"]

Inside(step) == Working(step) /\ inner = InnerPoint[step]

OpenInner ==
  /\ \E step \in DOMAIN InnerPoint :
       /\ Working(step) /\ inner = "none"
       /\ mounts' = Mounted(InnerPoint[step])
       /\ inner' = InnerPoint[step]
  /\ UNCHANGED <<phase, at, todo, acquired, cause, fixed, faults>>

\* ...or fail before that.  Without an efivarfs (or on a BIOS machine) the boot
\* loader is installed without mounting one.
NoInner ==
  /\ \E step \in DOMAIN InnerPoint :
       /\ Working(step) /\ inner = "none"
       /\ \/ Failed /\ Fault
          \/ step = "bootloader" /\ Done /\ UNCHANGED faults
  /\ UNCHANGED <<mounts, todo, inner, acquired, fixed>>

\* Whatever happened in between, they unmount it before they return, and a
\* umount that fails is a failure of the operation.
CloseInner ==
  /\ \E step \in DOMAIN InnerPoint :
       /\ Inside(step)
       /\ \/ Umount(inner) /\ Done /\ UNCHANGED faults
          \/ Umount(inner) /\ Failed /\ Fault
          \/ Failed /\ Fault /\ UNCHANGED mounts
  /\ inner' = "none"
  /\ UNCHANGED <<todo, acquired, fixed>>

\* Operations that write below the target root and mount nothing.
WriteTarget ==
  /\ \/ Working("extract") /\ Done /\ UNCHANGED faults
     \/ Working("extract") /\ Failed /\ Fault
  /\ UNCHANGED <<mounts, todo, inner, acquired, fixed>>

Finish ==
  /\ Working("finish")
  /\ phase' = "unwind"
  /\ UNCHANGED <<mounts, at, todo, inner, acquired, cause, fixed, faults>>

\* The checkpoint before an operation; a released disk is past the checkpoint
\* of ReleaseDisk.
Cancel ==
  /\ phase = "work" /\ inner = "none"
  /\ Steps[at] = "release" => todo # {}
  /\ phase' = "unwind"
  /\ cause' = "cancelled"
  /\ UNCHANGED <<mounts, at, todo, inner, acquired, fixed, faults>>

-----------------------------------------------------------------------------
(* unwind, and the end of a run.                                           *)

UndoOk ==
  /\ phase = "unwind" /\ acquired # << >>
  /\ Umount(acquired[Len(acquired)])
  /\ acquired' = SubSeq(acquired, 1, Len(acquired) - 1)
  /\ UNCHANGED <<phase, at, todo, inner, cause, fixed, faults>>

\* Mutant: the result of undo is dropped.
UndoErrSilent ==
  /\ phase = "unwind" /\ acquired # << >>
  /\ \/ CannotUmount(acquired[Len(acquired)]) /\ UNCHANGED faults
     \/ Fault
  /\ acquired' = SubSeq(acquired, 1, Len(acquired) - 1)
  /\ UNCHANGED <<mounts, phase, at, todo, inner, leaked, cause, disks,
                 verdict>>

\* Busy, for another mount of this run or for a process; the unwind goes on.
UndoErr ==
  /\ phase = "unwind" /\ acquired # << >>
  /\ LET p == acquired[Len(acquired)]
     IN /\ \/ CannotUmount(p) /\ UNCHANGED faults
           \/ ~CannotUmount(p) /\ Fault
        /\ leaked' = leaked \union {p}
  /\ acquired' = SubSeq(acquired, 1, Len(acquired) - 1)
  /\ UNCHANGED <<mounts, phase, at, todo, inner, cause, disks, verdict>>

\* Mutant: the error of an operation is dropped when the unwind is clean.
ConcludeClean ==
  /\ phase = "unwind" /\ acquired = << >>
  /\ phase' = "over"
  /\ verdict' = IF leaked # {} THEN "failed" ELSE "completed"
  /\ UNCHANGED <<mounts, disks, at, todo, inner, acquired, leaked, cause,
                 faults>>

Conclude ==
  /\ phase = "unwind" /\ acquired = << >>
  /\ phase' = "over"
  /\ verdict' = CASE cause = "failed" \/ leaked # {} -> "failed"
                  [] cause = "cancelled" /\ leaked = {} -> "cancelled"
                  [] OTHER -> "completed"
  /\ UNCHANGED <<mounts, disks, at, todo, inner, acquired, leaked, cause,
                 faults>>

\* The service dies; nothing is undone.
Die ==
  /\ phase \in {"work", "unwind"}
  /\ phase' = "over"
  /\ verdict' = "lost"
  /\ inner' = "none"
  /\ UNCHANGED <<mounts, disks, at, todo, acquired, leaked, cause, faults>>

Work == \/ Release \/ ReleaseDone \/ Partition \/ MountStep \/ OpenInner
        \/ NoInner \/ CloseInner \/ WriteTarget \/ Finish \/ Cancel

Next == Launch \/ Work \/ UndoOk \/ UndoErr \/ Conclude \/ Die

Spec == Init /\ [][Next]_vars

-----------------------------------------------------------------------------
(* Properties.                                                             *)

TypeOK ==
  /\ \A m \in mounts :
       /\ m.id \in Nat \ {0} /\ m.point \in Points /\ m.run \in 1..run
       /\ m.source \in Disks \union {"kernel"}
  /\ \A m, n \in mounts : m.id = n.id => m = n
  /\ phase \in {"idle", "work", "unwind", "over"}
  /\ disks \in Seq(Disks) /\ Len(disks) <= MaxRuns
  /\ at \in 1..Len(Steps)
  /\ todo \subseteq Points
  /\ inner \in {"none", "release", "staging", "efivars"}
  /\ acquired \in Seq(Points)
  /\ leaked \subseteq Points
  /\ cause \in {"none", "failed", "cancelled"}
  /\ verdict \in {"none", "completed", "failed", "cancelled", "lost"}
  /\ faults \in 0..MaxFaults

\* From the extraction of the root file system on, the paths the operations
\* write through lead to the disk of this run, whatever earlier runs have left
\* mounted below the same root (mount order of plan_to_operations).
WritesReachTarget ==
  phase = "work" /\ at > 6 =>
    \A p \in {"/", "/home", "/boot/efi"} :
      \E m \in Shown(p) : m.source = disk /\ m.run = run

\* A run that ends by itself and leaves a mount of its own has failed, the
\* mounts an operation makes inside its perform included.
LeftMountMeansFailed ==
  phase = "over" /\ verdict # "lost" /\ (\E m \in mounts : m.run = run) =>
    verdict = "failed"

\* The unwind detaches what its own run has attached and nothing else.
UnwindsOwnMounts ==
  [][phase = "unwind" => \A m \in mounts \ mounts' : m.run = run]_vars

\* No run was started on another disk.
OneDiskOnly == \A i \in DOMAIN disks : disks[i] = disk

\* Once ReleaseDisk has succeeded the chosen disk is free, also when an earlier
\* run on it died at any point: CreatePartitionTable does not find it in use.
ReleasedBeforeWipe == OneDiskOnly /\ Working("partition") => ~InUse(disk)

\* After a successful run nothing is mounted at the target or below it
\* (engine.rs:102: the unwind "is also what leaves the target cleanly unmounted
\* after a *successful* run").
CompletedIsUnmounted ==
  phase = "over" /\ verdict = "completed" => \A m \in mounts : m.point = "staging"

\* For a user who stays with one disk nothing is mounted at all then, whatever
\* became of the earlier runs on it.
RetryIsUnmounted ==
  OneDiskOnly /\ phase = "over" /\ verdict = "completed" => mounts = {}
=============================================================================
