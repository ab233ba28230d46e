------------------------- MODULE TargetMountsProofs -------------------------
(***************************************************************************)
(* Proofs about TargetMounts, for any disks, any number of runs and any     *)
(* number of failing commands.                                             *)
(***************************************************************************)
EXTENDS TargetMounts, SequenceTheorems, WellFoundedInduction, TLAPS

-----------------------------------------------------------------------------
(* The mount points and the order of the operations.                       *)

\* The paths, written out.
LEMMA Paths ==
  /\ Points = {"/", "/home", "/boot/efi", "/sys", "/run", "/run/udev", "efivars", "staging"}
  /\ PathTo["/"] = {"/"} /\ PathTo["staging"] = {"staging"}
  /\ PathTo["/home"] = {"/", "/home"} /\ PathTo["/boot/efi"] = {"/", "/boot/efi"}
  /\ PathTo["/sys"] = {"/", "/sys"} /\ PathTo["/run"] = {"/", "/run"}
  /\ PathTo["/run/udev"] = {"/", "/run", "/run/udev"}
  /\ PathTo["efivars"] = {"/", "/sys", "efivars"}
  BY DEF Points, PathTo

\* The operations, written out.
LEMMA Sequence ==
  /\ Len(Steps) = 12 /\ DOMAIN Steps = 1 .. 12
  /\ Steps[1] = "release" /\ Steps[2] = "partition" /\ Steps[3] = "subvolumes"
  /\ Steps[4] = "/" /\ Steps[5] = "/home" /\ Steps[6] = "/boot/efi"
  /\ Steps[7] = "extract" /\ Steps[8] = "/sys" /\ Steps[9] = "/run"
  /\ Steps[10] = "/run/udev" /\ Steps[11] = "bootloader" /\ Steps[12] = "finish"
  BY DEF Steps

\* What mounts something for itself, and where.
LEMMA InnerPoints ==
  /\ DOMAIN InnerPoint = {"subvolumes", "bootloader"}
  /\ InnerPoint["subvolumes"] = "staging" /\ InnerPoint["bootloader"] = "efivars"
  BY DEF InnerPoint

\* A path leads through its own point.
LEMMA PathOwn ==
  ASSUME NEW p \in Points
  PROVE  p \in PathTo[p] /\ PathTo[p] \subseteq Points
  BY Paths

\* What is above a point on the way is on the way.
LEMMA PathTransitive ==
  ASSUME NEW p \in Points, NEW q \in PathTo[p]
  PROVE  PathTo[q] \subseteq PathTo[p]
  BY Paths

\* No two points are below each other.
LEMMA PathAntisymmetric ==
  ASSUME NEW p \in Points, NEW q \in PathTo[p], p \in PathTo[q]
  PROVE  p = q
  BY Paths

-----------------------------------------------------------------------------
(* The mount table.                                                        *)

MountTyping ==
  /\ \A m \in mounts :
       /\ m.id \in Nat \ {0} /\ m.point \in Points /\ m.run \in 1..run
       /\ m.source \in Disks \union {"kernel"}
  /\ \A m, n \in mounts : m.id = n.id => m = n
  /\ disks \in Seq(Disks)

\* The ids are bounded, so that there is a next one.
Bounded == \E b \in Nat : \A m \in mounts : m.id <= b

\* A mount below another point hangs on a mount there.
Rooted ==
  \A c \in mounts : \A q \in PathTo[c.point] \ {c.point} :
    \E r \in mounts : r.point = q /\ HangsOn(c, r)

\* A step that detaches mounts leaves nothing hanging on what it has detached.
Detaching ==
  /\ mounts' \subseteq mounts
  /\ \A c \in mounts', a \in mounts : HangsOn(c, a) => a \in mounts'

\* n is the mount a step has made at p.
Attaching(n, p) ==
  /\ mounts' = mounts \union {n}
  /\ n.id \in Nat \ {0} /\ n.point = p /\ n.source = Source(p) /\ n.run = run
  /\ \A m \in mounts : m.id < n.id

\* A bounded set of numbers has a largest one.
LEMMA MaxIsLargest ==
  ASSUME NEW S \in SUBSET Nat, S # {}, NEW b \in Nat, \A x \in S : x <= b
  PROVE  Max(S) \in S /\ \A x \in S : x <= Max(S)
  <1> DEFINE T == {b - i : i \in S}
             R == OpToRel(<, Nat)
  <1>2. T \subseteq Nat /\ T # {} OBVIOUS
  <1>3. PICK x \in T : \A y \in T : ~(<<y, x>> \in R)
    BY <1>2, NatLessThanWellFounded, WFMin
  <1>4. PICK i \in S : x = b - i OBVIOUS
  <1>5. ASSUME NEW j \in S PROVE i >= j
    <2>1. b - j \in T OBVIOUS
    <2>2. ~(<<b - j, x>> \in R) BY <2>1, <1>3
    <2>3. ~(b - j < x) BY <2>1, <2>2, <1>2 DEF OpToRel
    <2>4. QED BY <2>3, <1>4
  <1>6. Max(S) \in S /\ \A y \in S : Max(S) >= y BY <1>5 DEF Max
  <1>7. QED BY <1>6

\* mount adds one mount, younger than all others.
LEMMA MountAttaches ==
  ASSUME MountTyping, Bounded, NEW p \in Points, mounts' = Mounted(p)
  PROVE  \E n : Attaching(n, p)
  <1> DEFINE S == {m.id : m \in mounts} \union {0}
             n == [id |-> Max(S) + 1, point |-> p, source |-> Source(p), run |-> run]
  <1>1. S \subseteq Nat /\ 0 \in S /\ \A m \in mounts : m.id \in S BY DEF MountTyping
  <1>2. PICK b \in Nat : \A x \in S : x <= b BY DEF Bounded
  <1> HIDE DEF S
  <1>3. Max(S) \in S /\ \A x \in S : x <= Max(S) BY <1>1, <1>2, MaxIsLargest
  <1>4. Max(S) \in Nat BY <1>1, <1>3
  <1>5. \A m \in mounts : m.id < Max(S) + 1
    <2> SUFFICES ASSUME NEW m \in mounts PROVE m.id < Max(S) + 1 OBVIOUS
    <2>1. m.id \in Nat /\ m.id <= Max(S) BY <1>1, <1>3
    <2>2. QED BY <2>1, <1>4
  <1>6. mounts' = mounts \union {n} BY DEF Mounted, S
  <1>7. /\ n.id = Max(S) + 1 /\ n.point = p /\ n.source = Source(p) /\ n.run = run
    OBVIOUS
  <1> HIDE DEF n
  <1>8. Attaching(n, p) BY <1>4, <1>5, <1>6, <1>7 DEF Attaching
  <1>9. QED BY <1>8

\* A new mount is what its path shows, and every path that does not lead through
\* its point shows what it has shown.
LEMMA AttachShows ==
  ASSUME MountTyping, NEW p \in Points, NEW n, Attaching(n, p)
  PROVE  /\ n \in Shown(p)'
         /\ \A q \in Points : p \notin PathTo[q] => Shown(q) \subseteq Shown(q)'
  <1>1. n \in Shown(p)'
    <2>1. \A c \in mounts' : c.id <= n.id BY DEF Attaching, MountTyping
    <2>2. QED BY <2>1 DEF Shown, Attaching
  <1>2. ASSUME NEW q \in Points, p \notin PathTo[q], NEW m \in Shown(q)
        PROVE  m \in Shown(q)'
    <2>1. m \in mounts' BY DEF Shown, Attaching
    <2>2. \A c \in mounts' : c.point \in PathTo[q] => c.id <= m.id
      BY <1>2 DEF Shown, Attaching
    <2>3. m.point = q BY DEF Shown
    <2>4. QED BY <2>1, <2>2, <2>3 DEF Shown
  <1>3. QED BY <1>1, <1>2

\* Detaching a mount hides nothing.
LEMMA DetachShows ==
  ASSUME mounts' \subseteq mounts, NEW q, NEW m \in Shown(q), m \in mounts'
  PROVE  m \in Shown(q)'
  BY DEF Shown

\* What hangs on what hangs on a mount hangs on it.
LEMMA HangsOnTransitive ==
  ASSUME MountTyping,
         NEW a \in mounts, NEW r \in mounts, NEW c \in mounts,
         HangsOn(r, a), HangsOn(c, r)
  PROVE  HangsOn(c, a)
  <1>1. a.id < c.id BY DEF HangsOn, MountTyping
  <1>2. a.point \in PathTo[r.point] /\ r.point \in PathTo[c.point] BY DEF HangsOn
  <1>3. a.point \in Points /\ r.point \in Points /\ c.point \in Points BY DEF MountTyping
  <1>4. a.point \in PathTo[c.point] BY <1>2, <1>3, PathTransitive
  <1>5. ASSUME NEW x \in mounts, a.id < x.id, x.id < c.id,
               x.point \in PathTo[a.point], x.point # a.point
        PROVE  FALSE
    <2>1. ~(x.id < r.id) BY <1>5 DEF HangsOn
    <2>2. x.point \in PathTo[r.point] BY <1>2, <1>3, <1>5, PathTransitive
    <2>3. x.point # r.point BY <1>2, <1>3, <1>5, PathAntisymmetric
    <2>4. ~(r.id < x.id) BY <1>5, <2>2, <2>3 DEF HangsOn
    <2>5. x.id = r.id BY <2>1, <2>4 DEF MountTyping
    <2>6. x = r BY <2>5 DEF MountTyping
    <2>7. QED BY <2>3, <2>6
  <1>6. QED BY <1>1, <1>4, <1>5 DEF HangsOn

\* umount, umount -R and an umount -R that stops on its way up leave nothing
\* hanging in the air.
LEMMA UmountDetaches ==
  ASSUME MountTyping, NEW p, Umount(p) \/ UmountTree(p) \/ UmountSome(p)
  PROVE  Detaching
  <1>1. CASE Umount(p)
    <2>1. PICK m \in mounts : ~Busy(m) /\ mounts' = mounts \ {m} BY <1>1 DEF Umount, Shown
    <2>2. QED BY <2>1 DEF Detaching, Busy
  <1>2. CASE UmountTree(p)
    <2>1. PICK m \in mounts : mounts' = mounts \ Tree(m) BY <1>2 DEF UmountTree, Shown
    <2>2. ASSUME NEW c \in mounts', NEW a \in mounts, HangsOn(c, a), a \notin mounts'
          PROVE  FALSE
      <3>1. a \in Tree(m) /\ c \in mounts /\ c \notin Tree(m) BY <2>1, <2>2
      <3>2. CASE a = m BY <2>2, <3>1, <3>2 DEF Tree
      <3>3. CASE HangsOn(a, m)
        <4>1. HangsOn(c, m) BY <2>2, <3>1, <3>3, HangsOnTransitive
        <4>2. QED BY <3>1, <4>1 DEF Tree
      <3>4. QED BY <3>1, <3>2, <3>3 DEF Tree
    <2>3. QED BY <2>1, <2>2 DEF Detaching
  <1>3. CASE UmountSome(p)
    <2>1. PICK left \in SUBSET mounts :
            /\ \A x \in left, y \in mounts : HangsOn(x, y) => y \in left
            /\ mounts' = left
      BY <1>3 DEF UmountSome
    <2>2. QED BY <2>1 DEF Detaching
  <1>4. QED BY <1>1, <1>2, <1>3

\* A pair of mounts that hang together does so as long as both are there.
LEMMA DetachHangs ==
  ASSUME mounts' \subseteq mounts, NEW c, NEW a, HangsOn(c, a)
  PROVE  HangsOn(c, a)'
  BY DEF HangsOn

\* Detaching keeps the table rooted.
LEMMA DetachRooted ==
  ASSUME Rooted, Detaching
  PROVE  Rooted'
  <1> SUFFICES ASSUME NEW c \in mounts', NEW q \in PathTo[c.point] \ {c.point}
               PROVE  \E r \in mounts' : r.point = q /\ HangsOn(c, r)'
    BY DEF Rooted
  <1>1. PICK r \in mounts : r.point = q /\ HangsOn(c, r) BY DEF Rooted, Detaching
  <1>2. r \in mounts' BY <1>1 DEF Detaching
  <1>3. HangsOn(c, r)' BY <1>1, DetachHangs DEF Detaching
  <1>4. QED BY <1>1, <1>2, <1>3

\* A mount below points that show something is rooted.
LEMMA AttachRooted ==
  ASSUME MountTyping, Rooted, NEW p \in Points, NEW n, Attaching(n, p),
         \A q \in PathTo[p] \ {p} : Shown(q) # {}
  PROVE  Rooted'
  <1>1. n.id \in Nat /\ mounts' = mounts \union {n} /\ n.point = p
        /\ \A m \in mounts : m.id < n.id
    BY DEF Attaching
  <1>2. ASSUME NEW c \in mounts, NEW a \in mounts, HangsOn(c, a)
        PROVE  HangsOn(c, a)'
    <2>1. ~(n.id < c.id) BY <1>1 DEF MountTyping
    <2>2. QED BY <1>1, <1>2, <2>1 DEF HangsOn
  <1>3. ASSUME NEW q \in PathTo[p] \ {p} PROVE \E r \in mounts : r.point = q /\ HangsOn(n, r)'
    <2>1. PICK r \in Shown(q) : TRUE OBVIOUS
    <2>2. r \in mounts /\ r.point = q /\ \A x \in mounts : x.point \in PathTo[q] => x.id <= r.id
      BY DEF Shown
    <2>3. r.id < n.id BY <1>1, <2>2
    <2>4. ASSUME NEW x \in mounts', r.id < x.id, x.id < n.id, x.point \in PathTo[q]
          PROVE  FALSE
      <3>1. x \in mounts BY <1>1, <2>4
      <3>2. x.id <= r.id BY <2>2, <2>4, <3>1
      <3>3. x.id \in Nat /\ r.id \in Nat BY <2>2, <3>1 DEF MountTyping
      <3>4. QED BY <2>4, <3>2, <3>3
    <2>5. HangsOn(n, r)' BY <1>1, <2>2, <2>3, <2>4 DEF HangsOn
    <2>6. QED BY <2>2, <2>5
  <1>4. ASSUME NEW c \in mounts', NEW q \in PathTo[c.point] \ {c.point}
        PROVE  \E r \in mounts' : r.point = q /\ HangsOn(c, r)'
    <2>1. CASE c = n BY <1>1, <1>3, <2>1
    <2>2. CASE c \in mounts
      <3>1. PICK r \in mounts : r.point = q /\ HangsOn(c, r) BY <2>2 DEF Rooted
      <3>2. HangsOn(c, r)' BY <1>2, <2>2, <3>1
      <3>3. QED BY <1>1, <3>1, <3>2
    <2>3. QED BY <1>1, <2>1, <2>2
  <1>5. QED BY <1>4 DEF Rooted

-----------------------------------------------------------------------------
(* The inductive invariant.                                                *)

\* The points of the operations that completed and are still to be undone.
Held == {acquired[i] : i \in DOMAIN acquired}

ControlTyping ==
  /\ phase \in {"idle", "work", "unwind", "over"}
  /\ disks \in Seq(Disks) /\ Len(disks) <= MaxRuns
  /\ phase = "work" => disks # << >>
  /\ at \in 1..12
  /\ todo \subseteq Points
  /\ inner \in {"none", "release", "staging", "efivars"}
  /\ acquired \in Seq(Points)
  /\ leaked \subseteq Points
  /\ cause \in {"none", "failed", "cancelled"}
  /\ verdict \in {"none", "completed", "failed", "cancelled", "lost"}
  /\ faults \in 0..MaxFaults

\* Only an operation that is being performed is in the middle of something.
InnerInv ==
  inner # "none" =>
    /\ phase = "work"
    /\ \/ inner = "release" /\ Steps[at] = "release" /\ todo # {}
       \/ Steps[at] \in DOMAIN InnerPoint /\ inner = InnerPoint[Steps[at]]

\* While the run works, it holds the points of the operations behind it.
HeldInv ==
  phase = "work" =>
    \A p \in Points : p \in Held <=> \E i \in 1..12 : i < at /\ Steps[i] = p

\* No point is held twice.
DistinctInv == \A i, j \in DOMAIN acquired : acquired[i] = acquired[j] => i = j

\* The path of p shows a mount of this run.
OwnShown(p) == \E m \in Shown(p) : m.run = run /\ m.source = Source(p)

\* What the run holds is what the paths show.
ShownInv ==
  /\ phase \in {"work", "unwind"} => \A p \in Held : OwnShown(p)
  /\ inner \in {"staging", "efivars"} => OwnShown(inner)

\* A run has one mount at a point, and while it works or unwinds it knows of
\* every mount it has made.
OwnInv ==
  /\ \A m, n \in mounts : m.run = run /\ n.run = run /\ m.point = n.point => m = n
  /\ phase = "work" => \A m \in mounts : m.run = run => m.point \in Held \union {inner}
  /\ phase = "unwind" => \A m \in mounts : m.run = run =>
       m.point \in Held \union leaked \/ cause = "failed"

\* A run that has not failed before the disk was free has released it.
EndInv ==
  /\ phase = "unwind" /\ cause = "none" => at >= 2
  /\ phase = "over" /\ verdict = "completed" => at >= 2

\* On one disk the mounts of all runs never cover each other; ReleaseDisk knows
\* of all that are on the disk, and once it is done only this run has mounts.
OneDiskInv ==
  OneDiskOnly =>
    /\ \A m, n \in mounts : m.point = n.point => m = n
    /\ \A m \in mounts : m.point \in OnDisk => m.source = disk
    /\ phase = "work" /\ at = 1 => \A m \in mounts : m.source = disk => m.point \in todo
    /\ phase # "idle" /\ at >= 2 => \A m \in mounts : m.run = run

Control == ControlTyping /\ InnerInv /\ HeldInv /\ DistinctInv /\ EndInv

Table == MountTyping /\ Bounded /\ Rooted

Inv == /\ Control /\ Table
       /\ ShownInv /\ OwnInv /\ LeftMountMeansFailed /\ OneDiskInv

-----------------------------------------------------------------------------
(* Control.                                                                *)

\* The index of an operation.
LEMMA WhereAt ==
  ASSUME ControlTyping
  PROVE  /\ Working("release") => at = 1
         /\ Working("partition") => at = 2
         /\ Working("subvolumes") => at = 3
         /\ Working("extract") => at = 7
         /\ Working("bootloader") => at = 11
         /\ Working("finish") => at = 12
         /\ Steps[at] \in Points => at \in {4, 5, 6, 8, 9, 10}
         /\ Steps[at] \in DOMAIN InnerPoint => at \in {3, 11}
  <1>1. at \in {1, 2, 3, 4, 5, 6, 7, 8, 9, 10, 11, 12} BY DEF ControlTyping
  <1>2. QED BY <1>1, Sequence, Paths, InnerPoints DEF Working

\* Undoing takes the last point off.
LEMMA PopHeld ==
  ASSUME ControlTyping, DistinctInv, acquired # << >>,
         acquired' = SubSeq(acquired, 1, Len(acquired) - 1)
  PROVE  /\ acquired' \in Seq(Points) /\ DistinctInv'
         /\ acquired[Len(acquired)] \in Points
         /\ Held' = Held \ {acquired[Len(acquired)]}
         /\ Held = Held' \union {acquired[Len(acquired)]}
  <1> DEFINE n == Len(acquired)
  <1>1. acquired \in Seq(Points) /\ n \in Nat \ {0} /\ DOMAIN acquired = 1 .. n
    BY DEF ControlTyping
  <1>2. /\ acquired' \in Seq(Points) /\ DOMAIN acquired' = 1 .. n - 1
        /\ \A i \in 1 .. n - 1 : acquired'[i] = acquired[i]
    BY <1>1
  <1> HIDE DEF n
  <1>3. DistinctInv' BY <1>1, <1>2 DEF DistinctInv
  <1>4. acquired[n] \in Points BY <1>1
  <1>5. \A i \in 1 .. n - 1 : acquired[i] # acquired[n] /\ i \in 1 .. n /\ i # n
    BY <1>1 DEF DistinctInv
  <1>6. \A i \in 1 .. n : i = n \/ i \in 1 .. n - 1 BY <1>1
  <1>7. Held' = {acquired[i] : i \in 1 .. n - 1} BY <1>2 DEF Held
  <1>8. Held = {acquired[i] : i \in 1 .. n} BY <1>1 DEF Held
  <1>9. n \in 1 .. n BY <1>1
  <1>10. Held = Held' \union {acquired[n]} BY <1>5, <1>6, <1>7, <1>8, <1>9
  <1>11. acquired[n] \notin Held' BY <1>5, <1>7
  <1>12. QED BY <1>2, <1>3, <1>4, <1>10, <1>11 DEF n

\* A completed operation puts its point on.
LEMMA PushHeld ==
  ASSUME ControlTyping, DistinctInv, NEW p \in Points, p \notin Held,
         acquired' = Append(acquired, p)
  PROVE  /\ acquired' \in Seq(Points) /\ DistinctInv'
         /\ Held' = Held \union {p}
  <1> DEFINE n == Len(acquired)
  <1>1. acquired \in Seq(Points) /\ n \in Nat /\ DOMAIN acquired = 1 .. n
    BY DEF ControlTyping
  <1>2. /\ acquired' \in Seq(Points) /\ DOMAIN acquired' = 1 .. n + 1
        /\ \A i \in 1 .. n : acquired'[i] = acquired[i]
        /\ acquired'[n + 1] = p
    BY <1>1
  <1> HIDE DEF n
  <1>3. \A i \in 1 .. n + 1 : i \in 1 .. n \/ i = n + 1 BY <1>1
  <1>4. n + 1 \in 1 .. n + 1 /\ \A i \in 1 .. n : i \in 1 .. n + 1 BY <1>1
  <1>5. Held = {acquired[i] : i \in 1 .. n} BY <1>1 DEF Held
  <1>6. Held' = {acquired'[i] : i \in 1 .. n + 1} BY <1>2 DEF Held
  <1>7. Held' = Held \union {p} BY <1>2, <1>3, <1>4, <1>5, <1>6
  <1>8. DistinctInv' BY <1>1, <1>2, <1>3, <1>5 DEF DistinctInv
  <1>9. QED BY <1>2, <1>7, <1>8

\* An operation mounts below what the run holds, and above none of it (the mount
\* order of plan_to_operations).
LEMMA NextPoint ==
  ASSUME ControlTyping, HeldInv, phase = "work", NEW p,
         \/ Steps[at] \in Points /\ p = Steps[at]
         \/ Steps[at] \in DOMAIN InnerPoint /\ p = InnerPoint[Steps[at]]
  PROVE  /\ p \in Points
         /\ p \notin Held
         /\ PathTo[p] \ {p} \subseteq Held
         /\ \A q \in Held : p \notin PathTo[q]
  <1>1. at \in {3, 4, 5, 6, 8, 9, 10, 11} BY WhereAt
  <1>2. \A q \in Held : q \in Points BY DEF Held, ControlTyping
  <1>3. \A q \in Points : q \in Held <=> \E i \in 1..12 : i < at /\ Steps[i] = q BY DEF HeldInv
  <1>4. CASE at = 3
    <2>1. p = "staging" BY <1>4, Sequence, InnerPoints, Paths
    <2>2. Held = {} BY <1>2, <1>3, <1>4, Sequence, Paths
    <2>3. QED BY <2>1, <2>2, Paths
  <1>5. CASE at = 4
    <2>1. p = "/" BY <1>5, Sequence, InnerPoints, Paths
    <2>2. Held = {} BY <1>2, <1>3, <1>5, Sequence, Paths
    <2>3. QED BY <2>1, <2>2, Paths
  <1>6. CASE at = 5
    <2>1. p = "/home" BY <1>6, Sequence, InnerPoints, Paths
    <2>2. Held = {"/"} BY <1>2, <1>3, <1>6, Sequence, Paths
    <2>3. QED BY <2>1, <2>2, Paths
  <1>7. CASE at = 6
    <2>1. p = "/boot/efi" BY <1>7, Sequence, InnerPoints, Paths
    <2>2. Held = {"/", "/home"} BY <1>2, <1>3, <1>7, Sequence, Paths
    <2>3. QED BY <2>1, <2>2, Paths
  <1>8. CASE at = 8
    <2>1. p = "/sys" BY <1>8, Sequence, InnerPoints, Paths
    <2>2. Held = {"/", "/home", "/boot/efi"} BY <1>2, <1>3, <1>8, Sequence, Paths
    <2>3. QED BY <2>1, <2>2, Paths
  <1>9. CASE at = 9
    <2>1. p = "/run" BY <1>9, Sequence, InnerPoints, Paths
    <2>2. Held = {"/", "/home", "/boot/efi", "/sys"} BY <1>2, <1>3, <1>9, Sequence, Paths
    <2>3. QED BY <2>1, <2>2, Paths
  <1>10. CASE at = 10
    <2>1. p = "/run/udev" BY <1>10, Sequence, InnerPoints, Paths
    <2>2. Held = {"/", "/home", "/boot/efi", "/sys", "/run"}
      BY <1>2, <1>3, <1>10, Sequence, Paths
    <2>3. QED BY <2>1, <2>2, Paths
  <1>11. CASE at = 11
    <2>1. p = "efivars" BY <1>11, Sequence, InnerPoints, Paths
    <2>2. Held = {"/", "/home", "/boot/efi", "/sys", "/run", "/run/udev"}
      BY <1>2, <1>3, <1>11, Sequence, Paths
    <2>3. QED BY <2>1, <2>2, Paths
  <1>12. QED BY <1>1, <1>4, <1>5, <1>6, <1>7, <1>8, <1>9, <1>10, <1>11

-----------------------------------------------------------------------------
(* What a step can come to.                                                *)

Temporary == {"staging", "efivars"}

\* ReleaseDisk has released one more point.
Releases ==
  /\ phase = "work" /\ at = 1
  /\ \E p \in todo : UmountTree(p) /\ todo' = todo \ {p}
  /\ inner' = IF todo' = {} THEN "none" ELSE "release"
  /\ UNCHANGED <<phase, disks, at, acquired, leaked, cause, verdict>>

\* The operation has mounted something for itself.
Opens ==
  /\ phase = "work" /\ inner = "none"
  /\ Steps[at] \in DOMAIN InnerPoint
  /\ inner' = InnerPoint[Steps[at]]
  /\ mounts' = Mounted(InnerPoint[Steps[at]])
  /\ UNCHANGED <<phase, disks, at, todo, acquired, leaked, cause, verdict>>

\* An operation that leaves no mount behind has completed.
Passes ==
  /\ phase = "work" /\ at < 12 /\ Steps[at] \notin Points
  /\ at = 1 => todo = {}
  /\ at' = at + 1
  /\ \/ inner \notin Temporary /\ mounts' = mounts
     \/ inner \in Temporary /\ Umount(inner)
  /\ inner' = "none"
  /\ UNCHANGED <<phase, disks, todo, acquired, leaked, cause, verdict>>

\* An operation that mounts has completed.
Attaches ==
  /\ phase = "work" /\ Steps[at] \in Points
  /\ mounts' = Mounted(Steps[at])
  /\ at' = at + 1 /\ acquired' = Append(acquired, Steps[at])
  /\ inner = "none" /\ inner' = "none"
  /\ UNCHANGED <<phase, disks, todo, leaked, cause, verdict>>

\* An operation has mounted something at p.
AttachesAt(p) ==
  \/ Attaches /\ p = Steps[at]
  \/ Opens /\ p = InnerPoint[Steps[at]]

\* The loop has ended.
Leaves ==
  /\ phase = "work" /\ phase' = "unwind"
  /\ cause' \in {"none", "failed", "cancelled"}
  /\ cause' = "none" => at = 12
  /\ inner \in Temporary => cause' = "failed"
  /\ \/ mounts' = mounts
     \/ at = 1 /\ \E p \in todo : UmountSome(p)
     \/ inner \in Temporary /\ Umount(inner)
  /\ inner' = "none"
  /\ UNCHANGED <<disks, at, todo, acquired, leaked, verdict>>

\* One point has been undone or given up.
Undoes ==
  /\ phase = "unwind" /\ acquired # << >>
  /\ acquired' = SubSeq(acquired, 1, Len(acquired) - 1)
  /\ \/ Umount(acquired[Len(acquired)]) /\ leaked' = leaked
     \/ mounts' = mounts /\ leaked' = leaked \union {acquired[Len(acquired)]}
  /\ UNCHANGED <<phase, disks, at, todo, inner, cause, verdict>>

\* A command fails at most as often as the bound says.
LEMMA FaultBound ==
  ASSUME ControlTyping, Fault \/ UNCHANGED faults
  PROVE  faults' \in 0..MaxFaults
  BY BoundAssumption DEF ControlTyping, Fault

\* An operation that is not in the middle of something of its own.
LEMMA InnerWhere ==
  ASSUME Control, phase = "work"
  PROVE  /\ inner \in Temporary => Steps[at] \in DOMAIN InnerPoint
         /\ inner \in {"none", "release"} \union Temporary
         /\ Steps[at] \in Points => inner = "none"
         /\ Working("partition") \/ Working("extract") \/ Working("finish") => inner = "none"
         /\ \A s \in DOMAIN InnerPoint : inner = InnerPoint[s] /\ Steps[at] = s => inner \in Temporary
         /\ Steps[at] = "release" => inner \notin Temporary
  <1>1. at \in {1, 2, 3, 4, 5, 6, 7, 8, 9, 10, 11, 12} BY DEF Control, ControlTyping
  <1>2. inner \in {"none", "release"} \union Temporary
    BY DEF Control, ControlTyping, Temporary
  <1>3. inner \in Temporary => Steps[at] \in DOMAIN InnerPoint
    BY DEF Control, InnerInv, Temporary
  <1>4. Steps[at] \in Points => inner = "none"
    BY Paths, InnerPoints DEF Control, InnerInv
  <1>5. Working("partition") \/ Working("extract") \/ Working("finish") => inner = "none"
    BY InnerPoints DEF Control, InnerInv, Working
  <1>6. \A s \in DOMAIN InnerPoint : inner = InnerPoint[s] => inner \in Temporary
    BY InnerPoints DEF Temporary
  <1>7. Steps[at] = "release" => inner \notin Temporary BY <1>3, InnerPoints
  <1>8. QED BY <1>2, <1>3, <1>4, <1>5, <1>6, <1>7

\* What the steps of the loop come to.
LEMMA WorkOutcome ==
  ASSUME Control, Work
  PROVE  /\ Releases \/ Opens \/ Passes \/ Attaches \/ Leaves
         /\ faults' \in 0..MaxFaults
  <1>0. ControlTyping BY DEF Control
  <1>1. CASE Release
    <2>1. Working("release") /\ phase = "work" /\ at = 1 /\ inner \notin Temporary
      BY <1>0, <1>1, WhereAt, InnerWhere DEF Release, Working
    <2>2. PICK p \in todo :
           \/ /\ UmountTree(p)
              /\ todo' = todo \ {p}
              /\ inner' = IF todo' = {} THEN "none" ELSE "release"
              /\ UNCHANGED <<phase, at, cause, faults>>
           \/ /\ UmountSome(p) /\ Fault /\ Failed
              /\ inner' = "none"
              /\ UNCHANGED todo
           \/ /\ Shown(p) = {} /\ Failed
              /\ inner' = "none"
              /\ UNCHANGED <<todo, mounts, faults>>
      BY <1>1 DEF Release
    <2>3. UNCHANGED <<acquired, fixed>> BY <1>1 DEF Release
    <2>4. faults' \in 0..MaxFaults BY <1>0, <2>2, FaultBound
    <2>5. Releases \/ Leaves BY <2>1, <2>2, <2>3 DEF Releases, Leaves, Failed, fixed
    <2>6. QED BY <2>4, <2>5
  <1>2. CASE ReleaseDone
    <2>1. phase = "work" /\ at = 1 /\ inner \notin Temporary /\ Steps[at] \notin Points
      BY <1>0, <1>2, WhereAt, InnerWhere, Sequence, Paths DEF ReleaseDone, Working
    <2>2. inner' = "none"
      <3>1. todo = {} /\ inner' = inner BY <1>2 DEF ReleaseDone
      <3>2. Steps[at] \notin DOMAIN InnerPoint BY <2>1, Sequence, InnerPoints
      <3>3. QED BY <3>1, <3>2 DEF Control, InnerInv
    <2>3. Passes BY <1>2, <2>1, <2>2 DEF ReleaseDone, Passes, Done, fixed
    <2>4. QED BY <1>0, <1>2, <2>3, FaultBound DEF ReleaseDone
  <1>3. CASE Partition
    <2>1. phase = "work" /\ at = 2 /\ inner = "none" /\ Steps[at] \notin Points
      BY <1>0, <1>3, WhereAt, InnerWhere, Sequence, Paths DEF Partition, Working
    <2>2. Passes \/ Leaves
      BY <1>3, <2>1 DEF Partition, Passes, Leaves, Done, Failed, fixed, Temporary
    <2>3. QED BY <1>0, <1>3, <2>2, FaultBound DEF Partition
  <1>4. CASE MountStep
    <2>1. phase = "work" /\ Steps[at] \in Points /\ inner = "none"
      BY <1>4, InnerWhere DEF MountStep
    <2>2. Attaches \/ Leaves
      BY <1>4, <2>1 DEF MountStep, Attaches, Leaves, Done, Failed, fixed, Temporary
    <2>3. QED BY <1>0, <1>4, <2>2, FaultBound DEF MountStep
  <1>5. CASE OpenInner
    <2>1. Opens BY <1>5 DEF OpenInner, Opens, Working, fixed
    <2>2. QED BY <1>0, <1>5, <2>1, FaultBound DEF OpenInner
  <1>6. CASE NoInner
    <2>1. phase = "work" /\ inner = "none" /\ at \in {3, 11} /\ Steps[at] \notin Points
      BY <1>0, <1>6, WhereAt, Sequence, Paths DEF NoInner, Working
    <2>2. Passes \/ Leaves
      BY <1>6, <2>1 DEF NoInner, Passes, Leaves, Done, Failed, fixed, Temporary
    <2>3. QED BY <1>0, <1>6, <2>2, FaultBound DEF NoInner
  <1>7. CASE CloseInner
    <2>1. phase = "work" /\ inner \in Temporary /\ at \in {3, 11} /\ Steps[at] \notin Points
      BY <1>0, <1>7, WhereAt, InnerWhere, Sequence, Paths DEF CloseInner, Inside, Working
    <2>2. Passes \/ Leaves
      BY <1>7, <2>1 DEF CloseInner, Passes, Leaves, Done, Failed, fixed
    <2>3. QED BY <1>0, <1>7, <2>2, FaultBound DEF CloseInner
  <1>8. CASE WriteTarget
    <2>1. phase = "work" /\ at = 7 /\ inner = "none" /\ Steps[at] \notin Points
      BY <1>0, <1>8, WhereAt, InnerWhere, Sequence, Paths DEF WriteTarget, Working
    <2>2. Passes \/ Leaves
      BY <1>8, <2>1 DEF WriteTarget, Passes, Leaves, Done, Failed, fixed, Temporary
    <2>3. QED BY <1>0, <1>8, <2>2, FaultBound DEF WriteTarget
  <1>9. CASE Finish
    <2>1. phase = "work" /\ at = 12 /\ inner = "none"
      BY <1>0, <1>9, WhereAt, InnerWhere DEF Finish, Working
    <2>2. Leaves BY <1>0, <1>9, <2>1 DEF Finish, Leaves, fixed, Temporary, ControlTyping
    <2>3. QED BY <1>0, <1>9, <2>2, FaultBound DEF Finish
  <1>10. CASE Cancel
    <2>1. Leaves BY <1>10 DEF Cancel, Leaves, fixed, Temporary
    <2>2. QED BY <1>0, <1>10, <2>1, FaultBound DEF Cancel
  <1>11. QED
    BY <1>1, <1>2, <1>3, <1>4, <1>5, <1>6, <1>7, <1>8, <1>9, <1>10 DEF Work

\* What the steps of the unwind come to.
LEMMA UndoOutcome ==
  ASSUME Control, UndoOk \/ UndoErr
  PROVE  Undoes /\ faults' \in 0..MaxFaults
  <1>1. ControlTyping BY DEF Control
  <1>2. Fault \/ UNCHANGED faults BY DEF UndoOk, UndoErr
  <1>3. Undoes BY DEF UndoOk, UndoErr, Undoes, fixed
  <1>4. QED BY <1>1, <1>2, <1>3, FaultBound

-----------------------------------------------------------------------------
(* The control part of the invariant.                                      *)

\* A new run begins with nothing.
LEMMA LaunchControl ==
  ASSUME Control, Table, Launch
  PROVE  Control'
  <1>1. PICK d \in Disks : disks' = Append(disks, d) BY DEF Launch
  <1>2. disks' \in Seq(Disks) /\ Len(disks') <= MaxRuns /\ disks' # << >>
    BY <1>1, BoundAssumption DEF Launch, Control, ControlTyping, run
  <1>3. todo' \subseteq Points BY DEF Launch, Table, MountTyping
  <1>4. at' \in {1, 2} BY DEF Launch
  <1>5. /\ phase' = "work" /\ inner' = "none" /\ acquired' = << >> /\ leaked' = {}
        /\ cause' = "none" /\ verdict' = "none" /\ faults' = faults
    BY DEF Launch
  <1>6. acquired' \in Seq(Points) /\ DOMAIN acquired' = {} BY <1>5
  <1>7. ControlTyping'
    BY <1>2, <1>3, <1>4, <1>5, <1>6 DEF Control, ControlTyping
  <1>8. Held' = {} /\ DistinctInv' BY <1>6 DEF Held, DistinctInv
  <1>9. ASSUME NEW i \in 1..12, i < at' PROVE Steps[i] \notin Points
    <2>1. i = 1 BY <1>4, <1>9
    <2>2. QED BY <2>1, Sequence, Paths
  <1>10. HeldInv' BY <1>8, <1>9 DEF HeldInv
  <1>11. InnerInv' /\ EndInv' BY <1>5 DEF InnerInv, EndInv
  <1>12. QED BY <1>7, <1>8, <1>10, <1>11 DEF Control

\* The points held while the loop moves on by an operation that mounts nothing.
LEMMA PassHeld ==
  ASSUME Control, Passes
  PROVE  HeldInv'
  <1>1. at \in 1..12 /\ at' = at + 1 /\ Held' = Held BY DEF Passes, Control, ControlTyping, Held
  <1>2. phase = "work" /\ Steps[at] \notin Points BY DEF Passes
  <1>3. ASSUME NEW p \in Points
        PROVE  p \in Held' <=> \E i \in 1..12 : i < at' /\ Steps[i] = p
    <2>1. p \in Held <=> \E i \in 1..12 : i < at /\ Steps[i] = p
      BY <1>2 DEF Control, HeldInv
    <2>2. ASSUME NEW i \in 1..12, Steps[i] = p PROVE i < at' <=> i < at
      <3>1. i # at BY <1>2, <2>2
      <3>2. QED BY <1>1, <3>1
    <2>3. QED BY <1>1, <2>1, <2>2
  <1>4. QED BY <1>3 DEF HeldInv

\* The steps of the loop.
LEMMA WorkControl ==
  ASSUME Control, Work
  PROVE  Control'
  <1>0. ControlTyping /\ DistinctInv /\ HeldInv BY DEF Control
  <1>1. faults' \in 0..MaxFaults BY WorkOutcome
  <1>2. CASE Releases
    <2>1. ControlTyping' BY <1>0, <1>1, <1>2 DEF ControlTyping, Releases
    <2>2. Held' = Held /\ DistinctInv' BY <1>0, <1>2 DEF Releases, Held, DistinctInv
    <2>3. HeldInv' BY <1>0, <1>2, <2>2 DEF HeldInv, Releases
    <2>4. InnerInv'
      BY <1>2, Sequence DEF Releases, InnerInv
    <2>5. EndInv' BY <1>2 DEF Releases, EndInv
    <2>6. QED BY <2>1, <2>2, <2>3, <2>4, <2>5 DEF Control
  <1>3. CASE Opens
    <2>1. inner' \in {"staging", "efivars"} BY <1>3, InnerPoints DEF Opens
    <2>2. ControlTyping' BY <1>0, <1>1, <1>3, <2>1 DEF ControlTyping, Opens
    <2>3. Held' = Held /\ DistinctInv' BY <1>0, <1>3 DEF Opens, Held, DistinctInv
    <2>4. HeldInv' BY <1>0, <1>3, <2>3 DEF HeldInv, Opens
    <2>5. InnerInv' BY <1>3 DEF Opens, InnerInv
    <2>6. EndInv' BY <1>3 DEF Opens, EndInv
    <2>7. QED BY <2>2, <2>3, <2>4, <2>5, <2>6 DEF Control
  <1>4. CASE Passes
    <2>1. at' \in 1..12 BY <1>0, <1>4 DEF ControlTyping, Passes
    <2>2. ControlTyping' BY <1>0, <1>1, <1>4, <2>1 DEF ControlTyping, Passes
    <2>3. DistinctInv' BY <1>0, <1>4 DEF Passes, DistinctInv
    <2>4. HeldInv' BY <1>4, PassHeld
    <2>5. InnerInv' /\ EndInv' BY <1>4 DEF Passes, InnerInv, EndInv
    <2>6. QED BY <2>2, <2>3, <2>4, <2>5 DEF Control
  <1>5. CASE Attaches
    <2>1. Steps[at] \in Points /\ Steps[at] \notin Held /\ phase = "work"
      BY <1>0, <1>5, NextPoint DEF Attaches
    <2>2. acquired' \in Seq(Points) /\ DistinctInv' /\ Held' = Held \union {Steps[at]}
      BY <1>0, <1>5, <2>1, PushHeld DEF Attaches
    <2>3. at \in 1..12 /\ at' \in 1..12 /\ at' = at + 1
      BY <1>0, <1>5, WhereAt DEF ControlTyping, Attaches
    <2>4. ControlTyping' BY <1>0, <1>1, <1>5, <2>2, <2>3 DEF ControlTyping, Attaches
    <2>5. ASSUME NEW p \in Points
          PROVE  p \in Held' <=> \E i \in 1..12 : i < at' /\ Steps[i] = p
      <3>1. p \in Held <=> \E i \in 1..12 : i < at /\ Steps[i] = p
        BY <1>0, <2>1 DEF HeldInv
      <3>2. \A i \in 1..12 : i < at' <=> i < at \/ i = at BY <2>3
      <3>3. QED BY <2>2, <2>3, <3>1, <3>2
    <2>6. HeldInv' BY <2>5 DEF HeldInv
    <2>7. InnerInv' /\ EndInv' BY <1>5 DEF Attaches, InnerInv, EndInv
    <2>8. QED BY <2>2, <2>4, <2>6, <2>7 DEF Control
  <1>6. CASE Leaves
    <2>1. ControlTyping' BY <1>0, <1>1, <1>6 DEF ControlTyping, Leaves
    <2>2. DistinctInv' BY <1>0, <1>6 DEF Leaves, DistinctInv
    <2>3. HeldInv' /\ InnerInv' BY <1>6 DEF Leaves, HeldInv, InnerInv
    <2>4. EndInv' BY <1>6 DEF Leaves, EndInv
    <2>5. QED BY <2>1, <2>2, <2>3, <2>4 DEF Control
  <1>7. QED BY <1>2, <1>3, <1>4, <1>5, <1>6, WorkOutcome

\* The control part is preserved by every step.
LEMMA ControlStep ==
  ASSUME Control, Table, [Next]_vars
  PROVE  Control'
  <1>0. ControlTyping /\ DistinctInv /\ HeldInv BY DEF Control
  <1>1. CASE Launch BY <1>1, LaunchControl
  <1>2. CASE Work BY <1>2, WorkControl
  <1>3. CASE UndoOk \/ UndoErr
    <2>1. Undoes /\ faults' \in 0..MaxFaults BY <1>3, UndoOutcome
    <2>2. /\ acquired' \in Seq(Points) /\ DistinctInv'
          /\ acquired[Len(acquired)] \in Points
      BY <1>0, <2>1, PopHeld DEF Undoes
    <2>3. leaked' \subseteq Points BY <1>0, <2>1, <2>2 DEF Undoes, ControlTyping
    <2>4. ControlTyping' BY <1>0, <2>1, <2>2, <2>3 DEF Undoes, ControlTyping
    <2>5. HeldInv' BY <2>1 DEF Undoes, HeldInv
    <2>6. InnerInv' BY <2>1 DEF Undoes, InnerInv, Control
    <2>7. EndInv' BY <2>1 DEF Undoes, EndInv, Control
    <2>8. QED BY <2>2, <2>4, <2>5, <2>6, <2>7 DEF Control
  <1>4. CASE Conclude
    <2>1. verdict' \in {"failed", "cancelled", "completed"} BY <1>4 DEF Conclude
    <2>2. ControlTyping' BY <1>0, <1>4, <2>1 DEF Conclude, ControlTyping
    <2>3. DistinctInv' BY <1>0, <1>4 DEF Conclude, DistinctInv
    <2>4. HeldInv' BY <1>4 DEF Conclude, HeldInv
    <2>5. InnerInv' BY <1>4 DEF Conclude, InnerInv, Control
    <2>6. verdict' = "completed" => cause = "none"
      BY <1>0, <1>4 DEF Conclude, ControlTyping
    <2>7. EndInv' BY <1>4, <2>6 DEF Conclude, EndInv, Control
    <2>8. QED BY <2>2, <2>3, <2>4, <2>5, <2>7 DEF Control
  <1>5. CASE Die
    <2>1. ControlTyping' BY <1>0, <1>5 DEF Die, ControlTyping
    <2>2. DistinctInv' BY <1>0, <1>5 DEF Die, DistinctInv
    <2>3. HeldInv' /\ InnerInv' /\ EndInv' BY <1>5 DEF Die, HeldInv, InnerInv, EndInv
    <2>4. QED BY <2>1, <2>2, <2>3 DEF Control
  <1>6. CASE UNCHANGED vars
    BY <1>6 DEF vars, Control, ControlTyping, DistinctInv, HeldInv, Held, InnerInv, EndInv
  <1>7. QED BY <1>1, <1>2, <1>3, <1>4, <1>5, <1>6 DEF Next

-----------------------------------------------------------------------------
(* The table part of the invariant.                                        *)

\* Where an operation of the loop attaches something, it is an attachment in the
\* sense above.
LEMMA WorkAttaches ==
  ASSUME Control, Table, NEW p, AttachesAt(p)
  PROVE  /\ p \in Points /\ p \notin Held
         /\ PathTo[p] \ {p} \subseteq Held
         /\ \A q \in Held : p \notin PathTo[q]
         /\ \E n : Attaching(n, p)
  <1>1. ControlTyping /\ HeldInv /\ MountTyping /\ Bounded BY DEF Control, Table
  <1>2. /\ phase = "work"
        /\ \/ Steps[at] \in Points /\ p = Steps[at]
           \/ Steps[at] \in DOMAIN InnerPoint /\ p = InnerPoint[Steps[at]]
    BY DEF AttachesAt, Attaches, Opens
  <1>3. /\ p \in Points /\ p \notin Held
        /\ PathTo[p] \ {p} \subseteq Held
        /\ \A q \in Held : p \notin PathTo[q]
    BY <1>1, <1>2, NextPoint
  <1>4. mounts' = Mounted(p) BY DEF AttachesAt, Attaches, Opens
  <1>5. QED BY <1>1, <1>3, <1>4, MountAttaches

\* A step detaches, attaches one mount below the points held, or starts a run.
LEMMA TableOutcome ==
  ASSUME Control, Table, [Next]_vars
  PROVE  \/ Launch /\ mounts' = mounts
         \/ (\E p : AttachesAt(p)) /\ disks' = disks
         \/ Detaching /\ disks' = disks
  <1>1. MountTyping BY DEF Table
  <1>2. mounts' = mounts => Detaching BY DEF Detaching
  <1>3. CASE Launch BY <1>3 DEF Launch
  <1>4. CASE Work
    <2>1. CASE Releases BY <1>1, <2>1, UmountDetaches DEF Releases
    <2>2. CASE Opens BY <2>2 DEF Opens, AttachesAt
    <2>3. CASE Passes BY <1>1, <1>2, <2>3, UmountDetaches DEF Passes
    <2>4. CASE Attaches BY <2>4 DEF Attaches, AttachesAt
    <2>5. CASE Leaves BY <1>1, <1>2, <2>5, UmountDetaches DEF Leaves
    <2>6. QED BY <1>4, <2>1, <2>2, <2>3, <2>4, <2>5, WorkOutcome
  <1>5. CASE UndoOk \/ UndoErr
    <2>1. Undoes BY <1>5, UndoOutcome
    <2>2. QED BY <1>1, <1>2, <2>1, UmountDetaches DEF Undoes
  <1>6. CASE Conclude BY <1>2, <1>6 DEF Conclude
  <1>7. CASE Die BY <1>2, <1>7 DEF Die
  <1>8. CASE UNCHANGED vars BY <1>2, <1>8 DEF vars
  <1>9. QED BY <1>3, <1>4, <1>5, <1>6, <1>7, <1>8 DEF Next

\* The run and its disk.
LEMMA RunTyping ==
  ASSUME ControlTyping, phase = "work"
  PROVE  run \in 1..run /\ run \in Nat /\ disk \in Disks
         /\ \A p : Source(p) \in Disks \union {"kernel"}
  <1>1. run \in Nat \ {0} BY DEF run, ControlTyping
  <1>2. disk \in Disks BY <1>1 DEF disk, run, ControlTyping
  <1>3. QED BY <1>1, <1>2 DEF Source

\* A held point shows something.
LEMMA HeldShows ==
  ASSUME ShownInv, phase = "work", NEW q \in Held
  PROVE  Shown(q) # {}
  BY DEF ShownInv, OwnShown

\* The table part is preserved by every step.
LEMMA TableStep ==
  ASSUME Control, Table, ShownInv, [Next]_vars
  PROVE  Table'
  <1>0. MountTyping /\ Bounded /\ Rooted /\ ControlTyping BY DEF Table, Control
  <1>1. CASE Launch /\ mounts' = mounts
    <2>1. PICK d \in Disks : disks' = Append(disks, d) BY <1>1 DEF Launch
    <2>2. disks' \in Seq(Disks) /\ run' = run + 1 /\ run \in Nat
      BY <2>1 DEF run, Control, ControlTyping
    <2>3. \A i \in 1..run : i \in 1..run' BY <2>2
    <2>4. MountTyping' BY <1>0, <1>1, <2>2, <2>3 DEF MountTyping
    <2>5. Bounded' /\ Rooted' BY <1>0, <1>1 DEF Bounded, Rooted, HangsOn
    <2>6. QED BY <2>4, <2>5 DEF Table
  <1>2. ASSUME NEW p, AttachesAt(p), disks' = disks
        PROVE  Table'
    <2>1. phase = "work" BY <1>2 DEF AttachesAt, Attaches, Opens
    <2>2. p \in Points /\ PathTo[p] \ {p} \subseteq Held BY <1>2, WorkAttaches
    <2>3. PICK n : Attaching(n, p) BY <1>2, WorkAttaches
    <2>4. \A q \in PathTo[p] \ {p} : Shown(q) # {} BY <2>1, <2>2, HeldShows
    <2>5. Rooted' BY <1>0, <2>2, <2>3, <2>4, AttachRooted
    <2>6. Bounded'
      <3>1. n.id \in Nat /\ \A m \in mounts' : m.id <= n.id
        BY <1>0, <2>3 DEF Attaching, MountTyping
      <3>2. QED BY <3>1 DEF Bounded
    <2>7. run \in 1..run /\ Source(p) \in Disks \union {"kernel"} /\ run' = run
      BY <1>0, <1>2, <2>1, RunTyping DEF run
    <2>8. \A m \in mounts : m.id # n.id BY <1>0, <2>3 DEF Attaching, MountTyping
    <2>9. MountTyping' BY <1>0, <1>2, <2>2, <2>3, <2>7, <2>8 DEF Attaching, MountTyping
    <2>10. QED BY <2>5, <2>6, <2>9 DEF Table
  <1>3. CASE Detaching /\ disks' = disks
    <2>1. mounts' \subseteq mounts /\ run' = run BY <1>3 DEF Detaching, run
    <2>2. MountTyping' BY <1>0, <1>3, <2>1 DEF MountTyping
    <2>3. Bounded' BY <1>0, <2>1 DEF Bounded
    <2>4. Rooted' BY <1>0, <1>3, DetachRooted
    <2>5. QED BY <2>2, <2>3, <2>4 DEF Table
  <1>4. QED BY <1>1, <1>2, <1>3, TableOutcome

-----------------------------------------------------------------------------
(* What the paths of the held points show.                                 *)

\* A path shows one mount at most.
LEMMA ShownUnique ==
  ASSUME MountTyping, NEW p \in Points, NEW m \in Shown(p), NEW n \in Shown(p)
  PROVE  m = n
  <1>1. m \in mounts /\ n \in mounts /\ m.point = p /\ n.point = p BY DEF Shown
  <1>2. m.id <= n.id /\ n.id <= m.id BY <1>1, PathOwn DEF Shown
  <1>3. m.id = n.id BY <1>1, <1>2 DEF MountTyping
  <1>4. QED BY <1>1, <1>3 DEF MountTyping

\* A path goes on showing a mount of this run as long as that stays mounted and
\* nothing is mounted over it.
LEMMA DetachOwnShown ==
  ASSUME mounts' \subseteq mounts, disks' = disks, NEW q, OwnShown(q),
         \A m \in mounts : m.point = q => m \in mounts'
  PROVE  OwnShown(q)'
  <1>1. PICK m \in Shown(q) : m.run = run /\ m.source = Source(q) BY DEF OwnShown
  <1>2. m \in mounts' BY DEF Shown
  <1>3. m \in Shown(q)' BY <1>2, DetachShows
  <1>4. run' = run /\ Source(q)' = Source(q) BY DEF run, Source, disk
  <1>5. QED BY <1>1, <1>3, <1>4 DEF OwnShown

\* An attachment shows at its own point and leaves the others shown.
LEMMA AttachOwnShown ==
  ASSUME MountTyping, NEW p \in Points, NEW n, Attaching(n, p), disks' = disks
  PROVE  /\ OwnShown(p)'
         /\ \A q \in Points : p \notin PathTo[q] /\ OwnShown(q) => OwnShown(q)'
  <1>1. run' = run /\ \A q : Source(q)' = Source(q) BY DEF run, Source, disk
  <1>2. n \in Shown(p)' /\ \A q \in Points : p \notin PathTo[q] => Shown(q) \subseteq Shown(q)'
    BY AttachShows
  <1>3. OwnShown(p)' BY <1>1, <1>2 DEF OwnShown, Attaching
  <1>4. ASSUME NEW q \in Points, p \notin PathTo[q], OwnShown(q) PROVE OwnShown(q)'
    <2>1. PICK m \in Shown(q) : m.run = run /\ m.source = Source(q) BY <1>4 DEF OwnShown
    <2>2. m \in Shown(q)' BY <1>2, <1>4
    <2>3. QED BY <1>1, <2>1, <2>2 DEF OwnShown
  <1>5. QED BY <1>3, <1>4

\* Before the first mount nothing is held.
LEMMA NothingHeld ==
  ASSUME Control, phase = "work", at <= 2
  PROVE  Held = {}
  <1>1. \A q \in Held : q \in Points BY DEF Held, Control, ControlTyping
  <1>2. ASSUME NEW q \in Held PROVE FALSE
    <2>1. PICK i \in 1..12 : i < at /\ Steps[i] = q BY <1>1 DEF Control, HeldInv
    <2>2. at \in 1..12 BY DEF Control, ControlTyping
    <2>3. i = 1 BY <2>1, <2>2
    <2>4. QED BY <1>1, <2>1, <2>3, Sequence, Paths
  <1>3. QED BY <1>2

\* The temporary mount of an operation is not one of the held.
LEMMA InnerNotHeld ==
  ASSUME Control, phase = "work", inner \in Temporary
  PROVE  inner \in Points /\ inner \notin Held
  <1>1. Steps[at] \in DOMAIN InnerPoint /\ inner = InnerPoint[Steps[at]]
    BY DEF Control, InnerInv, Temporary
  <1>2. QED BY <1>1, NextPoint DEF Control

\* umount takes the mount its path shows.
LEMMA UmountTakes ==
  ASSUME MountTyping, NEW p \in Points, Umount(p), OwnShown(p)
  PROVE  \E m \in mounts : m.point = p /\ m.run = run /\ mounts' = mounts \ {m}
  <1>1. PICK m \in Shown(p) : mounts' = mounts \ {m} BY DEF Umount
  <1>2. PICK n \in Shown(p) : n.run = run BY DEF OwnShown
  <1>3. m = n BY ShownUnique
  <1>4. QED BY <1>1, <1>2, <1>3 DEF Shown

\* Held points stay shown by an umount elsewhere.
LEMMA UmountOwnShown ==
  ASSUME NEW p, Umount(p), disks' = disks, NEW q, q # p, OwnShown(q)
  PROVE  OwnShown(q)'
  <1>1. PICK m \in mounts : m.point = p /\ mounts' = mounts \ {m} BY DEF Umount, Shown
  <1>2. mounts' \subseteq mounts /\ \A x \in mounts : x.point = q => x \in mounts' BY <1>1
  <1>3. QED BY <1>2, DetachOwnShown

\* What the run holds stays shown.
LEMMA ShownStep ==
  ASSUME Control, Table, ShownInv, [Next]_vars
  PROVE  ShownInv'
  <1>0. ControlTyping /\ DistinctInv /\ MountTyping BY DEF Control, Table
  <1>a. ASSUME mounts' = mounts, disks' = disks, NEW q, OwnShown(q) PROVE OwnShown(q)'
    BY <1>a, DetachOwnShown
  <1>1. CASE Launch
    <2>1. acquired' = << >> /\ inner' = "none" BY <1>1 DEF Launch
    <2>2. Held' = {} BY <2>1 DEF Held
    <2>3. QED BY <2>1, <2>2 DEF ShownInv
  <1>2. ASSUME NEW p, AttachesAt(p) PROVE ShownInv'
    <2>1. p \in Points /\ \A q \in Held : p \notin PathTo[q] BY <1>2, WorkAttaches
    <2>2. PICK n : Attaching(n, p) BY <1>2, WorkAttaches
    <2>3. phase = "work" /\ disks' = disks BY <1>2 DEF AttachesAt, Attaches, Opens
    <2>4. OwnShown(p)' /\ \A q \in Points : p \notin PathTo[q] /\ OwnShown(q) => OwnShown(q)'
      BY <1>0, <2>1, <2>2, <2>3, AttachOwnShown
    <2>5. \A q \in Held : q \in Points BY <1>0 DEF Held, ControlTyping
    <2>6. \A q \in Held : OwnShown(q)' BY <2>1, <2>3, <2>4, <2>5 DEF ShownInv
    <2>7. CASE Attaches /\ p = Steps[at]
      <3>1. inner' = "none" /\ acquired' = Append(acquired, p) BY <2>7 DEF Attaches
      <3>2. p \notin Held BY <1>2, WorkAttaches
      <3>3. Held' = Held \union {p} BY <1>0, <2>1, <3>1, <3>2, PushHeld
      <3>4. QED BY <2>4, <2>6, <3>1, <3>3 DEF ShownInv
    <2>8. CASE Opens /\ p = InnerPoint[Steps[at]]
      <3>1. inner' = p /\ Held' = Held BY <2>8 DEF Opens, Held
      <3>2. QED BY <2>4, <2>6, <3>1 DEF ShownInv
    <2>9. QED BY <1>2, <2>7, <2>8 DEF AttachesAt
  <1>3. CASE Releases
    <2>1. Held' = Held /\ inner' \notin Temporary BY <1>3 DEF Releases, Held, Temporary
    <2>2. Held = {} BY <1>3, NothingHeld DEF Releases
    <2>3. QED BY <2>1, <2>2 DEF ShownInv, Temporary
  <1>4. CASE Passes \/ Leaves
    <2>1. Held' = Held /\ inner' = "none" /\ phase = "work" /\ disks' = disks
      BY <1>4 DEF Passes, Leaves, Held
    <2>2. ASSUME NEW q \in Held PROVE OwnShown(q)'
      <3>1. OwnShown(q) BY <2>1 DEF ShownInv
      <3>2. CASE mounts' = mounts BY <1>a, <2>1, <3>1, <3>2
      <3>3. CASE at = 1 BY <2>1, <3>3, NothingHeld
      <3>4. CASE inner \in Temporary /\ Umount(inner)
        <4>1. q # inner BY <2>1, <3>4, InnerNotHeld
        <4>2. QED BY <2>1, <3>1, <3>4, <4>1, UmountOwnShown
      <3>5. QED BY <1>4, <3>2, <3>3, <3>4 DEF Passes, Leaves
    <2>3. QED BY <2>1, <2>2 DEF ShownInv
  <1>5. CASE UndoOk \/ UndoErr
    <2>1. Undoes BY <1>5, UndoOutcome
    <2>2. Held' = Held \ {acquired[Len(acquired)]} BY <1>0, <2>1, PopHeld DEF Undoes
    <2>3. phase = "unwind" /\ inner' = inner /\ inner = "none" /\ disks' = disks
      BY <2>1 DEF Undoes, Control, InnerInv
    <2>4. ASSUME NEW q \in Held' PROVE OwnShown(q)'
      <3>1. OwnShown(q) /\ q # acquired[Len(acquired)] BY <2>2, <2>3 DEF ShownInv
      <3>2. CASE mounts' = mounts BY <1>a, <2>3, <3>1, <3>2
      <3>3. CASE Umount(acquired[Len(acquired)]) BY <2>3, <3>1, <3>3, UmountOwnShown
      <3>4. QED BY <2>1, <3>2, <3>3 DEF Undoes
    <2>5. QED BY <2>3, <2>4 DEF ShownInv
  <1>6. CASE Conclude \/ Die
    <2>1. phase' = "over" /\ inner' = "none"
      BY <1>6 DEF Conclude, Die, Control, InnerInv
    <2>2. QED BY <2>1 DEF ShownInv
  <1>7. CASE UNCHANGED vars
    <2>1. Held' = Held /\ inner' = inner /\ phase' = phase /\ mounts' = mounts /\ disks' = disks
      BY <1>7 DEF vars, Held
    <2>2. \A q \in Held : OwnShown(q) => OwnShown(q)' BY <1>a, <2>1
    <2>3. OwnShown(inner) => OwnShown(inner)' BY <1>a, <2>1
    <2>4. QED BY <2>1, <2>2, <2>3 DEF ShownInv
  <1>8. CASE Work BY <1>2, <1>3, <1>4, <1>8, WorkOutcome DEF AttachesAt
  <1>9. QED BY <1>1, <1>5, <1>6, <1>7, <1>8 DEF Next

-----------------------------------------------------------------------------
(* The mounts of this run.                                                 *)

OwnFlat == \A m, n \in mounts : m.run = run /\ n.run = run /\ m.point = n.point => m = n

\* The run has nothing at the point an operation mounts at.
LEMMA NewPoint ==
  ASSUME Control, Table, OwnInv, NEW p, AttachesAt(p), NEW m \in mounts, m.run = run
  PROVE  m.point # p
  <1>1. phase = "work" /\ inner = "none"
    BY DEF AttachesAt, Attaches, Opens
  <1>2. m.point \in Points /\ "none" \notin Points BY Paths DEF Table, MountTyping
  <1>3. m.point \in Held BY <1>1, <1>2 DEF OwnInv
  <1>4. QED BY <1>3, WorkAttaches

\* What an umount of a shown point of this run leaves is at other points.
LEMMA UmountOwn ==
  ASSUME MountTyping, OwnFlat, NEW p \in Points, Umount(p), OwnShown(p),
         NEW m \in mounts', m.run = run
  PROVE  m \in mounts /\ m.point # p
  <1>1. PICK x \in mounts : x.point = p /\ x.run = run /\ mounts' = mounts \ {x}
    BY UmountTakes
  <1>2. QED BY <1>1 DEF OwnFlat

\* The mounts of a run stay distinct and known.
LEMMA OwnStep ==
  ASSUME Control, Table, ShownInv, OwnInv, [Next]_vars
  PROVE  OwnInv'
  <1>0. /\ ControlTyping /\ DistinctInv /\ MountTyping /\ OwnFlat
        /\ \A m \in mounts : m.point \in Points
    BY DEF Control, Table, OwnInv, OwnFlat, MountTyping
  <1>1. CASE Launch
    <2>1. PICK d \in Disks : disks' = Append(disks, d) BY <1>1 DEF Launch
    <2>2. run' = run + 1 /\ run \in Nat BY <2>1 DEF run, Control, ControlTyping
    <2>3. \A m \in mounts : m.run # run' BY <1>0, <2>2 DEF MountTyping
    <2>4. mounts' = mounts /\ phase' = "work" BY <1>1 DEF Launch
    <2>5. QED BY <2>3, <2>4 DEF OwnInv
  <1>2. ASSUME NEW p, AttachesAt(p) PROVE OwnInv'
    <2>1. PICK n : Attaching(n, p) BY <1>2, WorkAttaches
    <2>2. phase = "work" /\ inner = "none" /\ phase' = "work" /\ run' = run
      BY <1>2 DEF AttachesAt, Attaches, Opens, run
    <2>3. \A m \in mounts : m.run = run => m.point # p BY <1>2, NewPoint
    <2>4. mounts' = mounts \union {n} /\ n.point = p BY <2>1 DEF Attaching
    <2>5. OwnFlat' BY <1>0, <2>2, <2>3, <2>4 DEF OwnFlat
    <2>6. \A m \in mounts : m.run = run => m.point \in Held
      <3>1. "none" \notin Points BY Paths
      <3>2. QED BY <1>0, <2>2, <3>1 DEF OwnInv
    <2>7. Held \subseteq Held' /\ p \in Held' \union {inner'}
      <3>1. CASE Attaches /\ p = Steps[at]
        <4>1. acquired' = Append(acquired, p) BY <3>1 DEF Attaches
        <4>2. p \in Points /\ p \notin Held BY <1>2, WorkAttaches
        <4>3. QED BY <1>0, <4>1, <4>2, PushHeld
      <3>2. CASE Opens /\ p = InnerPoint[Steps[at]]
        BY <3>2 DEF Opens, Held
      <3>3. QED BY <1>2, <3>1, <3>2 DEF AttachesAt
    <2>8. \A m \in mounts' : m.run = run => m.point \in Held' \union {inner'}
      BY <2>4, <2>6, <2>7
    <2>9. QED BY <2>2, <2>5, <2>8 DEF OwnInv, OwnFlat
  <1>3. CASE Detaching /\ disks' = disks
    <2>0. mounts' \subseteq mounts /\ run' = run BY <1>3 DEF Detaching, run
    <2>1. OwnFlat' BY <1>0, <2>0 DEF OwnFlat
    <2>2. CASE Releases
      <3>1. Held = {} /\ phase = "work" /\ phase' = phase /\ Steps[at] = "release"
        BY <2>2, NothingHeld, Sequence DEF Releases
      <3>2. inner \notin Points
        BY <3>1, Paths, InnerPoints DEF Control, InnerInv
      <3>3. \A m \in mounts : m.run # run BY <1>0, <3>1, <3>2 DEF OwnInv
      <3>4. QED BY <2>0, <2>1, <3>1, <3>3 DEF OwnInv, OwnFlat
    <2>3. ASSUME Passes \/ (Leaves /\ cause' # "failed")
          PROVE  \A m \in mounts' : m.run = run => m.point \in Held'
      <3>1. Held' = Held /\ phase = "work" BY <2>3 DEF Passes, Leaves, Held
      <3>2. \A m \in mounts : m.run = run => m.point \in Held \union {inner}
        BY <3>1 DEF OwnInv
      <3>3. CASE inner \in Temporary
        <4>1. Umount(inner) BY <2>3, <3>3 DEF Passes, Leaves
        <4>2. OwnShown(inner) /\ inner \in Points
          BY <3>1, <3>3, InnerNotHeld DEF ShownInv, Temporary
        <4>3. \A m \in mounts' : m.run = run => m.point # inner
          BY <1>0, <4>1, <4>2, UmountOwn
        <4>4. QED BY <2>0, <3>1, <3>2, <4>3
      <3>4. CASE inner \notin Temporary
        <4>1. inner \in {"none", "release"} BY <3>1, <3>4, InnerWhere
        <4>2. inner \notin Points BY <4>1, Paths
        <4>3. QED BY <1>0, <2>0, <3>1, <3>2, <4>2
      <3>5. QED BY <3>3, <3>4
    <2>4. CASE Passes
      <3>1. phase' = "work" BY <2>4 DEF Passes
      <3>2. QED BY <2>0, <2>1, <2>3, <2>4, <3>1 DEF OwnInv, OwnFlat
    <2>5. CASE Leaves
      <3>1. phase' = "unwind" BY <2>5 DEF Leaves
      <3>2. QED BY <2>0, <2>1, <2>3, <2>5, <3>1 DEF OwnInv, OwnFlat
    <2>6. CASE UndoOk \/ UndoErr
      <3> DEFINE p == acquired[Len(acquired)]
      <3>1. Undoes BY <2>6, UndoOutcome
      <3>2. p \in Points /\ Held = Held' \union {p} /\ Held' = Held \ {p}
        BY <1>0, <3>1, PopHeld DEF Undoes
      <3>3. phase = "unwind" /\ phase' = "unwind" /\ cause' = cause BY <3>1 DEF Undoes
      <3>4. \A m \in mounts : m.run = run => m.point \in Held \union leaked \/ cause = "failed"
        BY <3>3 DEF OwnInv
      <3>5. CASE Umount(p) /\ leaked' = leaked
        <4>1. OwnShown(p) BY <3>2, <3>3 DEF ShownInv
        <4>2. \A m \in mounts' : m.run = run => m.point # p
          BY <1>0, <3>2, <3>5, <4>1, UmountOwn
        <4>3. \A m \in mounts' : m.run = run => m.point \in Held' \union leaked' \/ cause' = "failed"
          BY <2>0, <3>2, <3>3, <3>4, <3>5, <4>2
        <4>4. QED BY <2>0, <2>1, <3>3, <4>3 DEF OwnInv, OwnFlat
      <3>6. CASE mounts' = mounts /\ leaked' = leaked \union {p}
        <4>1. \A m \in mounts' : m.run = run => m.point \in Held' \union leaked' \/ cause' = "failed"
          BY <3>2, <3>3, <3>4, <3>6
        <4>2. QED BY <2>0, <2>1, <3>3, <4>1 DEF OwnInv, OwnFlat
      <3>7. QED BY <3>1, <3>5, <3>6 DEF Undoes
    <2>7. CASE Conclude \/ Die
      <3>1. phase' = "over" BY <2>7 DEF Conclude, Die
      <3>2. QED BY <2>1, <3>1 DEF OwnInv, OwnFlat
    <2>8. CASE UNCHANGED vars
      BY <2>8 DEF OwnInv, vars, Held, run
    <2>9. CASE Work BY <1>2, <2>2, <2>4, <2>5, <2>9, WorkOutcome DEF AttachesAt
    <2>10. QED BY <1>1, <2>6, <2>7, <2>8, <2>9 DEF Next
  <1>4. QED BY <1>1, <1>2, <1>3, TableOutcome

\* A run that ends by itself and leaves a mount of its own has failed.
LEMMA LeftStep ==
  ASSUME Control, Table, OwnInv, LeftMountMeansFailed, [Next]_vars
  PROVE  LeftMountMeansFailed'
  <1>1. CASE Launch BY <1>1 DEF Launch, LeftMountMeansFailed
  <1>2. CASE Work
    <2>1. phase' # "over"
      BY <1>2, WorkOutcome DEF Releases, Opens, Passes, Attaches, Leaves
    <2>2. QED BY <2>1 DEF LeftMountMeansFailed
  <1>3. CASE UndoOk \/ UndoErr BY <1>3, UndoOutcome DEF Undoes, LeftMountMeansFailed
  <1>4. CASE Conclude
    <2>1. Held = {} BY <1>4 DEF Conclude, Held
    <2>2. mounts' = mounts /\ run' = run BY <1>4 DEF Conclude, run
    <2>3. ASSUME NEW m \in mounts, m.run = run PROVE verdict' = "failed"
      <3>1. m.point \in leaked \/ cause = "failed" BY <1>4, <2>1, <2>3 DEF OwnInv, Conclude
      <3>2. QED BY <1>4, <3>1 DEF Conclude
    <2>4. QED BY <2>2, <2>3 DEF LeftMountMeansFailed
  <1>5. CASE Die BY <1>5 DEF Die, LeftMountMeansFailed
  <1>6. CASE UNCHANGED vars BY <1>6 DEF vars, LeftMountMeansFailed, run
  <1>7. QED BY <1>1, <1>2, <1>3, <1>4, <1>5, <1>6 DEF Next

-----------------------------------------------------------------------------
(* The runs of a user who stays with one disk.                             *)

\* A table without partitions of the disk is empty.
LEMMA EmptyTable ==
  ASSUME MountTyping, Rooted, NEW d, \A m \in mounts : m.point \in OnDisk => m.source = d,
         \A m \in mounts : m.source # d
  PROVE  mounts = {}
  <1>1. ASSUME NEW m \in mounts PROVE FALSE
    <2>1. m.point \in Points /\ m.point \notin {"/", "staging"} BY DEF MountTyping, OnDisk
    <2>2. "/" \in PathTo[m.point] \ {m.point} BY <2>1, Paths
    <2>3. PICK r \in mounts : r.point = "/" BY <2>2 DEF Rooted
    <2>4. QED BY <2>3 DEF OnDisk
  <1>2. QED BY <1>1

\* The disk of a run that comes after others on the same disk.
LEMMA SameDisk ==
  ASSUME ControlTyping, Launch, OneDiskOnly', run # 0
  PROVE  OneDiskOnly /\ disk' = disk
  <1>1. PICK d \in Disks : disks' = Append(disks, d) BY DEF Launch
  <1>2. /\ run \in Nat \ {0} /\ run' = run + 1 /\ DOMAIN disks = 1..run
        /\ DOMAIN disks' = 1..run + 1
        /\ \A i \in 1..run : disks'[i] = disks[i]
    BY <1>1 DEF run, ControlTyping
  <1>3. disks # << >> /\ disks' # << >> BY <1>2 DEF run
  <1>4. disk = disks[run] /\ disk' = disks'[run'] BY <1>3 DEF disk
  <1>5. \A i \in 1..run + 1 : disks'[i] = disk' BY <1>2 DEF OneDiskOnly
  <1>6. \A i \in 1..run : i \in 1..run + 1 BY <1>2
  <1>7. \A i \in 1..run : disks[i] = disk' BY <1>2, <1>5, <1>6
  <1>8. run \in 1..run BY <1>2
  <1>9. QED BY <1>2, <1>4, <1>7, <1>8 DEF OneDiskOnly

\* A new run on the one disk finds what is left of the earlier ones on it.
LEMMA LaunchOneDisk ==
  ASSUME Control, Table, OneDiskInv, Launch
  PROVE  OneDiskInv'
  <1> SUFFICES ASSUME OneDiskOnly'
               PROVE  /\ \A m, n \in mounts' : m.point = n.point => m = n
                      /\ \A m \in mounts' : m.point \in OnDisk => m.source = disk'
                      /\ phase' = "work" /\ at' = 1 =>
                           \A m \in mounts' : m.source = disk' => m.point \in todo'
                      /\ phase' # "idle" /\ at' >= 2 => \A m \in mounts' : m.run = run'
    BY DEF OneDiskInv
  <1>0. ControlTyping /\ MountTyping /\ Rooted /\ mounts' = mounts
    BY DEF Control, Table, Launch
  <1>1. PICK d \in Disks :
          /\ disks' = Append(disks, d)
          /\ todo' = {m.point : m \in {x \in mounts : x.source = d}}
          /\ at' = IF todo' = {} THEN 2 ELSE 1
    BY DEF Launch
  <1>2. disk' = d
    <2>1. Len(disks') = Len(disks) + 1 /\ disks' # << >> /\ disks'[Len(disks) + 1] = d
      BY <1>0, <1>1 DEF ControlTyping
    <2>2. QED BY <2>1 DEF disk, run
  <1>3. CASE run = 0
    <2>1. mounts = {} BY <1>0, <1>3 DEF MountTyping
    <2>2. QED BY <1>0, <2>1
  <1>4. CASE run # 0
    <2>1. OneDiskOnly /\ disk' = disk BY <1>0, <1>4, SameDisk
    <2>2. /\ \A m, n \in mounts : m.point = n.point => m = n
          /\ \A m \in mounts : m.point \in OnDisk => m.source = disk'
      BY <2>1 DEF OneDiskInv
    <2>3. \A m \in mounts : m.source = disk' => m.point \in todo' BY <1>1, <1>2
    <2>4. ASSUME at' >= 2 PROVE mounts = {}
      <3>1. todo' = {} BY <1>1, <2>4
      <3>2. \A m \in mounts : m.source # disk' BY <2>3, <3>1
      <3>3. QED BY <1>0, <2>2, <3>2, EmptyTable
    <2>5. QED BY <1>0, <2>2, <2>3, <2>4
  <1>5. QED BY <1>3, <1>4

\* The one-disk part is preserved by every step.
LEMMA OneDiskStep ==
  ASSUME Control, Table, OwnInv, OneDiskInv, [Next]_vars
  PROVE  OneDiskInv'
  <1>1. CASE Launch BY <1>1, LaunchOneDisk
  <1>2. SUFFICES ASSUME ~Launch, OneDiskOnly'
                 PROVE  /\ \A m, n \in mounts' : m.point = n.point => m = n
                        /\ \A m \in mounts' : m.point \in OnDisk => m.source = disk'
                        /\ phase' = "work" /\ at' = 1 =>
                             \A m \in mounts' : m.source = disk' => m.point \in todo'
                        /\ phase' # "idle" /\ at' >= 2 => \A m \in mounts' : m.run = run'
    BY <1>1 DEF OneDiskInv
  <1>3. disks' = disks BY <1>2, TableOutcome
  <1>4. OneDiskOnly /\ disk' = disk /\ run' = run BY <1>2, <1>3 DEF OneDiskOnly, disk, run
  <1>5. /\ \A m, n \in mounts : m.point = n.point => m = n
        /\ \A m \in mounts : m.point \in OnDisk => m.source = disk
        /\ phase = "work" /\ at = 1 => \A m \in mounts : m.source = disk => m.point \in todo
        /\ phase # "idle" /\ at >= 2 => \A m \in mounts : m.run = run
    BY <1>4 DEF OneDiskInv
  <1>6. MountTyping /\ Rooted /\ ControlTyping /\ at \in 1..12
    BY DEF Table, Control, ControlTyping
  <1>7. ASSUME NEW p, AttachesAt(p)
        PROVE  /\ \A m, n \in mounts' : m.point = n.point => m = n
               /\ \A m \in mounts' : m.point \in OnDisk => m.source = disk
               /\ at' >= 2 /\ \A m \in mounts' : m.run = run
    <2>1. PICK n : Attaching(n, p) BY <1>7, WorkAttaches
    <2>2. phase = "work" /\ at >= 3 /\ at' >= at
      BY <1>6, <1>7, WhereAt DEF AttachesAt, Attaches, Opens
    <2>3. \A m \in mounts : m.run = run BY <1>5, <1>6, <2>2
    <2>4. \A m \in mounts : m.point # p BY <1>7, <2>3, NewPoint
    <2>5. mounts' = mounts \union {n} /\ n.point = p /\ n.source = Source(p) /\ n.run = run
      BY <2>1 DEF Attaching
    <2>6. n.point \in OnDisk => n.source = disk BY <2>5 DEF Source
    <2>7. at' \in Int
      BY <1>6, <1>7 DEF AttachesAt, Attaches, Opens
    <2>8. at' >= 2 BY <1>6, <2>2, <2>7
    <2>9. QED BY <1>5, <2>3, <2>4, <2>5, <2>6, <2>8
  <1>8. CASE Detaching
    <2>0. mounts' \subseteq mounts BY <1>8 DEF Detaching
    <2>1. /\ \A m, n \in mounts' : m.point = n.point => m = n
          /\ \A m \in mounts' : m.point \in OnDisk => m.source = disk
      BY <1>5, <2>0
    <2>2. CASE phase' # "work" /\ at' = at /\ phase # "idle"
      BY <1>4, <1>5, <2>0, <2>1, <2>2
    <2>3. CASE Releases
      <3>1. PICK p \in todo : UmountTree(p) /\ todo' = todo \ {p} BY <2>3 DEF Releases
      <3>2. PICK m \in mounts : m.point = p /\ m \notin mounts'
        BY <3>1 DEF UmountTree, Shown, Tree
      <3>3. ASSUME NEW x \in mounts', x.source = disk PROVE x.point \in todo'
        <4>1. x.point \in todo BY <1>5, <2>0, <2>3, <3>3 DEF Releases
        <4>2. x.point # p BY <1>5, <2>0, <3>2
        <4>3. QED BY <3>1, <4>1, <4>2
      <3>4. at' = 1 BY <2>3 DEF Releases
      <3>5. QED BY <1>4, <2>1, <3>3, <3>4
    <2>4. CASE Passes
      <3>1. phase = "work" /\ at' = at + 1 BY <2>4 DEF Passes
      <3>2. at' # 1 BY <1>6, <3>1
      <3>3. CASE at = 1
        <4>1. todo = {} BY <2>4, <3>3 DEF Passes
        <4>2. \A m \in mounts : m.source # disk BY <1>5, <3>1, <3>3, <4>1
        <4>3. mounts = {} BY <1>5, <1>6, <4>2, EmptyTable
        <4>4. mounts' = {} BY <2>0, <4>3
        <4>5. QED BY <3>2, <4>4
      <3>4. CASE at # 1
        <4>1. at >= 2 BY <1>6, <3>4
        <4>2. \A m \in mounts : m.run = run BY <1>5, <3>1, <4>1
        <4>3. QED BY <1>4, <2>0, <2>1, <3>2, <4>2
      <3>5. QED BY <3>3, <3>4
    <2>5. CASE Leaves BY <2>2, <2>5 DEF Leaves
    <2>6. CASE UndoOk \/ UndoErr
      <3>1. Undoes BY <2>6, UndoOutcome
      <3>2. QED BY <2>2, <3>1 DEF Undoes
    <2>7. CASE Conclude \/ Die BY <2>2, <2>7 DEF Conclude, Die
    <2>8. CASE UNCHANGED vars BY <1>4, <1>5, <2>8 DEF vars
    <2>9. CASE Work
      <3>1. Releases \/ Opens \/ Passes \/ Attaches \/ Leaves BY <2>9, WorkOutcome
      <3>2. CASE Opens \/ Attaches
        <4>1. PICK p : AttachesAt(p) BY <3>2 DEF AttachesAt
        <4>2. at' # 1
          <5>1. at' >= 2 BY <1>7, <4>1
          <5>2. QED BY <5>1
        <4>3. QED BY <1>4, <1>7, <4>1, <4>2
      <3>3. QED BY <2>3, <2>4, <2>5, <3>1, <3>2
    <2>10. QED BY <1>2, <2>6, <2>7, <2>8, <2>9 DEF Next
  <1>9. ASSUME NEW p, AttachesAt(p)
        PROVE  phase' = "work" /\ at' = 1 =>
                 \A m \in mounts' : m.source = disk' => m.point \in todo'
    <2>1. at' >= 2 BY <1>7, <1>9
    <2>2. at' # 1 BY <2>1
    <2>3. QED BY <2>2
  <1>10. QED BY <1>2, <1>4, <1>7, <1>8, <1>9, TableOutcome

-----------------------------------------------------------------------------
(* The theorems.                                                           *)

\* The first state.
LEMMA InitInv == Init => Inv
  <1> SUFFICES ASSUME Init PROVE Inv OBVIOUS
  <1>1. disks \in Seq(Disks) /\ Len(disks) = 0 /\ acquired \in Seq(Points)
        /\ DOMAIN acquired = {}
    BY DEF Init
  <1>2. ControlTyping BY <1>1, BoundAssumption DEF Init, ControlTyping
  <1>3. Control
    BY <1>1, <1>2 DEF Init, Control, InnerInv, HeldInv, DistinctInv, EndInv
  <1>4. MountTyping /\ Rooted BY <1>1 DEF Init, MountTyping, Rooted
  <1>5. Bounded
    <2>1. 0 \in Nat /\ \A m \in mounts : m.id <= 0 BY DEF Init
    <2>2. QED BY <2>1 DEF Bounded
  <1>6. ShownInv /\ OwnInv /\ LeftMountMeansFailed
    BY DEF Init, ShownInv, OwnInv, LeftMountMeansFailed
  <1>7. OneDiskInv BY DEF Init, OneDiskInv
  <1>8. QED BY <1>3, <1>4, <1>5, <1>6, <1>7 DEF Inv, Table

\* Every step preserves the invariant.
LEMMA NextInv == Inv /\ [Next]_vars => Inv'
  BY ControlStep, TableStep, ShownStep, OwnStep, LeftStep, OneDiskStep DEF Inv

\* The invariant holds throughout.
THEOREM Invariance == Spec => []Inv
  BY InitInv, NextInv, PTL DEF Spec

\* The state of the table and of the runs is well typed: ids are unique, mounts
\* belong to runs there have been.
THEOREM TypeCorrectness == Spec => []TypeOK
  <1>1. Inv => TypeOK
    BY Sequence DEF Inv, Control, ControlTyping, Table, MountTyping, TypeOK
  <1>2. QED BY <1>1, Invariance, PTL

\* From the extraction on, the paths the operations write through lead to the
\* disk of this run, whatever earlier runs have left mounted below the same
\* root: for any number of runs, each of which may have died at any point.
THEOREM Reach == Spec => []WritesReachTarget
  <1>1. Inv => WritesReachTarget
    <2> SUFFICES ASSUME Inv, phase = "work", at > 6, NEW p \in {"/", "/home", "/boot/efi"}
                 PROVE  \E m \in Shown(p) : m.source = disk /\ m.run = run
      BY DEF WritesReachTarget
    <2>1. p \in Points /\ p \in OnDisk BY Paths DEF OnDisk
    <2>2. \E i \in 1..12 : i < at /\ Steps[i] = p
      <3>1. at \in 1..12 BY DEF Inv, Control, ControlTyping
      <3>2. 4 < at /\ 5 < at /\ 6 < at BY <3>1
      <3>3. QED BY <3>2, Sequence
    <2>3. p \in Held BY <2>1, <2>2 DEF Inv, Control, HeldInv
    <2>4. OwnShown(p) BY <2>3 DEF Inv, ShownInv
    <2>5. QED BY <2>1, <2>4 DEF OwnShown, Source
  <1>2. QED BY <1>1, Invariance, PTL

\* A run that ends by itself and leaves a mount of its own has failed.
THEOREM Left == Spec => []LeftMountMeansFailed
  <1>1. Inv => LeftMountMeansFailed BY DEF Inv
  <1>2. QED BY <1>1, Invariance, PTL

\* The unwind detaches what its own run has attached and nothing else.
THEOREM Unwinds == Spec => UnwindsOwnMounts
  <1>1. Inv /\ [Next]_vars => [phase = "unwind" => \A m \in mounts \ mounts' : m.run = run]_vars
    <2> SUFFICES ASSUME Inv, Next, phase = "unwind", NEW m \in mounts \ mounts'
                 PROVE  m.run = run
      OBVIOUS
    <2>1. CASE UndoOk \/ UndoErr
      <3>1. Undoes BY <2>1, UndoOutcome DEF Inv
      <3>2. Umount(acquired[Len(acquired)]) BY <3>1 DEF Undoes
      <3>3. acquired[Len(acquired)] \in Held /\ acquired[Len(acquired)] \in Points
        <4>1. acquired \in Seq(Points) /\ acquired # << >> BY <3>1 DEF Undoes, Inv, Control, ControlTyping
        <4>2. Len(acquired) \in DOMAIN acquired BY <4>1
        <4>3. QED BY <4>1, <4>2 DEF Held
      <3>4. OwnShown(acquired[Len(acquired)]) BY <3>3 DEF Inv, ShownInv
      <3>5. \E x \in mounts : x.run = run /\ mounts' = mounts \ {x}
        BY <3>2, <3>3, <3>4, UmountTakes DEF Inv, Table
      <3>6. QED BY <3>5
    <2>2. CASE Launch BY <2>2 DEF Launch
    <2>3. CASE Work
      BY <2>3, WorkOutcome DEF Inv, Releases, Opens, Passes, Attaches, Leaves
    <2>4. CASE Conclude \/ Die BY <2>4 DEF Conclude, Die
    <2>5. QED BY <2>1, <2>2, <2>3, <2>4 DEF Next
  <1>2. QED BY <1>1, Invariance, PTL DEF Spec, UnwindsOwnMounts

\* Once ReleaseDisk has succeeded the chosen disk is free, also when an earlier
\* run on it died at any point.
THEOREM Released == Spec => []ReleasedBeforeWipe
  <1>1. Inv => ReleasedBeforeWipe
    <2> SUFFICES ASSUME Inv, OneDiskOnly, Working("partition"), NEW m \in mounts
                 PROVE  FALSE
      BY DEF ReleasedBeforeWipe, InUse
    <2>1. phase = "work" /\ at = 2 /\ inner = "none"
      BY WhereAt, InnerWhere DEF Inv, Control, Working
    <2>2. Held = {} BY <2>1, NothingHeld DEF Inv
    <2>3. m.run = run BY <2>1 DEF Inv, OneDiskInv
    <2>4. m.point = "none" BY <2>1, <2>2, <2>3 DEF Inv, OwnInv
    <2>5. QED BY <2>4, Paths DEF Inv, Table, MountTyping
  <1>2. QED BY <1>1, Invariance, PTL

\* After a successful run of a user who stays with one disk nothing is mounted,
\* whatever became of the earlier runs.
THEOREM Unmounted == Spec => []RetryIsUnmounted
  <1>1. Inv => RetryIsUnmounted
    <2> SUFFICES ASSUME Inv, OneDiskOnly, phase = "over", verdict = "completed",
                        NEW m \in mounts
                 PROVE  FALSE
      BY DEF RetryIsUnmounted
    <2>1. at >= 2 BY DEF Inv, Control, EndInv
    <2>2. m.run = run BY <2>1 DEF Inv, OneDiskInv
    <2>3. QED BY <2>2 DEF Inv, LeftMountMeansFailed
  <1>2. QED BY <1>1, Invariance, PTL

=============================================================================
