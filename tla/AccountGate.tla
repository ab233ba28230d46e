---------------------------- MODULE AccountGate ----------------------------
(***************************************************************************)
(* The admission gate of one supervised account, the prototype beside the  *)
(* evidence of parental-transitions: transition.py closes the account      *)
(* while root changes something about it, the PAM module pam-guard.c lets  *)
(* a session in only under a shared lease and an active record, and        *)
(* pam-probe.py holds, forks and ends the handles.  A transition may fail  *)
(* or be killed between any two of its steps, a write of the record may    *)
(* fail before or after the rename took effect, the machine may restart,   *)
(* and the scan of /proc reads one process after the other.                *)
(***************************************************************************)
EXTENDS Naturals, FiniteSets, FiniteSetsExt

CONSTANTS Writers,    \* controllers that run transitions
          Sessions,   \* PAM handles of the account
          Pids,       \* process numbers of the account, scanned in this order
          MaxRounds   \* bound: transitions and restarts in a behaviour

ASSUME GateAssumption == Pids \subseteq Nat /\ MaxRounds \in Nat

VARIABLES
  files,    \* the lock files that exist
  record,   \* what a reader finds in <uid>.state
  disk,     \* what a restart may find there
  writer,   \* [Writers -> a step of transition()]
  scanned,  \* [Writers -> pids the running scan has passed]
  stable,   \* the account still is the one of the binding
  session,  \* [Sessions -> [pc, copies, late]]
  process,  \* [Pids -> "none", "seen" or "stray": one no scan could see]
  failed,   \* since the last publication: "no", or a transition failed that
            \* had only "closed" the gate, or had "worked" under the lease
  unresolved, \* it also failed, or was killed, while it restored the denial
  rounds

gateVars == <<files, record, disk, writer, scanned, stable, session, process,
              failed, unresolved, rounds>>

LockFiles == {".lock", ".writer"}
NoSession == [pc |-> "none", copies |-> 0, late |-> FALSE]

GateInit ==
  /\ files = {} /\ record = "none" /\ disk = {"none"}
  /\ writer = [w \in Writers |-> "out"] /\ scanned = [w \in Writers |-> {}]
  /\ stable = TRUE
  /\ session = [s \in Sessions |-> NoSession]
  /\ process = [p \in Pids |-> "none"]
  /\ failed = "no" /\ unresolved = FALSE /\ rounds = 0

----------------------------------------------------------------------------
(* Locks: .writer is held from its flock to the end of the transition, the *)
(* exclusive lease from its flock on; a session's lease lives as long as a *)
(* copy of its handle holds the shared description.                        *)
HoldsLease == {"leased", "scanning", "body", "left", "rescanning", "publishing", "restoring"}
WriterLocked == \E w \in Writers : writer[w] # "out"
Leased == \E w \in Writers : writer[w] \in HoldsLease
Shared(s) == session[s].pc \in {"asked", "read"} \/ session[s].copies > 0
Scanning == \E w \in Writers : writer[w] \in HoldsLease \ {"leased"}

Go(w, pc) == writer' = [writer EXCEPT ![w] = pc]

\* write_state: complete; failed before the rename; failed after it, when
\* the new name may or may not be on the disk.
Written(value) == record' = value /\ disk' = {value}
NotWritten == UNCHANGED <<record, disk>>
HalfWritten(value) == record' = value /\ disk' = disk \cup {value}
WriteFails(value) == NotWritten \/ HalfWritten(value)

\* initialize: fresh lock files only; a failed attempt leaves what it made.
Initialize ==
  /\ files = {} /\ ~WriterLocked
  /\ \/ files' = LockFiles /\ (Written("blocked") \/ WriteFails("blocked"))
     \/ files' = {".lock"} /\ NotWritten
  /\ UNCHANGED <<writer, scanned, stable, session, process, failed, unresolved, rounds>>

\* transition() up to its first write; a held .writer lock refuses it.
Enter(w) ==
  /\ writer[w] = "out" /\ ".writer" \in files /\ ~WriterLocked /\ rounds < MaxRounds
  /\ Go(w, "mine") /\ rounds' = rounds + 1
  /\ UNCHANGED <<files, record, disk, scanned, stable, session, process, failed, unresolved>>

Block(w) ==
  /\ writer[w] = "mine"
  /\ \/ Written("blocked") /\ Go(w, "blocked")
     \/ WriteFails("blocked") /\ Go(w, "out")
  /\ UNCHANGED <<files, scanned, stable, session, process, failed, unresolved, rounds>>

\* What the end of some controllers without a publication adds to the history.
FailedBy(ended) ==
  IF \E w \in ended : writer[w] \in HoldsLease THEN "worked"
  ELSE IF failed = "no" /\ \E w \in ended : writer[w] = "blocked" THEN "closed" ELSE failed

\* The error path of a transition that had closed the gate: denial stays.
Fail(w) == Go(w, "out") /\ failed' = FailedBy({w}) /\ scanned' = [scanned EXCEPT ![w] = {}]

Lease(w) ==
  /\ writer[w] = "blocked"
  /\ IF ".lock" \notin files \/ \E s \in Sessions : Shared(s)
       THEN Fail(w)
       ELSE Go(w, "leased") /\ UNCHANGED <<failed, scanned>>
  /\ UNCHANGED <<files, record, disk, stable, session, process, unresolved, rounds>>

\* check_identity, before the body and after it.
CheckIdentity(w) ==
  /\ writer[w] \in {"leased", "left"}
  /\ IF ~stable THEN Fail(w)
     ELSE /\ Go(w, IF writer[w] = "leased" THEN "scanning" ELSE "rescanning")
          /\ scanned' = [scanned EXCEPT ![w] = {}] /\ UNCHANGED failed
  /\ UNCHANGED <<files, record, disk, stable, session, process, unresolved, rounds>>

Remaining(w) == Pids \ scanned[w]

\* check_idle: one entry of /proc is read; a process found ends the scan.
Scan(w) ==
  /\ writer[w] \in {"scanning", "rescanning"} /\ Remaining(w) # {}
  /\ LET p == Min(Remaining(w)) IN
       IF process[p] # "none" THEN Fail(w)
       ELSE /\ scanned' = [scanned EXCEPT ![w] = @ \cup {p}]
            /\ UNCHANGED <<writer, failed>>
  /\ UNCHANGED <<files, record, disk, stable, session, process, unresolved, rounds>>

Idle(w) ==
  /\ writer[w] \in {"scanning", "rescanning"} /\ Remaining(w) = {}
  /\ Go(w, IF writer[w] = "scanning" THEN "body" ELSE "publishing")
  /\ UNCHANGED <<files, record, disk, scanned, stable, session, process, failed, unresolved, rounds>>

\* What root does while the gate is closed: it may raise, and it may change
\* the account.
Body(w) ==
  /\ writer[w] = "body"
  /\ stable' \in BOOLEAN
  /\ \/ Go(w, "left") /\ UNCHANGED <<failed, scanned>>
     \/ Fail(w)
  /\ UNCHANGED <<files, record, disk, session, process, unresolved, rounds>>

Publish(w) ==
  /\ writer[w] = "publishing"
  /\ \/ Written("active") /\ Go(w, "out") /\ failed' = "no" /\ unresolved' = FALSE
     \/ WriteFails("active") /\ Go(w, "restoring") /\ UNCHANGED <<failed, unresolved>>
  /\ UNCHANGED <<files, scanned, stable, session, process, rounds>>

RestoreForgotten(w) ==  \* mutant: the failed publication is only re-raised
  /\ writer[w] = "restoring"
  /\ Fail(w) /\ NotWritten
  /\ UNCHANGED <<files, stable, session, process, unresolved, rounds>>

\* The error handler of the publication closes the gate again, still under
\* both locks; when that write fails too the storage fault is unresolved.
Restore(w) ==
  /\ writer[w] = "restoring"
  /\ Fail(w)
  /\ \/ Written("blocked") /\ UNCHANGED unresolved
     \/ WriteFails("blocked") /\ unresolved' = TRUE
  /\ UNCHANGED <<files, stable, session, process, rounds>>

\* SIGKILL: the kernel drops both locks.  The record stays as it is, unless
\* the controller was in a write and its rename was already done; a rename of
\* the active record is a publication: both checks had passed before it.
KillWriter(w) ==
  /\ writer[w] # "out"
  /\ Go(w, "out") /\ scanned' = [scanned EXCEPT ![w] = {}]
  /\ \/ /\ \/ NotWritten
           \/ writer[w] \in {"mine", "restoring"} /\ HalfWritten("blocked")
        /\ failed' = FailedBy({w})
        /\ unresolved' = (unresolved \/ writer[w] = "restoring")
     \/ /\ writer[w] = "publishing" /\ HalfWritten("active")
        /\ failed' = "no" /\ unresolved' = FALSE
  /\ UNCHANGED <<files, stable, session, process, rounds>>

\* Root puts the account's identity back, outside a transition.
RestoreIdentity ==
  /\ ~stable /\ ~WriterLocked
  /\ stable' = TRUE
  /\ UNCHANGED <<files, record, disk, writer, scanned, session, process, failed, unresolved, rounds>>

----------------------------------------------------------------------------
(* Sessions.                                                               *)
Set(s, value) == session' = [session EXCEPT ![s] = value]

\* The checks of the account against its binding come before any lock.
KnowAccount(s) ==
  /\ session[s].pc = "none" /\ stable
  /\ Set(s, [NoSession EXCEPT !.pc = "known"])
  /\ UNCHANGED <<files, record, disk, writer, scanned, stable, process, failed, unresolved, rounds>>

\* acquire_lease asks for the shared lock, which excludes the lease of a
\* transition but not its first write: that one comes before its lease.
TakeShared(s) ==
  /\ session[s].pc = "known" /\ ".lock" \in files /\ ~Leased
  /\ Set(s, [session[s] EXCEPT !.pc = "asked"])
  /\ UNCHANGED <<files, record, disk, writer, scanned, stable, process, failed, unresolved, rounds>>

\* acquire_lease reads the record, under the shared lock.
ReadRecord(s) ==
  /\ session[s].pc = "asked" /\ record = "active"
  /\ Set(s, [session[s] EXCEPT !.pc = "read", !.late = failed # "no"])
  /\ UNCHANGED <<files, record, disk, writer, scanned, stable, process, failed, unresolved, rounds>>

\* Only later the session is let in, with the lease in the handle's data.
Admit(s) ==
  /\ session[s].pc = "read"
  /\ Set(s, [pc |-> "open", copies |-> 1, late |-> session[s].late \/ failed = "worked"])
  /\ UNCHANGED <<files, record, disk, writer, scanned, stable, process, failed, unresolved, rounds>>

\* A lock not to be had, another record, SELinux off, another context, a full
\* memory: the session is refused, and the lock file closed.
Refuse(s) ==
  /\ session[s].pc \in {"known", "asked", "read"}
  /\ Set(s, NoSession)
  /\ UNCHANGED <<files, record, disk, writer, scanned, stable, process, failed, unresolved, rounds>>

\* pam-probe's fork-end: the child has a copy of the handle and of its file.
ForkHandle(s) ==
  /\ session[s].copies = 1
  /\ Set(s, [session[s] EXCEPT !.copies = 2])
  /\ UNCHANGED <<files, record, disk, writer, scanned, stable, process, failed, unresolved, rounds>>

EndCopyUnlocks(s) ==  \* mutant: the ended copy unlocks the shared description
  /\ session[s].copies > 0
  /\ Set(s, IF session[s].copies = 1 THEN NoSession
            ELSE [session[s] EXCEPT !.copies = 0])
  /\ UNCHANGED <<files, record, disk, writer, scanned, stable, process, failed, unresolved, rounds>>

\* cleanup_lease and close_session close one copy and never unlock: the
\* lease lasts until the last copy is closed.
EndCopy(s) ==
  /\ session[s].copies > 0
  /\ Set(s, IF session[s].copies = 1 THEN NoSession
            ELSE [session[s] EXCEPT !.copies = @ - 1])
  /\ UNCHANGED <<files, record, disk, writer, scanned, stable, process, failed, unresolved, rounds>>

----------------------------------------------------------------------------
(* Processes of the account: sessions start them, they may outlive their   *)
(* session, systemd starts some outside every session, and each may fork;  *)
(* one that appears behind a running scan is a stray.                      *)
Spawn(p) ==
  /\ process[p] = "none"
  /\ process' = [process EXCEPT ![p] = IF Scanning THEN "stray" ELSE "seen"]
  /\ UNCHANGED <<files, record, disk, writer, scanned, stable, session, failed, unresolved, rounds>>

Exit(p) ==
  /\ process[p] # "none"
  /\ process' = [process EXCEPT ![p] = "none"]
  /\ UNCHANGED <<files, record, disk, writer, scanned, stable, session, failed, unresolved, rounds>>

\* The value a controller is just writing.
InWriting ==
  UNION {CASE writer[w] \in {"mine", "restoring"} -> {"blocked"}
           [] writer[w] = "publishing" -> {"active"}
           [] OTHER -> {} : w \in Writers}

\* A restart ends every process; a rename that was not yet on the disk may
\* be undone by it, and one that was just made may be there.
Restart ==
  /\ rounds < MaxRounds /\ rounds' = rounds + 1
  /\ record' \in disk \cup InWriting /\ disk' = {record'}
  /\ IF record' = "active" /\ "active" \in InWriting
       THEN failed' = "no" /\ unresolved' = FALSE
       ELSE /\ failed' = FailedBy(Writers)
            /\ unresolved' = (unresolved \/ \E w \in Writers : writer[w] = "restoring")
  /\ writer' = [w \in Writers |-> "out"] /\ scanned' = [w \in Writers |-> {}]
  /\ session' = [s \in Sessions |-> NoSession]
  /\ process' = [p \in Pids |-> "none"]
  /\ UNCHANGED <<files, stable>>

Transition(w) ==
  \/ Enter(w) \/ Block(w) \/ Lease(w) \/ CheckIdentity(w) \/ Scan(w) \/ Idle(w)
  \/ Body(w) \/ Publish(w) \/ Restore(w) \/ KillWriter(w)
PamSession(s) ==
  \/ KnowAccount(s) \/ TakeShared(s) \/ ReadRecord(s) \/ Admit(s) \/ Refuse(s)
  \/ ForkHandle(s) \/ EndCopy(s)

GateNext ==
  \/ Initialize \/ RestoreIdentity \/ Restart
  \/ \E w \in Writers : Transition(w)
  \/ \E s \in Sessions : PamSession(s)
  \/ \E p \in Pids : Spawn(p) \/ Exit(p)

GateSpec == GateInit /\ [][GateNext]_gateVars

----------------------------------------------------------------------------
(* While the body of a transition runs, and until its outcome is written,  *)
(* no other controller works, no copy of a session handle is left and none *)
(* is about to be let in, and no process of the account lives except one   *)
(* that was started behind the scan (transition.py:116-135 and :143-159    *)
(* against the leases of pam-guard.c:34-65): what root changes is not in   *)
(* use.                                                                    *)
BodyRunsAlone ==
  \A w \in Writers : writer[w] \in {"body", "left", "rescanning", "publishing", "restoring"} =>
    /\ \A v \in Writers \ {w} : writer[v] = "out"
    /\ \A s \in Sessions : session[s].pc \notin {"read", "open"}
    /\ \A p \in Pids : process[p] # "seen"

(* After a transition that closed the gate has failed or was killed, no    *)
(* session finds an active record until one has been published again (the  *)
(* promise of transition.py:138, "Pre-commit failure keeps denial"); and a *)
(* session that had read it before the gate closed is let in late only     *)
(* beside a transition that never got its lease, so that root changed      *)
(* nothing.  This holds whatever the interleaving of the session's four    *)
(* steps with the transition, and also when the publication failed after   *)
(* its rename.  A publication whose rename was done when SIGKILL or a      *)
(* restart came counts as published, not as failed.  Excepted is the       *)
(* double fault: the publication failed, and so did the write of the       *)
(* denial (:155-157), or the controller was killed in it.                  *)
AdmissionNeedsCommit ==
  \A s \in Sessions : session[s].late => unresolved
============================================================================
