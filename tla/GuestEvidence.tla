--------------------------- MODULE GuestEvidence ---------------------------
(***************************************************************************)
(* The QEMU test machine of a candidate and the evidence its guest streams  *)
(* to the host: kiwi/test/build-and-run-vm.sh, rehearsal-trace.py,          *)
(* guest/live-gate.sh and guest/rollback-gate.sh with lyra-update-smoke,    *)
(* gate-evidence.py and rollback-evidence.py. Host and guest may be cut off *)
(* at any moment; a block whose END marker never arrives is not a block.    *)
(***************************************************************************)
EXTENDS Naturals, Sequences, FiniteSets, SequencesExt

CONSTANT Plans   \* see Plan

\* sections: what the guest runs; vms: machines ever created; launches: of one
\* machine; blocks: of one stream; trouble: phases that fail, are refused or
\* restarted, and blocks that are lost.
Plan == [sections : SUBSET {"exercise", "installer"}, vms : Nat, launches : Nat, blocks : Nat, trouble : Nat]

ASSUME PlansAssumption == Plans \subseteq Plan

VARIABLES
  vm,       \* the disk and its identity: [number, iso, step, launches]
  trace,    \* QEMU launches rehearsal-trace.py recorded, 0 when there is no trace
  stream,   \* upgrade-guest-evidence.jsonl: the blocks that ended
  esp,      \* lyra-update-smoke's state on the ESP: [phase, exercise]
  passed,   \* what really happened: [number, exercise, phase] of the runs that passed
  extracted,\* result -> the blocks its file was made of, << >> if there is none
  trouble,
  plan      \* never changes

guestVars == <<vm, trace, stream, esp, passed, extracted, trouble, plan>>

Phases == <<"baseline", "update", "verify-updated", "prepare-rollback", "verify-rollback">>
Sections == ToSet(Phases) \cup {"installer"}
Roles_ == {"installer", "rollback"}

\* Where the script that starts QEMU is: no machine, wiped, its identity and its
\* disk made, the launch recorded, QEMU running or ended.
VmSteps == {"none", "wiped", "identified", "created", "recorded", "running", "off"}

-----------------------------------------------------------------------------
(* A new machine, step by step; it is booted from the ISO, later from disk. *)

\* The script ends a QEMU that runs, and may be begun anew wherever it was killed.
WipeVm ==
  /\ vm.number < plan.vms
  /\ vm' = [number |-> vm.number + 1, iso |-> 0, step |-> "wiped", launches |-> 0]
  /\ trace' = 0
  /\ stream' = << >>
  /\ esp' = [phase |-> "none", exercise |-> 0]
  /\ UNCHANGED <<passed, extracted, trouble, plan>>

CreateVm ==
  /\ \/ vm.step = "wiped" /\ vm' = [vm EXCEPT !.step = "identified"]
     \/ vm.step = "identified" /\ vm' = [vm EXCEPT !.step = "created"]
  /\ UNCHANGED <<trace, stream, esp, passed, extracted, trouble, plan>>

\* Mutant: the launch is only recorded for a machine that was never recorded.
RecordOnce ==
  /\ vm.step \in {"created", "off"}
  /\ trace < plan.launches /\ vm.launches < plan.launches
  /\ vm' = [vm EXCEPT !.step = "recorded"]
  /\ trace' = IF trace = 0 THEN 1 ELSE trace
  /\ UNCHANGED <<stream, esp, passed, extracted, trouble, plan>>

\* rehearsal-trace.py appends a launch and replaces the trace by the new one.
RecordLaunch ==
  /\ vm.step \in {"created", "off"}
  /\ trace < plan.launches /\ vm.launches < plan.launches
  /\ vm' = [vm EXCEPT !.step = "recorded"]
  /\ trace' = trace + 1
  /\ UNCHANGED <<stream, esp, passed, extracted, trouble, plan>>

\* The first launch is given the ISO the directory holds by then.
BootLive(iso) ==
  /\ vm.step = "recorded" /\ trace = 1
  /\ vm' = [vm EXCEPT !.step = "running", !.iso = iso, !.launches = @ + 1]
  /\ UNCHANGED <<trace, stream, esp, passed, extracted, trouble, plan>>

\* --boot-installed: the disk alone, even if nothing was ever installed on it.
BootDisk ==
  /\ vm.step = "recorded"
  /\ vm' = [vm EXCEPT !.step = "running", !.launches = @ + 1]
  /\ UNCHANGED <<trace, stream, esp, passed, extracted, trouble, plan>>

\* QEMU ends or is killed; or the script is, before it has launched it.
StopVm ==
  /\ vm.step \in {"running", "recorded"}
  /\ vm' = [vm EXCEPT !.step = "off"]
  /\ UNCHANGED <<trace, stream, esp, passed, extracted, trouble, plan>>

-----------------------------------------------------------------------------
(* In the guest.                                                           *)

\* There is a guest: QEMU runs a machine that was booted from an ISO once.
GuestRuns == vm.step = "running" /\ vm.iso # 0

\* require_phase: the states of the workflow each phase goes on from.
From(phase) ==
  CASE phase = "update" -> {"baseline"}
    [] phase = "verify-updated" -> {"updated", "updated-verified"}
    [] phase = "prepare-rollback" -> {"updated-verified"}
    [] phase = "verify-rollback" -> {"rollback-prepared", "rollback-verified"}

To == [p \in ToSet(Phases) |->
        CASE p = "baseline" -> "baseline" [] p = "update" -> "updated"
          [] p = "verify-updated" -> "updated-verified"
          [] p = "prepare-rollback" -> "rollback-prepared"
          [] p = "verify-rollback" -> "rollback-verified"]

\* baseline refuses a state that is there unless it may restart.
Allowed(phase, restart) ==
  IF phase = "baseline" THEN esp.phase = "none" \/ restart ELSE esp.phase \in From(phase)

\* A phase that fails after it has written its state: baseline and update say so,
\* the others leave it.
AfterFailure(phase) ==
  CASE phase = "baseline" -> "baseline-failed" [] phase = "update" -> "update-failed"
    [] OTHER -> esp.phase

Block(phase, exercise, ok) == [section |-> phase, number |-> vm.number, exercise |-> exercise, ok |-> ok]

\* The report arrives whole, or QEMU is gone before its END marker.
Streamed(block, restart) ==
  \E lost \in BOOLEAN :
    /\ stream' = IF lost THEN stream ELSE Append(stream, block)
    /\ trouble' = trouble + Cardinality({c \in {1} : lost} \cup {c \in {2} : ~block.ok} \cup {c \in {3} : restart})
    /\ trouble' <= plan.trouble

\* rollback-gate.sh: one phase, then its report, with exit 1 if it failed; it may
\* be refused or raise before it has written its state.
RunPhase(phase, restart) ==
  /\ "exercise" \in plan.sections
  /\ GuestRuns
  /\ Len(stream) < plan.blocks
  /\ LET exercise == IF phase = "baseline" /\ Allowed(phase, restart)
                     THEN esp.exercise + 1 ELSE esp.exercise
     IN  \/ /\ Allowed(phase, restart)
            /\ esp' = [phase |-> To[phase], exercise |-> exercise]
            /\ passed' = passed \cup {[number |-> vm.number, exercise |-> exercise, phase |-> phase]}
            /\ Streamed(Block(phase, exercise, TRUE), restart)
         \/ /\ \/ UNCHANGED esp
               \/ /\ Allowed(phase, restart)
                  /\ esp' = [phase |-> AfterFailure(phase), exercise |-> exercise]
            /\ UNCHANGED passed
            /\ Streamed(Block(phase, exercise, FALSE), restart)
  /\ UNCHANGED <<vm, trace, extracted, plan>>

\* live-gate.sh installer: after the installer finished, or failed, in the guest.
StreamInstaller ==
  /\ "installer" \in plan.sections
  /\ GuestRuns
  /\ Len(stream) < plan.blocks
  /\ \E ok \in BOOLEAN : Streamed(Block("installer", 0, ok), FALSE)
  /\ UNCHANGED <<vm, trace, esp, passed, extracted, plan>>

-----------------------------------------------------------------------------
(* On the host.                                                            *)

IndicesOf(section, blocks) == {i \in DOMAIN blocks : blocks[i].section = section}
LastOf(section, blocks) ==
  CHOOSE i \in IndicesOf(section, blocks) : \A j \in IndicesOf(section, blocks) : j <= i

\* gate-evidence.py: the last block of the section must have passed.
ExtractInstaller ==
  /\ IndicesOf("installer", stream) # {}
  /\ LET block == stream[LastOf("installer", stream)] IN
     /\ block.ok
     /\ extracted' = [extracted EXCEPT !["installer"] = <<block>>]
  /\ UNCHANGED <<vm, trace, stream, esp, passed, trouble, plan>>

\* final_run: from the last baseline on, the last block of each phase.
LastExercise == SubSeq(stream, LastOf("baseline", stream), Len(stream))
Selected == [i \in DOMAIN Phases |-> LastOf(Phases[i], LastExercise)]
HasFinalRun ==
  /\ IndicesOf("baseline", stream) # {}
  /\ \A i \in DOMAIN Phases : IndicesOf(Phases[i], LastExercise) # {}
  /\ \A i \in 1 .. Len(Phases) - 1 : Selected[i] <= Selected[i + 1]

\* Mutant: the report of verify-rollback is not looked at.
AssembledButFinal == \A i \in 1 .. Len(Phases) - 1 : LastExercise[Selected[i]].ok

\* assemble and check_rollback_result
Assembled == \A i \in DOMAIN Phases : LastExercise[Selected[i]].ok

AssembleRollback ==
  /\ HasFinalRun
  /\ Assembled
  /\ extracted' = [extracted EXCEPT !["rollback"] = [i \in DOMAIN Phases |-> LastExercise[Selected[i]]]]
  /\ UNCHANGED <<vm, trace, stream, esp, passed, trouble, plan>>

-----------------------------------------------------------------------------
GuestInit ==
  /\ vm = [number |-> 0, iso |-> 0, step |-> "none", launches |-> 0]
  /\ trace = 0
  /\ stream = << >>
  /\ esp = [phase |-> "none", exercise |-> 0]
  /\ passed = {}
  /\ extracted = [role \in Roles_ |-> << >>]
  /\ trouble = 0
  /\ plan \in Plans

Exercise == \E phase \in ToSet(Phases), restart \in BOOLEAN : RunPhase(phase, restart)

Machine == WipeVm \/ CreateVm \/ RecordLaunch \/ BootDisk \/ StopVm

-----------------------------------------------------------------------------
GuestTypeOK ==
  /\ vm.number \in 0 .. plan.vms /\ vm.launches \in 0 .. plan.launches /\ vm.step \in VmSteps
  /\ trace \in Nat
  /\ \A i \in DOMAIN stream : stream[i].section \in Sections
  /\ DOMAIN extracted = Roles_

\* A rollback result is only made of an exercise all five phases of which really
\* passed on that machine, whatever was repeated, refused, restarted or lost on
\* its way to the host (assemble; the docstring of final_run). The stream holds
\* blocks of the machine there is now only (build-and-run-vm.sh:1040); a result
\* that was extracted before may be the one of an earlier machine.
RollbackReallyPassed ==
  /\ \A i \in DOMAIN stream : stream[i].number = vm.number
  /\ extracted["rollback"] # << >> =>
       LET final == Last(extracted["rollback"]) IN
       \A p \in ToSet(Phases) :
         [number |-> final.number, exercise |-> final.exercise, phase |-> p] \in passed

\* No launch of a machine is missing from its trace: it is recorded before QEMU
\* starts and replaced in one step, so that a killed script records one too many
\* and never one too few (rehearsal-trace.py, build-and-run-vm.sh:1089).
TraceCoversLaunches == vm.launches <= trace
=============================================================================
