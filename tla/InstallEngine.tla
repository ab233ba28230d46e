--------------------------- MODULE InstallEngine ---------------------------
(***************************************************************************)
(* One run of lyra-installer-service: the root process the wizard starts   *)
(* through pkexec.  `main` reads one request, runs its pre-checks and      *)
(* calls `execute`, which revalidates the plan, performs the operations of *)
(* the plan in order with a cancellation checkpoint before each one, and   *)
(* always undoes what it completed, in reverse order.  A second thread     *)
(* reads the control lines that follow the request on stdin.  Events go to *)
(* stdout; a write to a closed pipe panics (`println!`), and a panic ends  *)
(* the process without undoing anything.                                   *)
(*                                                                         *)
(* Operations are the numbers 1..N, in plan order.  What each one does to  *)
(* the mount table is modelled by TargetMounts.                            *)
(***************************************************************************)
EXTENDS Naturals, Sequences, FiniteSets

CONSTANTS
  N,        \* how many operations the plan translates to
  HasUndo   \* the operations that acquire something `undo` must release

ASSUME NAssumption == N \in Nat \ {0}
ASSUME HasUndoAssumption == HasUndo \subseteq 1..N

Ops == 1..N

\* What may be wrong with a request, or with the machine it arrives at.
Defect == {"malformed", "config", "binaries", "discovery", "translation",
           "schema", "unbuildable", "stale"}

EventKind == {"Started", "Step", "Warning", "Failed", "Completed"}

\* op = 0: the event is not about one operation.
Event == [kind : EventKind, op : 0..N]

Ev(kind, op) == [kind |-> kind, op |-> op]

\* Where the main thread is.  At the points of EmitPoint its next act is to
\* write an event to stdout.
EmitPoint == {"reject", "start", "step", "report", "warn", "conclude"}

ControlPoint == {"read", "validate", "preflight", "discover", "translate",
                 "schema", "revalidate", "loop", "perform", "unwind", "exit"}
                  \union EmitPoint

VARIABLES
  pc,               \* control point of the main thread
  defects,          \* what is wrong with this request (fixed)
  completed,        \* operations whose perform returned Ok, oldest first
  undoAt,           \* how many of `completed` are still to be undone
  held,             \* operations whose resource is acquired and not released
  cancelRequested,  \* the flag the control reader sets
  cancelled,        \* execute saw the flag at a checkpoint
  failed,           \* an operation returned Err
  cleanupErrors,    \* operations whose undo returned Err
  events,           \* what was written to stdout
  stdinOpen,        \* the control reader may still get a line
  stdoutOpen,       \* somebody still reads the events
  exit              \* "running", or how the process ended

vars == <<pc, defects, completed, undoAt, held, cancelRequested, cancelled,
          failed, cleanupErrors, events, stdinOpen, stdoutOpen, exit>>

pipes == <<stdinOpen, stdoutOpen>>
flags == <<cancelled, failed>>
work  == <<completed, held>>

\* The operation the loop is at.
Current == Len(completed) + 1

Init ==
  /\ pc = "read"
  /\ defects \in SUBSET Defect
  /\ completed = << >>
  /\ undoAt = 0
  /\ held = {}
  /\ cancelRequested = FALSE
  /\ cancelled = FALSE
  /\ failed = FALSE
  /\ cleanupErrors = {}
  /\ events = << >>
  /\ stdinOpen = TRUE
  /\ stdoutOpen = TRUE
  /\ exit = "running"

-----------------------------------------------------------------------------
(* main: the request and the pre-checks.                                   *)

Running == exit = "running"

Unworked == <<completed, undoAt, held, cancelled, failed, cleanupErrors>>

\* No request line, or one that is not an ExecutionRequest: exit status 2,
\* and not one event.
ReadRequest ==
  /\ Running /\ pc = "read"
  /\ IF "malformed" \in defects
       THEN pc' = "exit" /\ exit' = "usage"
       ELSE pc' = "validate" /\ UNCHANGED exit
  /\ UNCHANGED <<defects, Unworked, cancelRequested, events, pipes>>

\* A pure check at `at`: go on to `then`, or report the rejection.
Check(at, reasons, then) ==
  /\ Running /\ pc = at
  /\ pc' = IF reasons \intersect defects = {} THEN then ELSE "reject"
  /\ UNCHANGED <<defects, Unworked, cancelRequested, events, pipes, exit>>

ValidateConfig  == Check("validate", {"config"}, "preflight")
PreflightBinaries == Check("preflight", {"binaries"}, "discover")
Discover        == Check("discover", {"discovery"}, "translate")
Translate       == Check("translate", {"translation"}, "start")

\* execute() checks the schema, then rebuilds the plan from the fresh snapshot
\* and compares.  (Its second config.validate() repeats main's on the same
\* value.)
CheckSchema == Check("schema", {"schema"}, "revalidate")
\* Mutant: rebuilds the plan and forgets to compare it with the request's.
RevalidateUncompared == Check("revalidate", {"unbuildable"}, "loop")

Revalidate  == Check("revalidate", {"unbuildable", "stale"}, "loop")

\* Every emission: possible only while the pipe has a reader.
Emit(kind, op) ==
  /\ stdoutOpen
  /\ events' = Append(events, Ev(kind, op))

EmitReject ==
  /\ Running /\ pc = "reject"
  /\ Emit("Failed", 0)
  /\ pc' = "exit"
  /\ exit' = "failure"
  /\ UNCHANGED <<defects, Unworked, cancelRequested, pipes>>

EmitStarted ==
  /\ Running /\ pc = "start"
  /\ Emit("Started", 0)
  /\ pc' = "schema"
  /\ UNCHANGED <<defects, Unworked, cancelRequested, pipes, exit>>

-----------------------------------------------------------------------------
(* execute: the operation loop.                                            *)

\* Mutant: the cancellation checkpoint is hoisted out of the loop.
NextOperationUnchecked ==
  /\ Running /\ pc = "loop"
  /\ cancelled' = (cancelRequested /\ completed = << >>)
  /\ pc' = IF Current > N \/ cancelled' THEN "unwind" ELSE "step"
  /\ undoAt' = IF pc' = "unwind" THEN Len(completed) ELSE undoAt
  /\ UNCHANGED <<defects, work, cancelRequested, failed, cleanupErrors,
                 events, pipes, exit>>

\* Top of the loop: past the last operation, at a set flag, or on to the next.
NextOperation ==
  /\ Running /\ pc = "loop"
  /\ \/ /\ Current > N
        /\ pc' = "unwind"
        /\ undoAt' = Len(completed)
        /\ UNCHANGED cancelled
     \/ /\ Current <= N /\ cancelRequested
        /\ cancelled' = TRUE
        /\ pc' = "unwind"
        /\ undoAt' = Len(completed)
     \/ /\ Current <= N /\ ~cancelRequested
        /\ pc' = "step"
        /\ UNCHANGED <<undoAt, cancelled>>
  /\ UNCHANGED <<defects, work, cancelRequested, failed, cleanupErrors,
                 events, pipes, exit>>

EmitStep ==
  /\ Running /\ pc = "step"
  /\ Emit("Step", Current)
  /\ pc' = "perform"
  /\ UNCHANGED <<defects, Unworked, cancelRequested, pipes, exit>>

PerformOk ==
  /\ Running /\ pc = "perform"
  /\ completed' = Append(completed, Current)
  /\ held' = held \union ({Current} \intersect HasUndo)
  /\ pc' = "loop"
  /\ UNCHANGED <<defects, undoAt, cancelRequested, flags, cleanupErrors,
                 events, pipes, exit>>

\* An operation that fails compensates for itself (CreateSubvolumes,
\* InstallBootloader): the engine will not undo it.
PerformErr ==
  /\ Running /\ pc = "perform"
  /\ pc' = "report"
  /\ UNCHANGED <<defects, Unworked, cancelRequested, events, pipes, exit>>

\* Mutant: the failure is reported and not remembered.
EmitFailedForgotten ==
  /\ Running /\ pc = "report"
  /\ Emit("Failed", Current)
  /\ pc' = "unwind"
  /\ undoAt' = Len(completed)
  /\ UNCHANGED <<defects, work, cancelRequested, flags, cleanupErrors, pipes,
                 exit>>

\* Mutant: a failed run returns without its unwind.
EmitFailedReturns ==
  /\ Running /\ pc = "report"
  /\ Emit("Failed", Current)
  /\ failed' = TRUE
  /\ pc' = "unwind"
  /\ UNCHANGED <<defects, work, undoAt, cancelRequested, cancelled,
                 cleanupErrors, pipes, exit>>

EmitFailed ==
  /\ Running /\ pc = "report"
  /\ Emit("Failed", Current)
  /\ failed' = TRUE
  /\ pc' = "unwind"
  /\ undoAt' = Len(completed)
  /\ UNCHANGED <<defects, work, cancelRequested, cancelled, cleanupErrors,
                 pipes, exit>>

-----------------------------------------------------------------------------
(* unwind, and the outcome.                                                *)

UndoOk ==
  /\ Running /\ pc = "unwind" /\ undoAt > 0
  /\ held' = held \ {completed[undoAt]}
  /\ undoAt' = undoAt - 1
  /\ UNCHANGED <<pc, defects, completed, cancelRequested, flags,
                 cleanupErrors, events, pipes, exit>>

\* Mutant: a failed undo is collected without its Warning.
UndoErrSilent ==
  /\ Running /\ pc = "unwind" /\ undoAt > 0
  /\ completed[undoAt] \in HasUndo
  /\ cleanupErrors' = cleanupErrors \union {completed[undoAt]}
  /\ undoAt' = undoAt - 1
  /\ UNCHANGED <<pc, defects, work, cancelRequested, flags, events, pipes,
                 exit>>

\* Mutant: operations that acquire nothing can fail to be undone too.
UndoErrDefault ==
  /\ Running /\ pc = "unwind" /\ undoAt > 0
  /\ cleanupErrors' = cleanupErrors \union {completed[undoAt]}
  /\ pc' = "warn"
  /\ UNCHANGED <<defects, work, undoAt, cancelRequested, flags, events,
                 pipes, exit>>

\* The trait's default undo does nothing and cannot fail.
UndoErr ==
  /\ Running /\ pc = "unwind" /\ undoAt > 0
  /\ completed[undoAt] \in HasUndo
  /\ cleanupErrors' = cleanupErrors \union {completed[undoAt]}
  /\ pc' = "warn"
  /\ UNCHANGED <<defects, work, undoAt, cancelRequested, flags, events,
                 pipes, exit>>

\* Mutant: the first failed undo ends the unwind.
EmitWarningStops ==
  /\ Running /\ pc = "warn"
  /\ Emit("Warning", completed[undoAt])
  /\ undoAt' = 0
  /\ pc' = "unwind"
  /\ UNCHANGED <<defects, work, cancelRequested, flags, cleanupErrors,
                 pipes, exit>>

EmitWarning ==
  /\ Running /\ pc = "warn"
  /\ Emit("Warning", completed[undoAt])
  /\ undoAt' = undoAt - 1
  /\ pc' = "unwind"
  /\ UNCHANGED <<defects, work, cancelRequested, flags, cleanupErrors,
                 pipes, exit>>

\* Outcomes Failed (reported already) and Cancelled write nothing.
FinishUnwind ==
  /\ Running /\ pc = "unwind" /\ undoAt = 0
  /\ IF failed \/ (cancelled /\ cleanupErrors = {})
       THEN pc' = "exit" /\ exit' = "failure"
       ELSE pc' = "conclude" /\ UNCHANGED exit
  /\ UNCHANGED <<defects, Unworked, cancelRequested, events, pipes>>

\* Mutant: cleanup errors were warned about and do not change the verdict.
ConcludeLenient ==
  /\ Running /\ pc = "conclude"
  /\ Emit("Completed", 0)
  /\ exit' = "success"
  /\ pc' = "exit"
  /\ UNCHANGED <<defects, Unworked, cancelRequested, pipes>>

Conclude ==
  /\ Running /\ pc = "conclude"
  /\ IF cleanupErrors # {}
       THEN Emit("Failed", 0) /\ exit' = "failure"
       ELSE Emit("Completed", 0) /\ exit' = "success"
  /\ pc' = "exit"
  /\ UNCHANGED <<defects, Unworked, cancelRequested, pipes>>

-----------------------------------------------------------------------------
(* The other thread, the parent process and the kernel.                    *)

\* The control reader is spawned after the pre-flight check.  It outlives
\* nothing: it stops with the process or at end of input.
Spawned == pc \notin {"read", "validate", "preflight"}

CancelLine ==
  /\ Running /\ Spawned /\ stdinOpen
  /\ cancelRequested' = TRUE
  /\ UNCHANGED <<pc, defects, Unworked, events, pipes, exit>>

CloseStdin ==
  /\ stdinOpen
  /\ stdinOpen' = FALSE
  /\ UNCHANGED <<pc, defects, Unworked, cancelRequested, events, stdoutOpen,
                 exit>>

\* The wizard's process is gone: window closed, killed, session ended.
ReaderGone ==
  /\ stdoutOpen
  /\ stdinOpen' = FALSE
  /\ stdoutOpen' = FALSE
  /\ UNCHANGED <<pc, defects, Unworked, cancelRequested, events, exit>>

\* println! on a closed pipe panics; nothing between here and the end of the
\* process undoes an operation.
BrokenPipe ==
  /\ Running /\ ~stdoutOpen
  /\ pc \in EmitPoint
  /\ pc' = "exit"
  /\ exit' = "aborted"
  /\ UNCHANGED <<defects, Unworked, cancelRequested, events, pipes>>

Kill ==
  /\ Running
  /\ pc' = "exit"
  /\ exit' = "aborted"
  /\ UNCHANGED <<defects, Unworked, cancelRequested, events, pipes>>

Prechecks == \/ ReadRequest \/ ValidateConfig \/ PreflightBinaries
             \/ Discover \/ Translate \/ EmitReject
Execute   == \/ EmitStarted \/ CheckSchema \/ Revalidate \/ NextOperation
             \/ EmitStep \/ PerformOk \/ PerformErr \/ EmitFailed
Unwind    == \/ UndoOk \/ UndoErr \/ EmitWarning \/ FinishUnwind \/ Conclude

\* The steps of the service's main thread.
Service == Prechecks \/ Execute \/ Unwind \/ BrokenPipe

Environment == CancelLine \/ CloseStdin \/ ReaderGone \/ Kill

Next == Service \/ Environment

Spec == Init /\ [][Next]_vars

\* The main thread never waits for anybody, and every command it runs ends.
FairSpec == Spec /\ WF_vars(Service)

-----------------------------------------------------------------------------
(* Properties.                                                             *)

TypeOK ==
  /\ pc \in ControlPoint
  /\ defects \subseteq Defect
  /\ completed \in Seq(Ops)
  /\ undoAt \in 0..N
  /\ held \subseteq HasUndo
  /\ cancelRequested \in BOOLEAN
  /\ cancelled \in BOOLEAN
  /\ failed \in BOOLEAN
  /\ cleanupErrors \subseteq HasUndo
  /\ events \in Seq(Event)
  /\ stdinOpen \in BOOLEAN
  /\ stdoutOpen \in BOOLEAN
  /\ exit \in {"running", "success", "failure", "usage", "aborted"}

Verdicts == {k \in DOMAIN events : events[k].kind \in {"Failed", "Completed"}}

Emitted(ev) == \E k \in DOMAIN events : events[k] = ev

\* No operation begins unless the request, the machine and the plan passed
\* every check of main and execute, whatever was wrong and in whatever
\* combination (main.rs validation and pre-flight, execute's revalidation).
OnlyAdmittedWork ==
  (completed # << >> \/ pc \in {"loop", "step", "perform"}) => defects = {}

\* "Completed" is written only after the whole sequence ran, nothing failed or
\* was cancelled, and every resource the run acquired has been released.
CompletedIsEarned ==
  Emitted(Ev("Completed", 0)) =>
    /\ Len(completed) = N
    /\ held = {}
    /\ ~failed /\ ~cancelled
    /\ cleanupErrors = {}

\* A run that ends by itself with something still mounted has said so twice:
\* a Warning that names each leaked operation, and a Failed verdict.
LeaksAreReported ==
  exit \in {"success", "failure"} =>
    \A op \in held : /\ Emitted(Ev("Warning", op))
                     /\ exit = "failure"
                     /\ \E at \in 0..N : Emitted(Ev("Failed", at))

\* The wizard decides on the event list and the exit status together: never
\* two verdicts, status 0 exactly with Completed, and after an operation
\* failed the one Failed event names that operation, not its cleanup.
OneVerdict ==
  /\ \A j, k \in Verdicts : j = k
  /\ exit = "success" <=> Emitted(Ev("Completed", 0))
  /\ failed => Emitted(Ev("Failed", Current))

\* Cancellation is cooperative: from the request on, at most the operation
\* already past its checkpoint still completes.
CancelBoundsWork ==
  \A k \in 0..N :
    [](cancelRequested /\ Len(completed) = k => [](Len(completed) <= k + 1))

\* What the run acquires it releases, or reports as leaked, or the process
\* dies first.
EventuallyReleased ==
  \A op \in HasUndo :
    op \in held ~> \/ op \notin held
                   \/ exit = "aborted"
                   \/ Emitted(Ev("Warning", op))

\* The wire protocol (protocol.rs): the service replies with events "until it
\* emits Completed or Failed".  A run that started and ended by itself has
\* therefore written one of them.
ReplyHasVerdict ==
  exit \in {"success", "failure"} /\ Emitted(Ev("Started", 0)) =>
    \E k \in DOMAIN events : events[k].kind \in {"Failed", "Completed"}

-----------------------------------------------------------------------------
(* The inductive invariant behind the safety properties.                   *)

Before     == {"read", "validate", "preflight", "discover", "translate",
               "start", "schema", "revalidate", "reject"}
Performing == {"loop", "step", "perform", "report"}
Releasing  == {"unwind", "warn", "conclude"}

\* What the checks passed so far have excluded.
Excluded(at) ==
  CASE at = "validate"   -> {"malformed"}
    [] at = "preflight"  -> {"malformed", "config"}
    [] at = "discover"   -> {"malformed", "config", "binaries"}
    [] at = "translate"  -> {"malformed", "config", "binaries", "discovery"}
    [] at \in {"start", "schema"} ->
         Defect \ {"schema", "unbuildable", "stale"}
    [] at = "revalidate" -> Defect \ {"unbuildable", "stale"}
    [] at \in Performing \union Releasing -> Defect
    [] OTHER -> {}

Admission ==
  /\ Excluded(pc) \intersect defects = {}
  /\ completed # << >> => defects = {}
  /\ pc \in Before =>
       /\ completed = << >> /\ undoAt = 0 /\ held = {}
       /\ ~failed /\ ~cancelled /\ cleanupErrors = {}

\* Operations complete in plan order.
InOrder ==
  /\ Len(completed) <= N
  /\ \A j \in DOMAIN completed : completed[j] = j

Acquired ==
  pc \in Performing =>
    /\ ~failed /\ ~cancelled /\ cleanupErrors = {}
    /\ held = (1..Len(completed)) \intersect HasUndo
    /\ pc # "loop" => Len(completed) < N

\* The unwind is at undoAt: below it everything is still held, above it only
\* what could not be released.
Unwinding ==
  pc \in Releasing =>
    /\ undoAt <= Len(completed)
    /\ held = ((1..undoAt) \intersect HasUndo) \union cleanupErrors
    /\ \A op \in cleanupErrors :
         undoAt < op \/ (pc = "warn" /\ op = undoAt)
    /\ pc = "warn" => undoAt > 0 /\ undoAt \in cleanupErrors
    /\ ~(failed /\ cancelled)
    /\ (failed \/ cancelled) <=> Len(completed) < N
    /\ pc = "conclude" => undoAt = 0 /\ ~failed
                            /\ (cancelled => cleanupErrors # {})

Reporting ==
  /\ exit # "running" <=> pc = "exit"
  /\ exit = "running" /\ ~failed => Verdicts = {}
  /\ \A j, k \in Verdicts : j = k
  /\ exit # "success" => \A k \in Verdicts : events[k].kind = "Failed"
  /\ failed => Emitted(Ev("Failed", Current))
  /\ exit # "aborted" =>
       \A op \in cleanupErrors : \/ (pc = "warn" /\ op = undoAt)
                                  \/ Emitted(Ev("Warning", op))

Ended ==
  /\ exit = "success" =>
       /\ Len(completed) = N /\ held = {} /\ cleanupErrors = {}
       /\ ~failed /\ ~cancelled
       /\ Emitted(Ev("Completed", 0))
  /\ exit = "failure" =>
       /\ held = cleanupErrors
       /\ held # {} => \E at \in 0..N : Emitted(Ev("Failed", at))
  /\ exit = "usage" => held = {}

IInv == TypeOK /\ Admission /\ InOrder /\ Acquired /\ Unwinding /\ Reporting
          /\ Ended

-----------------------------------------------------------------------------
(* Refinement: the promise this engine implements.                         *)

stageBar ==
  CASE exit # "running" -> "over"
    [] pc \in {"unwind", "warn", "conclude"} -> "releasing"
    [] pc \in {"loop", "step", "perform", "report"} -> "executing"
    [] OTHER -> "checking"

causeBar == CASE failed -> "failed" [] cancelled -> "cancelled"
              [] OTHER -> "none"

verdictBar ==
  CASE exit = "running" -> "none"
    [] exit = "aborted" -> "lost"
    [] exit = "success" -> "completed"
    [] OTHER -> IF cancelled /\ cleanupErrors = {} THEN "cancelled"
                                                   ELSE "failed"

Contract == INSTANCE InstallContract WITH
              sound <- defects = {}, stage <- stageBar,
              progress <- Len(completed), leaked <- cleanupErrors,
              cause <- causeBar, verdict <- verdictBar

ImplementsContract == Contract!Spec
=============================================================================
