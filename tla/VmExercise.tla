---------------------------- MODULE VmExercise ----------------------------
(***************************************************************************)
(* One disposable VM on which the exercises of VmTables run one after the  *)
(* other.  Every command may fail before it took effect, half way, or      *)
(* after it (a timeout); every row of the cleanup may fail; the exercise   *)
(* may be killed between any two of its effects, and the machine restart.  *)
(***************************************************************************)
EXTENDS VmTables, Naturals

CONSTANTS MaxRuns,    \* bound: exercises started on one machine
          MaxFaults   \* bound: failures and kills in one exercise

ASSUME ExerciseAssumption == MaxRuns \in Nat /\ MaxFaults \in Nat

VARIABLES
  family,   \* the exercises this machine is used for
  origin,   \* what was altered when the machine was handed over
  machine,  \* what is altered now
  run,      \* the exercise that runs or ran last
  warned,   \* somebody was told that the machine is not clean
  runs

vmVars == <<family, origin, machine, run, warned, runs>>

Resting == [name |-> "", phase |-> "idle", pc |-> 1, flags |-> {}, ok |-> TRUE,
            rowsOk |-> TRUE, found |-> {}, excused |-> {}, faults |-> 0]

\* What a restart of the machine undoes.
Volatile == {"mode", "gdm", "managers", "server", "unit", "client", "tunnel", "login",
             "helper-process", "private", "auditd"}

\* Only identity and the callback exercises start on an enforcing machine.
VmInit ==
  /\ family \in Families
  /\ origin \in IF family \cap {"identity", "callbacks"} = {} THEN {{}} ELSE {{}, {"mode"}}
  /\ machine = origin
  /\ run = Resting /\ warned = FALSE /\ runs = 0

It == Exercises[run.name]
Now == It.steps[run.pc]
AtRow == It.rows[run.pc]
Running == run.phase \in {"steps", "within", "rows", "report"}

\* An original is put back to what was found, anything else to absence.
PutBack(things) == (machine \ things) \cup (things \cap It.saves \cap run.found)

\* The assertions at the start of an exercise, and the originals it reads.
Begin(e) ==
  /\ ~Running /\ runs < MaxRuns
  /\ Exercises[e].needs \cap machine = {}
  /\ run' = [Resting EXCEPT !.name = e, !.phase = "steps", !.found = machine]
  /\ runs' = runs + 1
  /\ UNCHANGED <<family, origin, machine, warned>>

Advance(changes) ==
  run' = IF run.pc < Len(It.steps)
           THEN [changes EXCEPT !.pc = run.pc + 1, !.phase = "steps"]
           ELSE [changes EXCEPT !.pc = 1, !.phase = "rows"]

\* A command that took effect and returned: its flag is set.
StepDone ==
  /\ run.phase = "steps" /\ Now.within = {}
  /\ machine' = PutBack(Now.undoes) \cup Now.does
  /\ Advance([run EXCEPT !.flags = @ \cup ({Now.flag} \ {""})])
  /\ UNCHANGED <<family, origin, warned, runs>>

\* An exception leaves the try statement for the cleanup; before the try
\* statement it ends the program.
Raise(excused) ==
  /\ run.faults < MaxFaults
  /\ run' = [run EXCEPT !.ok = FALSE, !.pc = 1, !.faults = @ + 1,
                        !.excused = @ \cup excused,
                        !.phase = IF run.pc <= It.before THEN "ended" ELSE "rows"]

\* A command fails, with none of its effect, with the remains of half of
\* it, or with all of it (the flag is not set then).
StepFails ==
  /\ run.phase = "steps" /\ Now.within = {}
  /\ \/ machine' = machine /\ Raise({})
     \/ machine' = machine \cup Now.mess /\ Raise(Now.mess)
     \/ machine' = PutBack(Now.undoes) \cup Now.does
        /\ Raise(IF Now.flag = "" THEN {} ELSE Now.does)
  /\ UNCHANGED <<family, origin, warned, runs>>

\* A change with a finally clause of its own: the change, then the test
\* inside, then the restoration, which may fail as well.
EnterWithin ==
  /\ run.phase = "steps" /\ Now.within # {}
  /\ machine' = machine \cup Now.within \cup Now.does
  /\ run' = [run EXCEPT !.phase = "within"]
  /\ UNCHANGED <<family, origin, warned, runs>>

LeaveWithin ==
  /\ run.phase = "within"
  /\ machine' = PutBack(Now.within)
  /\ Advance(run) \/ Raise({})
  /\ UNCHANGED <<family, origin, warned, runs>>

WithinStays ==
  /\ run.phase = "within"
  /\ Raise(Now.within)
  /\ UNCHANGED <<family, origin, machine, warned, runs>>

----------------------------------------------------------------------------
(* The cleanup.                                                            *)
Due == \/ AtRow.when = "always"
       \/ AtRow.when \in run.flags
       \/ AtRow.when = "worker-intact" /\ "worker" \notin machine

NextRow(changes) ==
  run' = IF run.pc < Len(It.rows) THEN [changes EXCEPT !.pc = @ + 1]
         ELSE [changes EXCEPT !.phase = "report"]

CleanOk ==
  /\ run.phase = "rows"
  /\ machine' = IF Due THEN PutBack(AtRow.undoes) \cup AtRow.does ELSE machine
  /\ NextRow(run)
  /\ UNCHANGED <<family, origin, warned, runs>>

\* A failing row is recorded and the next one tried, or it leaves the
\* cleanup with a traceback and no report.
CleanFails ==
  /\ run.phase = "rows" /\ Due /\ run.faults < MaxFaults
  /\ \/ /\ "recorded" \in AtRow.fails
        /\ NextRow([run EXCEPT !.rowsOk = FALSE, !.faults = @ + 1])
        /\ UNCHANGED warned
     \/ /\ "raises" \in AtRow.fails
        /\ run' = [run EXCEPT !.phase = "ended", !.faults = @ + 1]
        /\ warned' = (warned \/ run.faults > 0)
  /\ UNCHANGED <<family, origin, machine, runs>>

\* What differs from what was found.
Left == (machine \ run.found) \cup ((run.found \ machine) \cap {"mode"})
LooksCleanUnrecorded == It.checks \cap Left = {}  \* mutant: failed rows are not counted
LooksClean == run.rowsOk /\ It.checks \cap Left = {}

\* The result file: passed needs the steps, the rows and the comparison of
\* what was found.  The callback exercises print "restored" when they passed
\* and end with the test's traceback otherwise: clean says no more of them
\* than that their cleanup ran to its end.
Report ==
  /\ run.phase = "report"
  /\ run' = [run EXCEPT !.phase = IF ~LooksClean THEN "dirty"
                                  ELSE IF run.ok THEN "passed" ELSE "clean"]
  /\ warned' = (warned \/ ~LooksClean \/ run.faults > 1)
  /\ UNCHANGED <<family, origin, machine, runs>>

\* SIGKILL, or a SIGTERM while the cleanup runs.
Kill ==
  /\ Running /\ run.faults < MaxFaults
  /\ run' = [run EXCEPT !.phase = "ended"]
  /\ warned' = (warned \/ run.faults > 0)
  /\ UNCHANGED <<family, origin, machine, runs>>

Reboot ==
  /\ ~Running
  /\ machine' = (machine \ Volatile) \cup (origin \cap Volatile)
  /\ run' = [run EXCEPT !.phase = "idle"]
  /\ UNCHANGED <<family, origin, warned, runs>>

VmNext ==
  \/ \E e \in family : Begin(e)
  \/ StepDone \/ StepFails \/ EnterWithin \/ LeaveWithin \/ WithinStays
  \/ CleanOk \/ CleanFails \/ Report \/ Kill \/ Reboot

----------------------------------------------------------------------------
(* A report that calls the machine clean is true: what still differs from  *)
(* what the exercise found is what it says it leaves, or what a command    *)
(* left that failed half way, or after its effect and before its flag was  *)
(* set, or what a failed restoration inside a test left; a passed exercise *)
(* leaves not even that (the finally clauses of the eight exercise         *)
(* programs against all their steps).                                      *)
CleanReportIsTrue ==
  /\ run.phase \in {"clean", "passed"} => Left \subseteq It.forgets \cup run.excused
  /\ run.phase = "passed" => run.excused = {}

(* The originals an exercise remembers are originals: a run that was       *)
(* killed at any point, its cleanup included, leaves a marker the next     *)
(* run's assertions find, so that no run takes the files, labels or        *)
(* passwords of an earlier fixture for the machine's own and "restores"    *)
(* them, unless a report had said the machine was not clean or two faults  *)
(* came together.                                                          *)
OriginalsArePristine ==
  Running => (run.found \ origin) \cap It.saves = {} \/ warned
============================================================================
