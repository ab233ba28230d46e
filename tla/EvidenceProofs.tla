--------------------------- MODULE EvidenceProofs ---------------------------
(***************************************************************************)
(* Proofs about GuestEvidence and ImagePolicy as parts of the run that      *)
(* composes them with ImageRelease: for every plan of the test machine, and *)
(* for any releases, repositories and edits of the policy.                  *)
(***************************************************************************)
EXTENDS MCImageRelease, WellFoundedInduction, SequenceTheorems, TLAPS

PhaseNames == {"baseline", "update", "verify-updated", "prepare-rollback", "verify-rollback"}

\* The five phases of the workflow, in their order.
LEMMA PhasesAre ==
  /\ Len(Phases) = 5 /\ DOMAIN Phases = 1 .. 5
  /\ ToSet(Phases) = PhaseNames
  /\ Phases[5] = "verify-rollback"
  <1>1. Len(Phases) = 5 BY DEF Phases
  <1>2. DOMAIN Phases = 1 .. 5 BY DEF Phases
  <1>4. Phases[5] = "verify-rollback" BY DEF Phases
  <1>5. \A p : p \in ToSet(Phases) <=> \E i \in 1 .. 5 : p = Phases[i] BY <1>2 DEF ToSet
  <1>6. ToSet(Phases) = {Phases[1], Phases[2], Phases[3], Phases[4], Phases[5]} BY <1>5
  <1>7. QED BY <1>1, <1>2, <1>4, <1>6 DEF Phases, PhaseNames

\* A section that occurs in a stream has a last block (last_block): the indices
\* are bounded, so that one of them is nearest to the end.
LEMMA LastOfIsOne ==
  ASSUME NEW S, NEW blocks \in Seq(S), NEW section, IndicesOf(section, blocks) # {}
  PROVE  LastOf(section, blocks) \in IndicesOf(section, blocks)
  <1> DEFINE I == IndicesOf(section, blocks)
             T == {Len(blocks) - i : i \in I}
             R == OpToRel(<, Nat)
  <1>1. I \subseteq 1 .. Len(blocks) BY DEF IndicesOf
  <1>2. T \subseteq Nat /\ T # {} BY <1>1
  <1>3. PICK x \in T : \A y \in T : ~(<<y, x>> \in R)
    BY <1>2, NatLessThanWellFounded, WFMin
  <1>4. PICK i \in I : x = Len(blocks) - i OBVIOUS
  <1>5. ASSUME NEW j \in I PROVE j <= i
    <2>1. Len(blocks) - j \in T OBVIOUS
    <2>2. ~(<<Len(blocks) - j, x>> \in R) BY <2>1, <1>3
    <2>3. ~(Len(blocks) - j < x) BY <2>1, <2>2, <1>2 DEF OpToRel
    <2>4. QED BY <2>3, <1>1, <1>4
  <1>6. QED BY <1>5 DEF LastOf

-----------------------------------------------------------------------------
\* The blocks a stream may hold.
Trail == [section : Sections, number : Nat, exercise : Nat, ok : BOOLEAN]

\* Phase p really passed in exercise e on machine n.
Ran(n, e, p) == [number |-> n, exercise |-> e, phase |-> p] \in passed

GuestTyping ==
  /\ DOMAIN vm = {"number", "iso", "step", "launches"}
  /\ vm.number \in Nat /\ vm.launches \in Nat /\ vm.step \in VmSteps
  /\ trace \in Nat
  /\ stream \in Seq(Trail)
  /\ DOMAIN esp = {"phase", "exercise"} /\ esp.exercise \in Nat
  /\ DOMAIN extracted = Roles_

\* A launch that is recorded and not made yet counts as well.
TraceInv == vm.launches + (IF vm.step = "recorded" THEN 1 ELSE 0) <= trace

\* The stream is of the machine there is, and what it says passed did.
StreamInv ==
  \A i \in DOMAIN stream :
    /\ stream[i].number = vm.number
    /\ stream[i].ok /\ stream[i].section \in PhaseNames =>
         Ran(stream[i].number, stream[i].exercise, stream[i].section)

\* The phases that lie behind a state of the workflow.
Behind(state) ==
  CASE state = "baseline" -> {"baseline"}
    [] state = "updated" -> {"baseline", "update"}
    [] state = "updated-verified" -> {"baseline", "update", "verify-updated"}
    [] state = "rollback-prepared" -> {"baseline", "update", "verify-updated", "prepare-rollback"}
    [] state = "rollback-verified" -> PhaseNames
    [] OTHER -> {}

\* They passed in the exercise the ESP names.
EspInv == \A p \in Behind(esp.phase) : Ran(vm.number, esp.exercise, p)

\* The last phase never passes alone.
ChainInv ==
  \A n, e \in Nat : Ran(n, e, "verify-rollback") => \A p \in PhaseNames : Ran(n, e, p)

ResultInv ==
  extracted["rollback"] # << >> =>
    LET final == Last(extracted["rollback"]) IN
    \A p \in PhaseNames : Ran(final.number, final.exercise, p)

GuestInv == GuestTyping /\ TraceInv /\ StreamInv /\ EspInv /\ ChainInv /\ ResultInv

\* The run's steps of the test machine, with any ISO.
GuestStep == (\E iso : BootLive(iso)) \/ Machine \/ Exercise \/ StreamInstaller
             \/ ExtractInstaller \/ AssembleRollback

\* Without a machine there is nothing to be wrong about.
LEMMA GuestStarts == GuestInit => GuestInv
  <1> SUFFICES ASSUME GuestInit PROVE GuestInv OBVIOUS
  <1> USE DEF GuestInit
  <1>1. GuestTyping BY DEF GuestTyping, VmSteps
  <1>2. TraceInv BY DEF TraceInv
  <1>3. StreamInv BY DEF StreamInv
  <1>4. EspInv BY DEF EspInv, Behind
  <1>5. ChainInv BY DEF ChainInv, Ran
  <1>6. ResultInv BY DEF ResultInv, Roles_
  <1>7. QED BY <1>1, <1>2, <1>3, <1>4, <1>5, <1>6 DEF GuestInv

\* A report is appended to the stream or lost.
LEMMA StreamedAppends ==
  ASSUME GuestTyping, NEW block \in Trail, NEW restart, Streamed(block, restart)
  PROVE  /\ stream' \in Seq(Trail)
         /\ stream' = stream \/ stream' = Append(stream, block)
  BY DEF Streamed, GuestTyping

\* A phase that passes was allowed where the workflow was and moves it on, with
\* an exercise of its own for a baseline; one that fails moves it nowhere useful
\* (rollback-gate.sh, lyra-update-smoke).
LEMMA PhaseRuns ==
  ASSUME GuestTyping, NEW phase \in PhaseNames, NEW restart \in BOOLEAN, RunPhase(phase, restart)
  PROVE  \E e \in Nat, ok \in BOOLEAN :
    /\ \/ e = esp.exercise
       \/ phase = "baseline" /\ e = esp.exercise + 1
    /\ Block(phase, e, ok) \in Trail
    /\ Streamed(Block(phase, e, ok), restart)
    /\ ok => /\ phase # "baseline" => e = esp.exercise /\ esp.phase \in From(phase)
             /\ esp' = [phase |-> To[phase], exercise |-> e]
             /\ passed' = passed \cup {[number |-> vm.number, exercise |-> e, phase |-> phase]}
    /\ ~ok => /\ \/ esp' = esp 
                 \/ esp' = [phase |-> AfterFailure(phase), exercise |-> e]
              /\ passed' = passed
  <1> DEFINE e == IF phase = "baseline" /\ Allowed(phase, restart) THEN esp.exercise + 1 ELSE esp.exercise
  <1>1. e \in Nat BY DEF GuestTyping
  <1>2. \A ok \in BOOLEAN : Block(phase, e, ok) \in Trail
    BY <1>1, PhasesAre DEF GuestTyping, Block, Trail, Sections
  <1>3. CASE /\ Allowed(phase, restart)
             /\ esp' = [phase |-> To[phase], exercise |-> e]
             /\ passed' = passed \cup {[number |-> vm.number, exercise |-> e, phase |-> phase]}
             /\ Streamed(Block(phase, e, TRUE), restart)
    <2>1. phase # "baseline" => e = esp.exercise /\ esp.phase \in From(phase) BY <1>3 DEF Allowed
    <2>2. e = esp.exercise \/ (phase = "baseline" /\ e = esp.exercise + 1) OBVIOUS
    <2> HIDE DEF e
    <2>3. QED BY <1>1, <1>2, <1>3, <2>1, <2>2
  <1>4. CASE /\ esp' = esp \/ esp' = [phase |-> AfterFailure(phase), exercise |-> e]
             /\ UNCHANGED passed
             /\ Streamed(Block(phase, e, FALSE), restart)
    <2>2. e = esp.exercise \/ (phase = "baseline" /\ e = esp.exercise + 1) OBVIOUS
    <2> HIDE DEF e
    <2>3. QED BY <1>1, <1>2, <1>4, <2>2
  <1>5. QED BY <1>3, <1>4 DEF RunPhase

\* The selected blocks are blocks of the stream, each of its own section
\* (final_run).
LEMMA Selections ==
  ASSUME GuestTyping, HasFinalRun
  PROVE  /\ LastExercise \in Seq(Trail)
         /\ \A k \in DOMAIN LastExercise : \E j \in DOMAIN stream : LastExercise[k] = stream[j]
         /\ \A p \in PhaseNames : LastOf(p, LastExercise) \in IndicesOf(p, LastExercise)
  <1> DEFINE b == LastOf("baseline", stream)
  <1>0. stream \in Seq(Trail) BY DEF GuestTyping
  <1>1. b \in 1 .. Len(stream) BY <1>0, LastOfIsOne DEF HasFinalRun, IndicesOf
  <1>2. LastExercise = SubSeq(stream, b, Len(stream)) BY DEF LastExercise
  <1> HIDE DEF b
  <1>3. /\ LastExercise \in Seq(Trail)
        /\ Len(LastExercise) = Len(stream) - b + 1
        /\ \A k \in 1 .. Len(LastExercise) : LastExercise[k] = stream[b + k - 1]
    BY <1>0, <1>1, <1>2
  <1>4. \A k \in DOMAIN LastExercise : \E j \in DOMAIN stream : LastExercise[k] = stream[j]
    BY <1>0, <1>1, <1>3
  <1>5. ASSUME NEW p \in PhaseNames PROVE LastOf(p, LastExercise) \in IndicesOf(p, LastExercise)
    <2>1. PICK i \in DOMAIN Phases : p = Phases[i] BY PhasesAre DEF ToSet
    <2>2. IndicesOf(p, LastExercise) # {} BY <2>1 DEF HasFinalRun
    <2>3. QED BY <1>3, <2>2, LastOfIsOne
  <1>6. QED BY <1>3, <1>4, <1>5

\* The last block of a rollback result is a passing verify-rollback of the
\* stream there is (assemble).
LEMMA AssembledFromStream ==
  ASSUME GuestTyping, AssembleRollback
  PROVE  /\ extracted'["rollback"] # << >> =>
              \E j \in DOMAIN stream : /\ Last(extracted'["rollback"]) = stream[j]
                                       /\ stream[j].ok /\ stream[j].section = "verify-rollback"
  <1> DEFINE k == LastOf("verify-rollback", LastExercise)
             all == [i \in DOMAIN Phases |-> LastExercise[Selected[i]]]
  <1>1. k \in IndicesOf("verify-rollback", LastExercise)
    BY Selections DEF AssembleRollback, PhaseNames
  <1>2. Selected[5] = k BY PhasesAre DEF Selected
  <1>3. LastExercise[k].ok BY <1>2, PhasesAre DEF AssembleRollback, Assembled
  <1>4. extracted'["rollback"] = all BY DEF AssembleRollback, GuestTyping, Roles_
  <1>5. Len(all) = 5 /\ all[5] = LastExercise[k] BY <1>2, PhasesAre
  <1>6. Last(extracted'["rollback"]) = LastExercise[k] BY <1>4, <1>5 DEF Last
  <1>7. k \in DOMAIN LastExercise /\ LastExercise[k].section = "verify-rollback"
    BY <1>1 DEF IndicesOf
  <1>8. PICK j \in DOMAIN stream : LastExercise[k] = stream[j]
    BY <1>7, Selections DEF AssembleRollback
  <1>9. QED BY <1>3, <1>6, <1>7, <1>8

-----------------------------------------------------------------------------
\* Machine, stream and state keep their shapes.
LEMMA TypingStep == GuestTyping /\ [GuestStep]_guestVars => GuestTyping'
  <1> SUFFICES ASSUME GuestTyping, [GuestStep]_guestVars PROVE GuestTyping' OBVIOUS
  <1> USE DEF GuestTyping
  <1>1. CASE WipeVm BY <1>1 DEF WipeVm, VmSteps
  <1>2. CASE CreateVm BY <1>2 DEF CreateVm, VmSteps
  <1>3. CASE RecordLaunch BY <1>3 DEF RecordLaunch, VmSteps
  <1>4. CASE BootDisk BY <1>4 DEF BootDisk, VmSteps
  <1>4a. ASSUME NEW iso, BootLive(iso) PROVE GuestTyping' BY <1>4a DEF BootLive, VmSteps
  <1>5. CASE StopVm BY <1>5 DEF StopVm, VmSteps
  <1>6. ASSUME NEW p \in PhaseNames, NEW restart \in BOOLEAN, RunPhase(p, restart) PROVE GuestTyping'
    <2>1. UNCHANGED <<vm, trace, extracted>> BY <1>6 DEF RunPhase
    <2>2. PICK e \in Nat, ok \in BOOLEAN :
            /\ Block(p, e, ok) \in Trail /\ Streamed(Block(p, e, ok), restart)
            /\ \/ esp' = esp
               \/ esp' = [phase |-> To[p], exercise |-> e]
               \/ esp' = [phase |-> AfterFailure(p), exercise |-> e]
      BY <1>6, PhaseRuns
    <2>3. stream' \in Seq(Trail) BY <2>2, StreamedAppends
    <2>4. DOMAIN esp' = {"phase", "exercise"} /\ esp'.exercise \in Nat BY <2>2
    <2>5. QED BY <2>1, <2>3, <2>4
  <1>7. CASE StreamInstaller
    <2>1. PICK ok \in BOOLEAN : Streamed(Block("installer", 0, ok), FALSE)
      BY <1>7 DEF StreamInstaller
    <2>2. Block("installer", 0, ok) \in Trail BY DEF Block, Trail, Sections
    <2>3. stream' \in Seq(Trail) BY <2>1, <2>2, StreamedAppends
    <2>4. QED BY <1>7, <2>3 DEF StreamInstaller
  <1>8. CASE ExtractInstaller BY <1>8 DEF ExtractInstaller
  <1>9. CASE AssembleRollback BY <1>9 DEF AssembleRollback
  <1>10. CASE UNCHANGED guestVars BY <1>10 DEF guestVars
  <1>11. QED BY <1>1, <1>2, <1>3, <1>4, <1>5, <1>6, <1>7, <1>8, <1>9, <1>10, <1>4a, PhasesAre
            DEF GuestStep, Machine, Exercise

\* A launch is in the trace before QEMU runs (rehearsal-trace.py).
LEMMA TraceStep == GuestTyping /\ TraceInv /\ [GuestStep]_guestVars => TraceInv'
  <1> SUFFICES ASSUME GuestTyping, TraceInv, [GuestStep]_guestVars PROVE TraceInv' OBVIOUS
  <1> USE DEF GuestTyping, TraceInv
  <1>1. CASE WipeVm BY <1>1 DEF WipeVm
  <1>2. CASE CreateVm BY <1>2 DEF CreateVm
  <1>3. CASE RecordLaunch BY <1>3 DEF RecordLaunch
  <1>4. CASE BootDisk BY <1>4 DEF BootDisk
  <1>4a. ASSUME NEW iso, BootLive(iso) PROVE TraceInv' BY <1>4a DEF BootLive
  <1>5. CASE StopVm BY <1>5 DEF StopVm
  <1>6. CASE UNCHANGED <<vm, trace>> BY <1>6
  <1>7. QED BY <1>1, <1>2, <1>3, <1>4, <1>5, <1>6, <1>4a
           DEF GuestStep, Machine, Exercise, RunPhase, StreamInstaller, ExtractInstaller,
               AssembleRollback, guestVars

\* What really happened is never undone.
LEMMA PassedGrows == [GuestStep]_guestVars => passed \subseteq passed'
  BY DEF GuestStep, Machine, Exercise, WipeVm, CreateVm, RecordLaunch, BootLive, BootDisk, StopVm, RunPhase,
         StreamInstaller, ExtractInstaller, AssembleRollback, guestVars

\* The state on the ESP never claims a phase that did not pass in this exercise.
LEMMA EspStep == GuestTyping /\ EspInv /\ [GuestStep]_guestVars => EspInv'
  <1> SUFFICES ASSUME GuestTyping, EspInv, [GuestStep]_guestVars PROVE EspInv' OBVIOUS
  <1>1. CASE WipeVm BY <1>1 DEF WipeVm, EspInv, Behind
  <1>2. CASE vm'.number = vm.number /\ esp' = esp
    BY <1>2, PassedGrows DEF EspInv, Ran
  <1>3. ASSUME NEW p \in PhaseNames, NEW restart \in BOOLEAN, RunPhase(p, restart) PROVE EspInv'
    <2>0. vm' = vm BY <1>3 DEF RunPhase
    <2>1. PICK e \in Nat, ok \in BOOLEAN :
            /\ ok => /\ p # "baseline" => e = esp.exercise /\ esp.phase \in From(p)
                     /\ esp' = [phase |-> To[p], exercise |-> e]
                     /\ passed' = passed \cup {[number |-> vm.number, exercise |-> e, phase |-> p]}
            /\ ~ok => esp' = esp \/ esp' = [phase |-> AfterFailure(p), exercise |-> e]
            /\ e = esp.exercise \/ (p = "baseline" /\ e = esp.exercise + 1)
      BY <1>3, PhaseRuns
    <2>2. CASE ok
      <3>1. To[p] \in {"baseline", "updated", "updated-verified", "rollback-prepared", "rollback-verified"}
            /\ Behind(To[p]) \subseteq {p} \cup (IF p = "baseline" THEN {} ELSE Behind(esp.phase))
        BY <2>1, <2>2, PhasesAre DEF To, From, Behind, PhaseNames
      <3>2. esp'.phase = To[p] /\ esp'.exercise = e BY <2>1, <2>2
      <3>3. ASSUME NEW q \in Behind(To[p]) PROVE Ran(vm.number, e, q)'
        <4>1. CASE q = p BY <4>1, <2>1, <2>2, <2>0 DEF Ran
        <4>2. CASE q # p
          <5>1. q \in Behind(esp.phase) /\ e = esp.exercise BY <3>1, <4>2, <2>1, <2>2
          <5>2. QED BY <5>1, <2>0, <2>1, <2>2 DEF EspInv, Ran
        <4>3. QED BY <4>1, <4>2
      <3>4. QED BY <3>2, <3>3, <2>0, <2>1, <2>2 DEF EspInv, Ran
    <2>3. CASE ~ok /\ esp' = esp BY <2>3, <2>0, <1>2
    <2>4. CASE ~ok /\ esp' = [phase |-> AfterFailure(p), exercise |-> e]
      <3>1. CASE p \in {"baseline", "update"}
        BY <3>1, <2>4 DEF EspInv, Behind, AfterFailure
      <3>2. CASE p \notin {"baseline", "update"}
        <4>1. esp'.phase = esp.phase /\ esp'.exercise = esp.exercise
          BY <3>2, <2>4, <2>1 DEF AfterFailure
        <4>2. QED BY <4>1, <2>0, PassedGrows DEF EspInv, Ran
      <3>3. QED BY <3>1, <3>2
    <2>5. QED BY <2>1, <2>2, <2>3, <2>4
  <1>4. WipeVm \/ (vm'.number = vm.number /\ esp' = esp) \/ Exercise
    BY DEF GuestStep, Machine, CreateVm, RecordLaunch, BootLive, BootDisk, StopVm, StreamInstaller,
           ExtractInstaller, AssembleRollback, guestVars, GuestTyping
  <1>5. QED BY <1>1, <1>2, <1>3, <1>4, PhasesAre DEF Exercise

\* The stream holds blocks of this machine, and passing ones of phases that did.
LEMMA StreamStep == GuestTyping /\ StreamInv /\ [GuestStep]_guestVars => StreamInv'
  <1> SUFFICES ASSUME GuestTyping, StreamInv, [GuestStep]_guestVars PROVE StreamInv' OBVIOUS
  <1> DEFINE True(b, there) ==
        /\ b.number = vm.number
        /\ b.ok /\ b.section \in PhaseNames =>
             [number |-> b.number, exercise |-> b.exercise, phase |-> b.section] \in there
  <1>0. passed \subseteq passed' BY PassedGrows
  <1>1. CASE WipeVm BY <1>1 DEF WipeVm, StreamInv
  <1>2. ASSUME NEW b \in Trail, NEW restart, Streamed(b, restart), True(b, passed'), vm' = vm
        PROVE  StreamInv'
    <2>0. stream \in Seq(Trail) BY DEF GuestTyping
    <2>1. \A i \in DOMAIN stream' : True(stream'[i], passed')
      <3>1. \A i \in DOMAIN stream : True(stream[i], passed') BY <1>0 DEF StreamInv, Ran
      <3>2. stream' = stream \/ stream' = Append(stream, b) BY <1>2, StreamedAppends
      <3> HIDE DEF True
      <3>3. CASE stream' = stream BY <3>1, <3>3
      <3>4. CASE stream' = Append(stream, b)
        <4>1. \A i \in DOMAIN stream' : stream'[i] = b \/ (i \in DOMAIN stream /\ stream'[i] = stream[i])
          BY <2>0, <3>4
        <4>2. QED BY <4>1, <3>1, <1>2
      <3>5. QED BY <3>2, <3>3, <3>4
    <2>2. QED BY <2>1, <1>2 DEF StreamInv, Ran
  <1>3. ASSUME NEW p \in PhaseNames, NEW restart \in BOOLEAN, RunPhase(p, restart) PROVE StreamInv'
    <2>1. vm' = vm BY <1>3 DEF RunPhase
    <2>2. PICK e \in Nat, ok \in BOOLEAN :
            /\ Block(p, e, ok) \in Trail /\ Streamed(Block(p, e, ok), restart)
            /\ ok => passed' = passed \cup {[number |-> vm.number, exercise |-> e, phase |-> p]}
      BY <1>3, PhaseRuns
    <2>3. True(Block(p, e, ok), passed') BY <2>2 DEF Block
    <2> HIDE DEF True
    <2>4. QED BY <2>1, <2>2, <2>3, <1>2
  <1>4. CASE StreamInstaller
    <2>1. PICK ok \in BOOLEAN : Streamed(Block("installer", 0, ok), FALSE)
      BY <1>4 DEF StreamInstaller
    <2>2. Block("installer", 0, ok) \in Trail BY DEF Block, Trail, Sections, GuestTyping
    <2>3. True(Block("installer", 0, ok), passed') BY DEF Block, PhaseNames
    <2>4. vm' = vm BY <1>4 DEF StreamInstaller
    <2> HIDE DEF True
    <2>5. QED BY <2>1, <2>2, <2>3, <2>4, <1>2
  <1>5. CASE vm'.number = vm.number /\ stream' = stream
    BY <1>5, <1>0 DEF StreamInv, Ran
  <1>6. \/ WipeVm \/ Exercise \/ StreamInstaller
        \/ (vm'.number = vm.number /\ stream' = stream)
    BY DEF GuestStep, Machine, CreateVm, RecordLaunch, BootLive, BootDisk, StopVm,
           ExtractInstaller, AssembleRollback, guestVars, GuestTyping
  <1>7. QED BY <1>1, <1>3, <1>4, <1>5, <1>6, PhasesAre DEF Exercise

\* verify-rollback only passes in an exercise whose other phases have passed.
LEMMA ChainStep == GuestTyping /\ EspInv /\ ChainInv /\ [GuestStep]_guestVars => ChainInv'
  <1> SUFFICES ASSUME GuestTyping, EspInv, ChainInv, [GuestStep]_guestVars PROVE ChainInv' OBVIOUS
  <1>1. CASE passed' = passed BY <1>1 DEF ChainInv, Ran
  <1>2. ASSUME NEW p \in PhaseNames, NEW restart \in BOOLEAN, RunPhase(p, restart) PROVE ChainInv'
    <2>1. PICK e \in Nat, ok \in BOOLEAN :
            /\ ok => /\ p # "baseline" => e = esp.exercise /\ esp.phase \in From(p)
                     /\ passed' = passed \cup {[number |-> vm.number, exercise |-> e, phase |-> p]}
            /\ ~ok => passed' = passed
      BY <1>2, PhaseRuns
    <2>2. CASE ok
      <3> DEFINE new == [number |-> vm.number, exercise |-> e, phase |-> p]
      <3>0. passed' = passed \cup {new} BY <2>1, <2>2
      <3>1. SUFFICES ASSUME NEW n \in Nat, NEW f \in Nat, Ran(n, f, "verify-rollback")', NEW q \in PhaseNames
                     PROVE  [number |-> n, exercise |-> f, phase |-> q] \in passed'
        BY DEF ChainInv, Ran
      <3>2. CASE Ran(n, f, "verify-rollback") BY <3>0, <3>2 DEF ChainInv, Ran
      <3>3. CASE new = [number |-> n, exercise |-> f, phase |-> "verify-rollback"]
        <4>1. n = vm.number /\ f = e /\ p = "verify-rollback" BY <3>3
        <4>2. esp.phase \in {"rollback-prepared", "rollback-verified"} /\ e = esp.exercise
          BY <4>1, <2>1, <2>2 DEF From
        <4>3. PhaseNames \ {"verify-rollback"} \subseteq Behind(esp.phase) BY <4>2 DEF Behind, PhaseNames
        <4>4. CASE q = "verify-rollback" BY <4>4, <3>0, <3>3
        <4>5. CASE q # "verify-rollback"
          BY <4>1, <4>2, <4>3, <4>5, <3>0 DEF EspInv, Ran
        <4>6. QED BY <4>4, <4>5
      <3>4. QED BY <3>0, <3>1, <3>2, <3>3 DEF Ran
    <2>3. CASE ~ok BY <2>1, <2>3, <1>1
    <2>4. QED BY <2>2, <2>3
  <1>3. passed' = passed \/ Exercise
    BY DEF GuestStep, Machine, WipeVm, CreateVm, RecordLaunch, BootLive, BootDisk, StopVm, StreamInstaller,
           ExtractInstaller, AssembleRollback, guestVars
  <1>4. QED BY <1>1, <1>2, <1>3, PhasesAre DEF Exercise

\* A new result is made of the stream, an old one stays true.
LEMMA ResultStep ==
  GuestTyping /\ StreamInv /\ ChainInv /\ ResultInv /\ [GuestStep]_guestVars => ResultInv'
  <1> SUFFICES ASSUME GuestTyping, StreamInv, ChainInv, ResultInv, [GuestStep]_guestVars
               PROVE  ResultInv'
    OBVIOUS
  <1>0. passed \subseteq passed' BY PassedGrows
  <1>1. CASE extracted'["rollback"] = extracted["rollback"]
    BY <1>0, <1>1 DEF ResultInv, Ran, Last
  <1>2. CASE AssembleRollback
    <2>0. passed' = passed BY <1>2 DEF AssembleRollback
    <2>1. SUFFICES ASSUME extracted'["rollback"] # << >>
                   PROVE  \A p \in PhaseNames : Ran(Last(extracted'["rollback"]).number,
                                                    Last(extracted'["rollback"]).exercise, p)
      BY <2>0 DEF ResultInv, Ran, Last
    <2>2. PICK j \in DOMAIN stream : /\ Last(extracted'["rollback"]) = stream[j]
                                     /\ stream[j].ok /\ stream[j].section = "verify-rollback"
      BY <1>2, <2>1, AssembledFromStream
    <2>3. stream[j] \in Trail BY DEF GuestTyping
    <2>4. Ran(stream[j].number, stream[j].exercise, "verify-rollback")
      BY <2>2 DEF StreamInv, PhaseNames
    <2>5. QED BY <2>2, <2>3, <2>4 DEF ChainInv, Trail
  <1>3. CASE ExtractInstaller
    BY <1>1, <1>3 DEF ExtractInstaller, GuestTyping, Roles_
  <1>4. QED BY <1>1, <1>2, <1>3
    DEF GuestStep, Machine, Exercise, WipeVm, CreateVm, RecordLaunch, BootLive, BootDisk, StopVm, RunPhase,
        StreamInstaller, guestVars

\* Every step of machine, guest and extraction keeps the invariant.
LEMMA GuestStays == GuestInv /\ [GuestStep]_guestVars => GuestInv'
  BY TypingStep, TraceStep, StreamStep, EspStep, ChainStep, ResultStep DEF GuestInv

\* The run composes the test machine with the release and the policy; a step of
\* it is a step of the machine or leaves it alone.
LEMMA GuestOfTheRun == MCNext \/ UNCHANGED <<vars, guestVars, policyVars>> => [GuestStep]_guestVars
  BY DEF MCNext, BootIso, InstallerGate, GuestStep

\* The inductive invariant of the test machine and its evidence, for every plan:
\* any number of machines, launches, blocks, failures and lost reports.
THEOREM GuestInvariance == MCSpec => []GuestInv
  <1>1. MCInit => GuestInv BY GuestStarts DEF MCInit
  <1>2. GuestInv /\ [MCNext]_<<vars, guestVars, policyVars>> => GuestInv'
    BY GuestStays, GuestOfTheRun
  <1>3. QED BY <1>1, <1>2, PTL DEF MCSpec

\* No launch is missing from the trace of its machine, whenever the script is
\* killed (rehearsal-trace.py, build-and-run-vm.sh).
THEOREM LaunchesAreTraced == MCSpec => []TraceCoversLaunches
  <1>1. GuestInv => TraceCoversLaunches
    BY DEF GuestInv, GuestTyping, TraceInv, TraceCoversLaunches
  <1>2. QED BY <1>1, GuestInvariance, PTL

\* A rollback result is only made of an exercise all five phases of which really
\* passed on its machine (assemble, final_run), whatever was repeated, refused,
\* restarted or lost.
THEOREM RollbackPassed == MCSpec => []RollbackReallyPassed
  <1>1. GuestInv => RollbackReallyPassed
    BY PhasesAre DEF GuestInv, StreamInv, ResultInv, Ran, RollbackReallyPassed
  <1>2. QED BY <1>1, GuestInvariance, PTL

-----------------------------------------------------------------------------
\* An export was acceptable.
ExportedInv ==
  exported # Nothing =>
    /\ DOMAIN exported = {"toml", "policy", "repositories"}
    /\ SignatureRequired(exported.toml) => exported.policy.artifacts = "with signature"
    /\ Approved(exported.repositories)

\* What passed the last check was a release, rendered as it is.
CheckedInv ==
  checked # Nothing => checked.toml \in AnyRelease /\ Valid(checked.toml) /\ CheckedNamesOneRelease

PolicyInv == toml \in AnyRelease /\ fields \in Seq(Field) /\ CheckedInv /\ ExportedInv

\* replace_once changes the value of the one field of that name, and no other.
LEMMA ReplacedOnce ==
  ASSUME NEW file \in Seq(Field), NEW name \in FieldNames, NEW r \in AnyRelease,
         ReplaceOnce(file, name, Value(name, r)) # Nothing
  PROVE  LET new == ReplaceOnce(file, name, Value(name, r)) IN
         /\ new \in Seq(Field)
         /\ DOMAIN new = DOMAIN file
         /\ Cardinality(Occurrences(name, file)) = 1
         /\ \A n : Occurrences(n, new) = Occurrences(n, file)
         /\ \A i \in Occurrences(name, file) : new[i].value = Value(name, r)
         /\ \A i \in DOMAIN file \ Occurrences(name, file) : new[i] = file[i]
  <1> DEFINE new == ReplaceOnce(file, name, Value(name, r))
  <1>1. /\ Cardinality(Occurrences(name, file)) = 1
        /\ new = [i \in DOMAIN file |->
                    IF file[i].name = name THEN [file[i] EXCEPT !.value = Value(name, r)] ELSE file[i]]
    BY DEF ReplaceOnce
  <1>2. \A i \in DOMAIN file : /\ file[i] \in Field
                               /\ [file[i] EXCEPT !.value = Value(name, r)] \in Field
                               /\ [file[i] EXCEPT !.value = Value(name, r)].name = file[i].name
                               /\ [file[i] EXCEPT !.value = Value(name, r)].value = Value(name, r)
    <2> SUFFICES ASSUME NEW i \in DOMAIN file, NEW f \in Field, f = file[i]
                 PROVE  /\ [f EXCEPT !.value = Value(name, r)] \in Field
                        /\ [f EXCEPT !.value = Value(name, r)].name = f.name
                        /\ [f EXCEPT !.value = Value(name, r)].value = Value(name, r)
      OBVIOUS
    <2>1. QED BY DEF Field
  <1> HIDE DEF new
  <1>3. \A i \in DOMAIN file : /\ new[i] \in Field /\ new[i].name = file[i].name
                               /\ file[i].name = name => new[i].value = Value(name, r)
                               /\ file[i].name # name => new[i] = file[i]
    BY <1>1, <1>2
  <1>4. new \in Seq(Field)
    <2>1. DOMAIN file = 1 .. Len(file) /\ Len(file) \in Nat OBVIOUS
    <2>2. new \in [1 .. Len(file) -> Field] BY <2>1, <1>1, <1>3
    <2>3. QED BY <2>1, <2>2, SeqDef
  <1>5. DOMAIN new = DOMAIN file BY <1>1
  <1>6. \A n : Occurrences(n, new) = Occurrences(n, file) BY <1>3, <1>5 DEF Occurrences
  <1>7. QED BY <1>1, <1>3, <1>4, <1>5, <1>6 DEF Occurrences, new

\* What render_files returns has every generated field once, with the value of
\* the release, whatever the fields were before.
LEMMA RenderedOnce ==
  ASSUME NEW file \in Seq(Field), NEW r \in AnyRelease, RenderedFields(file, r) # Nothing
  PROVE  /\ RenderedFields(file, r) \in Seq(Field)
         /\ \A name \in FieldNames :
              /\ Cardinality(Occurrences(name, RenderedFields(file, r))) = 1
              /\ \A i \in Occurrences(name, RenderedFields(file, r)) :
                   RenderedFields(file, r)[i].value = Value(name, r)
  <1> DEFINE one == ReplaceOnce(file, "specification", Value("specification", r))
             two == ReplaceOnce(one, "version", Value("version", r))
             three == ReplaceOnce(two, "volid", Value("volid", r))
  <1>1. one # Nothing /\ two # Nothing /\ three # Nothing /\ RenderedFields(file, r) = three
    BY DEF RenderedFields
  <1>2. /\ one \in Seq(Field) /\ DOMAIN one = DOMAIN file
        /\ Cardinality(Occurrences("specification", file)) = 1
        /\ \A n : Occurrences(n, one) = Occurrences(n, file)
        /\ \A i \in Occurrences("specification", file) : one[i].value = Value("specification", r)
    BY <1>1, ReplacedOnce DEF FieldNames
  <1> HIDE DEF one
  <1>3. /\ two \in Seq(Field) /\ DOMAIN two = DOMAIN one
        /\ Cardinality(Occurrences("version", one)) = 1
        /\ \A n : Occurrences(n, two) = Occurrences(n, one)
        /\ \A i \in Occurrences("version", one) : two[i].value = Value("version", r)
        /\ \A i \in DOMAIN one \ Occurrences("version", one) : two[i] = one[i]
    BY <1>1, <1>2, ReplacedOnce DEF FieldNames
  <1> HIDE DEF two
  <1>4. /\ three \in Seq(Field) /\ DOMAIN three = DOMAIN two
        /\ Cardinality(Occurrences("volid", two)) = 1
        /\ \A n : Occurrences(n, three) = Occurrences(n, two)
        /\ \A i \in Occurrences("volid", two) : three[i].value = Value("volid", r)
        /\ \A i \in DOMAIN two \ Occurrences("volid", two) : three[i] = two[i]
    BY <1>1, <1>3, ReplacedOnce DEF FieldNames
  <1> HIDE DEF three
  <1>5. \A n : Occurrences(n, three) = Occurrences(n, file) BY <1>2, <1>3, <1>4
  <1>6. \A n \in FieldNames : Cardinality(Occurrences(n, three)) = 1
    BY <1>2, <1>3, <1>4, <1>5 DEF FieldNames
  <1>7. \A i \in Occurrences("specification", file) :
          i \in DOMAIN file /\ i \notin Occurrences("version", file) /\ i \notin Occurrences("volid", file)
    BY DEF Occurrences
  <1>8. \A i \in Occurrences("version", file) : i \in DOMAIN file /\ i \notin Occurrences("volid", file)
    BY DEF Occurrences
  <1>9. \A i \in Occurrences("specification", file) : three[i].value = Value("specification", r)
    BY <1>2, <1>3, <1>4, <1>7
  <1>10. \A i \in Occurrences("version", file) : three[i].value = Value("version", r)
    BY <1>2, <1>3, <1>4, <1>8
  <1>11. QED BY <1>1, <1>2, <1>3, <1>4, <1>5, <1>6, <1>9, <1>10 DEF FieldNames

\* The tree starts with the fields of its release.
LEMMA PolicyStarts == PolicyInit => PolicyInv
  <1> SUFFICES ASSUME PolicyInit PROVE PolicyInv OBVIOUS
  <1>1. toml \in AnyRelease BY DEF PolicyInit
  <1>2. \A n \in FieldNames : [name |-> n, value |-> Value(n, toml)] \in Field BY <1>1 DEF Field
  <1>3. fields \in Seq(Field)
    <2> DEFINE F(n) == [name |-> n, value |-> Value(n, toml)]
    <2>1. F("specification") \in Field /\ F("version") \in Field /\ F("volid") \in Field
      BY <1>2 DEF FieldNames
    <2>2. fields = <<F("specification"), F("version"), F("volid")>> BY DEF PolicyInit
    <2> HIDE DEF F
    <2>3. QED BY <2>1, <2>2
  <1>4. checked = Nothing /\ exported = Nothing BY DEF PolicyInit
  <1>5. QED BY <1>1, <1>3, <1>4 DEF PolicyInv, CheckedInv, ExportedInv

PolicyStep == Edits \/ Commands

\* release.toml names a release.
LEMMA TomlStep == toml \in AnyRelease /\ [PolicyStep]_policyVars => toml' \in AnyRelease
  BY DEF PolicyStep, Edits, Commands, EditToml, EditPolicy, EditFields, EditRepositories, BreakIdentity,
         RenderDescription, CheckDescription, ExportApproved, policyVars

\* config.xml is a file of generated fields, however it is edited.
LEMMA FieldsStep ==
  toml \in AnyRelease /\ fields \in Seq(Field) /\ [PolicyStep]_policyVars => fields' \in Seq(Field)
  <1> SUFFICES ASSUME toml \in AnyRelease, fields \in Seq(Field), [PolicyStep]_policyVars
               PROVE  fields' \in Seq(Field)
    OBVIOUS
  <1>1. CASE EditFields
    <2>1. ASSUME NEW i \in DOMAIN fields, fields' = Append(fields, fields[i]) PROVE fields' \in Seq(Field)
      BY <2>1
    <2>2. ASSUME NEW i \in DOMAIN fields, NEW r \in AnyRelease,
                 fields' = [fields EXCEPT ![i].value = Value(fields[i].name, r)]
          PROVE  fields' \in Seq(Field)
      <3>1. fields[i] \in Field OBVIOUS
      <3>2. [fields[i] EXCEPT !.value = Value(fields[i].name, r)] \in Field BY <3>1 DEF Field
      <3>3. fields' = [fields EXCEPT ![i] = [fields[i] EXCEPT !.value = Value(fields[i].name, r)]]
        BY <2>2
      <3>4. QED BY <3>2, <3>3
    <2>3. CASE fields' = SubSeq(fields, 2, Len(fields))
      <3>1. CASE fields = << >> BY <2>3, <3>1
      <3>2. CASE fields # << >> BY <2>3, <3>2
      <3>3. QED BY <3>1, <3>2
    <2>4. QED BY <1>1, <2>1, <2>2, <2>3 DEF EditFields
  <1>2. CASE RenderDescription BY <1>2, RenderedOnce DEF RenderDescription
  <1>3. CASE fields' = fields BY <1>3
  <1>4. QED BY <1>1, <1>2, <1>3
    DEF PolicyStep, Edits, Commands, EditToml, EditPolicy, EditRepositories, BreakIdentity,
        CheckDescription, ExportApproved, policyVars

\* A check that passes found the fields as they would be rendered.
LEMMA CheckedStep ==
  toml \in AnyRelease /\ fields \in Seq(Field) /\ CheckedInv /\ [PolicyStep]_policyVars => CheckedInv'
  <1> SUFFICES ASSUME toml \in AnyRelease, fields \in Seq(Field), CheckedInv, [PolicyStep]_policyVars
               PROVE  CheckedInv'
    OBVIOUS
  <1>1. CASE CheckDescription
    <2>1. RenderedFields(fields, toml) = fields /\ fields # Nothing /\ Valid(toml)
      BY <1>1, NothingAssumption DEF CheckDescription
    <2>2. checked'.toml = toml /\ checked'.fields = fields BY <1>1 DEF CheckDescription
    <2>3. \A name \in FieldNames :
            /\ Cardinality(Occurrences(name, fields)) = 1
            /\ \A i \in Occurrences(name, fields) : fields[i].value = Value(name, toml)
      BY <2>1, RenderedOnce
    <2>4. QED BY <2>1, <2>2, <2>3 DEF CheckedInv, CheckedNamesOneRelease
  <1>2. CASE checked' = checked BY <1>2 DEF CheckedInv, CheckedNamesOneRelease
  <1>3. QED BY <1>1, <1>2
    DEF PolicyStep, Edits, Commands, EditToml, EditPolicy, EditFields, EditRepositories, BreakIdentity,
        RenderDescription, ExportApproved, policyVars

\* An export was acceptable when it was made.
LEMMA ExportedStep == ExportedInv /\ [PolicyStep]_policyVars => ExportedInv'
  <1> SUFFICES ASSUME ExportedInv, [PolicyStep]_policyVars PROVE ExportedInv' OBVIOUS
  <1>1. CASE ExportApproved
    <2>1. /\ DOMAIN exported' = {"toml", "policy", "repositories"}
          /\ exported'.toml = toml /\ exported'.policy = policy /\ exported'.repositories = repositories
      BY <1>1 DEF ExportApproved
    <2>2. SignatureRequired(toml) => policy.artifacts = "with signature"
      BY <1>1 DEF ExportApproved, Acceptable
    <2>3. Approved(repositories) BY <1>1 DEF ExportApproved, Acceptable
    <2>4. QED BY <2>1, <2>2, <2>3 DEF ExportedInv
  <1>3. CASE exported' = exported BY <1>3 DEF ExportedInv
  <1>4. QED BY <1>1, <1>3
    DEF PolicyStep, Edits, Commands, EditToml, EditPolicy, EditFields, EditRepositories, BreakIdentity,
        RenderDescription, CheckDescription, policyVars

\* Valid releases with the same version identifier are the same (version_id):
\* a final release has no stage, and no iteration but 0.
LEMMA SameVersionSameRelease ==
  ASSUME NEW r \in AnyRelease, NEW q \in AnyRelease, Valid(r), Valid(q), VersionId(r) = VersionId(q)
  PROVE  r = q
  <1>1. r.version = q.version /\ r.stage = q.stage /\ r.iteration = q.iteration
    <2>1. CASE r.stage = "release" /\ q.stage = "release" BY <2>1 DEF Valid, VersionId
    <2>2. CASE r.stage # "release" /\ q.stage # "release" BY <2>2 DEF VersionId
    <2>3. CASE (r.stage = "release") # (q.stage = "release")
      <3>1. Len(VersionId(r)) # Len(VersionId(q)) BY <2>3 DEF VersionId
      <3>2. QED BY <3>1
    <2>4. QED BY <2>1, <2>2, <2>3
  <1>2. QED BY <1>1, ReleaseAssumption

\* The invariant implies the four parts of PolicyIsSound.
LEMMA SoundWhenInv == PolicyInv => PolicyIsSound
  <1> SUFFICES ASSUME PolicyInv PROVE PolicyIsSound OBVIOUS
  <1>1. CheckedNamesOneRelease BY DEF PolicyInv, CheckedInv, CheckedNamesOneRelease
  <1>2. VersionsAreDistinct BY SameVersionSameRelease DEF PolicyInv, CheckedInv, VersionsAreDistinct
  <1>3. SourcesAndEvidenceAgree BY DEF PolicyInv, ExportedInv, SourcesAndEvidenceAgree
  <1>4. ExportedRepositoriesAreApproved
    <2>1. SUFFICES ASSUME exported # Nothing, NEW list, list = exported.repositories,
                          NEW alias \in Expected
                   PROVE  \E i \in DOMAIN list :
                            /\ list[i].alias = alias /\ Secure(list[i])
                            /\ \A j \in DOMAIN list : list[j].alias = alias => i = j
      BY DEF ExportedRepositoriesAreApproved
    <2>2. Approved(list) BY <2>1 DEF PolicyInv, ExportedInv
    <2>3. PICK i \in DOMAIN list : list[i].alias = alias BY <2>2 DEF Approved
    <2>4. QED BY <2>2, <2>3 DEF Approved
  <1>5. QED BY <1>1, <1>2, <1>3, <1>4 DEF PolicyIsSound

\* The inductive invariant of the policy, for any releases, repositories and
\* approved aliases, and any number of edits.
THEOREM PolicyInvariance == MCSpec => []PolicyInv
  <1>1. MCInit => PolicyInv BY PolicyStarts DEF MCInit
  <1>2. PolicyInv /\ [MCNext]_<<vars, guestVars, policyVars>> => PolicyInv'
    <2>1. [MCNext]_<<vars, guestVars, policyVars>> => [PolicyStep]_policyVars
      BY DEF MCNext, BootIso, InstallerGate, Alone, PolicyStep
    <2>2. QED BY <2>1, TomlStep, FieldsStep, CheckedStep, ExportedStep DEF PolicyInv
  <1>3. QED BY <1>1, <1>2, PTL DEF MCSpec

\* Whatever people edit between the commands: a check that passed names one
\* release, versions are distinct, sources and evidence agree about the
\* signature, and an export has exactly the approved repositories.
THEOREM PolicyHolds == MCSpec => []PolicyIsSound
  BY PolicyInvariance, SoundWhenInv, PTL
=============================================================================
