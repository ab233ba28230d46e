---- MODULE MCVmHarness ----
(* The parts of the VM harness that share nothing, one of them at work in  *)
(* a behaviour: the gate, the exercises with a cleanup of their own, and   *)
(* the exercises under the recoverable fixture.                            *)
EXTENDS AccountGate, VmExercise, VmFixture

VARIABLE atWork

vars == <<atWork, gateVars, vmVars, fixtureVars>>

Init ==
  /\ atWork \in {"gate", "exercise", "fixture"}
  /\ GateInit /\ VmInit /\ FixtureInit
  /\ atWork # "exercise" => family = {"entries"}
  /\ atWork # "fixture" => fixture = "xwayland"

Next ==
  /\ UNCHANGED atWork
  /\ \/ atWork = "gate" /\ GateNext /\ UNCHANGED <<vmVars, fixtureVars>>
     \/ atWork = "exercise" /\ VmNext /\ UNCHANGED <<gateVars, fixtureVars>>
     \/ atWork = "fixture" /\ FixtureNext /\ UNCHANGED <<gateVars, vmVars>>

Spec == Init /\ [][Next]_vars /\ (atWork = "fixture" => FixtureFairness)
============================
