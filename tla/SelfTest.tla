------------------------------ MODULE SelfTest ------------------------------
(***************************************************************************)
(* The startup self-test (treeminer/src/selftest.rs): which devices may     *)
(* mine, and which of them may derive Argon2's first blocks on the device.  *)
(*                                                                         *)
(* A device's "health" says which of its two paths computes the reference   *)
(* digest; a device that cannot be opened has neither.                      *)
(***************************************************************************)
CONSTANT DefaultFirstBlocks  \* DEFAULT_GPU_FIRST_BLOCKS

ASSUME SelfTestAssumption == DefaultFirstBlocks \in BOOLEAN

\* onHost: right with first blocks from the CPU; onDevice: right with first
\* blocks from the device.
Healths == [onHost : BOOLEAN, onDevice : BOOLEAN]

\* SelfTestProbe::gpu_digest compared with the CPU reference (compare).
Matches(health, gpuFirstBlocks) ==
    IF gpuFirstBlocks THEN health.onDevice ELSE health.onHost

\* Mutant: a device that passes on the default path gets the other one unprobed.
SecondPathUnprobed(health) ==
    LET base == Matches(health, DefaultFirstBlocks) IN
    [mine |-> base, gpuFirstBlocks |-> base]

\* decide_device after the probes run_self_test makes: the second probe runs
\* only when the first one passed without the device path.
Decision(health) ==
    LET base == Matches(health, DefaultFirstBlocks) IN
    [mine |-> base,
     gpuFirstBlocks |-> base /\ (DefaultFirstBlocks \/ Matches(health, TRUE))]

\* run_self_test: without a reference digest from the CPU nothing is decided.
RunSelfTest(reference, health) ==
    [d \in (IF reference THEN DOMAIN health ELSE {}) |-> Decision(health[d])]

\* SelfTestReport::mining_devices
MiningDevices(report) == {d \in DOMAIN report : report[d].mine}

\* SelfTestReport::is_fatal: no reference, or no device left.
IsFatal(reference, report) == ~reference \/ MiningDevices(report) = {}
=============================================================================
