------------------------ MODULE OutageProbingProofs -------------------------
(***************************************************************************)
(* Safety of the circuit breaker under the drain thread's calls, for every *)
(* configuration allowed by BreakerConfigAssumption.  HalfOpenLatch is not *)
(* inductive alone: that an answer to /verify never meets an Open breaker  *)
(* and an answer to a probe never meets another one (RequestMatchesState)  *)
(* has to be carried along.                                                *)
(***************************************************************************)
EXTENDS OutageProbing, CircuitBreakerProofs

\* The breaker's own count is the number of failures since the last conclusive
\* answer, and Closed means it has not reached the threshold.
FailuresCounted ==
  breaker.state = "Closed" =>
    breaker.consecutive_failures = streak /\ streak < failure_threshold

BreakerInv ==
  /\ TypeOK
  /\ HalfOpenLatch
  /\ RequestMatchesState
  /\ ProbeStaysNear
  /\ FailuresCounted

\* A new breaker satisfies the invariant before the first step.
LEMMA BreakerInvInit == Init => BreakerInv
  BY BreakerConfigAssumption
     DEF Init, BreakerInv, TypeOK, HalfOpenLatch, RequestMatchesState, ProbeStaysNear,
         FailuresCounted, NewBreaker, Breakers, BreakerStates, VerifyHealth

\* Every step of the drain thread, of its servers and of the clock preserves it.
LEMMA BreakerInvStep == BreakerInv /\ [Next]_vars => BreakerInv'
<1> SUFFICES ASSUME BreakerInv, [Next]_vars PROVE BreakerInv'
  OBVIOUS
<1> USE DEF BreakerInv, TypeOK, HalfOpenLatch, RequestMatchesState, FailuresCounted
<1>0. breaker \in Breakers  OBVIOUS
<1>1. CASE ProbeStep
  BY <1>1 DEF ProbeStep, ProbeDue, environment, ProbeStaysNear
<1>2. CASE ProbeAnswered
  <2>0. breaker.state = "Open" /\ pc = "probing" /\ pc' = "idle"
    BY <1>2 DEF ProbeAnswered
  <2>1. CASE host
    <3>1. breaker' = [breaker EXCEPT !.state = "HalfOpen", !.admission_available = TRUE]
      BY <1>2, <2>0, <2>1 DEF ProbeAnswered, OnProbeSuccess
    <3> QED  BY <1>0, <1>2, <2>0, <3>1
             DEF ProbeAnswered, environment, Breakers, BreakerStates, ProbeStaysNear
  <2>2. CASE ~host
    <3>1. breaker' \in OnProbeFailure(breaker)
      BY <1>2, <2>2 DEF ProbeAnswered
    <3>2. /\ breaker' \in Breakers
          /\ breaker'.state = "Open"
          /\ 10 * breaker'.next_probe_in <= (10 + jitter_tenths) * probe_cap
      BY <1>0, <2>0, <3>1, OnProbeFailureEffect
    <3> QED  BY <1>2, <2>0, <3>2 DEF ProbeAnswered, environment, ProbeStaysNear
  <2> QED  BY <2>1, <2>2
<1>3. CASE SubmitStep
  <2> DEFINE b == SetXuniPressure(breaker, xuni_ready)
  <2>1. b = [breaker EXCEPT !.xuni_pressure = xuni_ready]
    BY <1>3 DEF SubmitStep, SetXuniPressure
  <2>2. b \in Breakers /\ b.state = breaker.state
    BY <1>0, <2>1 DEF Breakers
  <2>3. \/ breaker' = TakeAdmission(b) /\ pc' = "posting"
        \/ breaker' = b /\ pc' = pc
    BY <1>3 DEF SubmitStep
  <2> QED  BY <1>0, <1>3, <2>1, <2>2, <2>3
           DEF SubmitStep, TakeAdmission, environment, Breakers, ProbeStaysNear
<1>4. CASE PostAnswered
  <2>0. pc = "posting" /\ pc' = "idle" /\ breaker.state # "Open"
    BY <1>4 DEF PostAnswered, Accepted, TransportFailed, Inconclusive
  <2>z. 0 \in 0..failure_threshold /\ probe_base \in 0..probe_cap
    BY BreakerConfigAssumption
  <2>1. CASE Accepted
    <3>1. breaker' = [breaker EXCEPT !.state = "Closed", !.consecutive_failures = 0,
                        !.probe_interval = probe_base, !.admission_available = FALSE]
      BY <2>1 DEF Accepted, OnVerifySuccess
    <3>2. /\ breaker' \in Breakers
          /\ breaker'.state = "Closed" /\ breaker'.consecutive_failures = 0
      BY <1>0, <2>z, <3>1 DEF Breakers, BreakerStates
    <3> QED  BY <1>4, <2>0, <2>1, <3>2, BreakerConfigAssumption
             DEF PostAnswered, Accepted, environment, ProbeStaysNear
  <2>2. CASE TransportFailed
    <3>1. breaker' \in OnVerifyTransportFailure(breaker)
      BY <2>2 DEF TransportFailed
    <3>2. breaker.state = "Closed" => breaker.consecutive_failures < failure_threshold
      OBVIOUS
    <3>3. /\ breaker' \in Breakers
          /\ \/ breaker.state = "HalfOpen" /\ breaker'.state = "Open"
             \/ /\ breaker.state = "Closed"
                /\ breaker'.consecutive_failures = breaker.consecutive_failures + 1
                /\ breaker'.state = (IF breaker'.consecutive_failures >= failure_threshold
                                     THEN "Open" ELSE "Closed")
          /\ breaker'.state = "Open" =>
               10 * breaker'.next_probe_in <= (10 + jitter_tenths) * probe_cap
      BY <1>0, <2>0, <3>1, <3>2, OnVerifyTransportFailureEffect
    <3>4. streak' = Least(streak + 1, failure_threshold)
      BY <2>2 DEF TransportFailed
    <3> QED  BY <1>4, <2>0, <3>2, <3>3, <3>4, BreakerConfigAssumption
             DEF PostAnswered, environment, Least, ProbeStaysNear
  <2>3. CASE Inconclusive
    <3> DEFINE a == (breaker.state = "HalfOpen") \/ breaker.admission_available
    <3>1. breaker' = [breaker EXCEPT !.consecutive_failures = 0, !.admission_available = a]
      BY <2>3 DEF Inconclusive, OnVerifyInconclusive
    <3>2. a \in BOOLEAN /\ (breaker.state = "HalfOpen" => a)
      BY <1>0 DEF Breakers
    <3> HIDE DEF a
    <3>3. /\ breaker' \in Breakers
          /\ breaker'.state = breaker.state /\ breaker'.consecutive_failures = 0
          /\ breaker'.admission_available = a
      BY <1>0, <2>z, <3>1, <3>2 DEF Breakers
    <3> QED  BY <1>4, <2>0, <2>3, <3>2, <3>3, BreakerConfigAssumption
             DEF PostAnswered, Inconclusive, environment, ProbeStaysNear
  <2> QED  BY <1>4, <2>1, <2>2, <2>3 DEF PostAnswered
<1>5. CASE Tick
  <2>1. /\ breaker' \in Breakers
        /\ breaker' = [breaker EXCEPT !.next_probe_in = breaker'.next_probe_in]
        /\ breaker'.next_probe_in <= breaker.next_probe_in
    <3> DEFINE k == Greatest(0, breaker.next_probe_in - 1)
    <3>1. breaker' = [breaker EXCEPT !.next_probe_in = k]
      BY <1>5 DEF Tick, Elapse
    <3>2. k \in 0..(2 * probe_cap) /\ k <= breaker.next_probe_in
      BY <1>0, <1>5, BreakerConfigAssumption DEF Tick, Greatest, Breakers
    <3> HIDE DEF k
    <3>3. breaker'.next_probe_in = k
      BY <1>0, <3>1 DEF Breakers
    <3> QED  BY <1>0, <3>1, <3>2, <3>3 DEF Breakers
  <2>2. ProbeStaysNear'
    <3>1. breaker.next_probe_in \in Nat /\ breaker'.next_probe_in \in Nat
      BY <1>0, <2>1 DEF Breakers
    <3>2. breaker.state = breaker'.state
      BY <1>0, <2>1 DEF Breakers
    <3> QED  BY <2>1, <3>1, <3>2, BreakerConfigAssumption DEF ProbeStaysNear
  <2> QED  BY <1>0, <1>5, <2>1, <2>2 DEF Tick, environment, Breakers
<1>6. CASE EnvironmentChanges
  BY <1>6 DEF EnvironmentChanges, VerifyHealth, ProbeStaysNear
<1>7. CASE UNCHANGED vars
  BY <1>7 DEF vars, ProbeStaysNear
<1> QED  BY <1>1, <1>2, <1>3, <1>4, <1>5, <1>6, <1>7 DEF Next

\* For every configuration: the HalfOpen admission is out exactly while one
\* submission is in flight, so two are never admitted and the latch is never lost.
THEOREM HalfOpenLatchHolds == Spec => []HalfOpenLatch
<1>1. BreakerInv => HalfOpenLatch  BY DEF BreakerInv
<1> QED  BY <1>1, BreakerInvInit, BreakerInvStep, PTL DEF Spec

\* For every configuration: a probe is never scheduled further away than the cap
\* and its jitter, however often it was escalated.
THEOREM ProbeStaysNearHolds == Spec => []ProbeStaysNear
<1>1. BreakerInv => ProbeStaysNear  BY DEF BreakerInv
<1> QED  BY <1>1, BreakerInvInit, BreakerInvStep, PTL DEF Spec

\* For every configuration: the state has its type.
THEOREM OutageTypeCorrect == Spec => []TypeOK
<1>1. BreakerInv => TypeOK  BY DEF BreakerInv
<1> QED  BY <1>1, BreakerInvInit, BreakerInvStep, PTL DEF Spec

\* What one step may do to the breaker of an outage, used by both action theorems.
LEMMA OutageStep ==
  ASSUME BreakerInv, [Next]_vars
  PROVE  /\ breaker.state = "Closed" /\ breaker'.state = "Open"
              => streak' = failure_threshold /\ pc = "posting"
         /\ breaker.state # "Closed" /\ breaker'.state # "Closed"
              => breaker'.probe_interval >= breaker.probe_interval
<1> USE DEF BreakerInv, TypeOK, HalfOpenLatch, RequestMatchesState, FailuresCounted
<1>0. breaker \in Breakers /\ breaker.probe_interval \in Nat
  BY DEF Breakers
<1>1. CASE ProbeStep \/ EnvironmentChanges \/ UNCHANGED vars
  BY <1>0, <1>1 DEF ProbeStep, EnvironmentChanges, vars
<1>2. CASE ProbeAnswered
  <2>0. breaker.state = "Open" /\ breaker' \in OnProbeSuccess(breaker) \cup OnProbeFailure(breaker)
    BY <1>2 DEF ProbeAnswered
  <2>1. CASE breaker' \in OnProbeSuccess(breaker)
    <3>1. breaker'.probe_interval = breaker.probe_interval
      BY <1>0, <2>0, <2>1 DEF OnProbeSuccess, Breakers
    <3> QED  BY <1>0, <2>0, <3>1
  <2>2. CASE breaker' \in OnProbeFailure(breaker)
    BY <1>0, <2>0, <2>2, OnProbeFailureEffect
  <2> QED  BY <2>0, <2>1, <2>2
<1>3. CASE SubmitStep
  <2> DEFINE b == [breaker EXCEPT !.xuni_pressure = xuni_ready]
  <2>1. breaker' = TakeAdmission(b) \/ breaker' = b
    BY <1>3 DEF SubmitStep, SetXuniPressure
  <2>2. breaker'.probe_interval = breaker.probe_interval /\ breaker'.state = breaker.state
    BY <1>0, <2>1 DEF TakeAdmission, Breakers
  <2> QED  BY <1>0, <1>3, <2>2 DEF SubmitStep
<1>4. CASE PostAnswered
  <2>0. pc = "posting" /\ breaker.state # "Open"
    BY <1>4 DEF PostAnswered, Accepted, TransportFailed, Inconclusive
  <2>1. CASE Accepted
    <3>1. breaker'.state = "Closed"
      BY <1>0, <2>1 DEF Accepted, OnVerifySuccess, Breakers
    <3> QED  BY <3>1
  <2>2. CASE TransportFailed
    <3>1. breaker' \in OnVerifyTransportFailure(breaker)
      BY <2>2 DEF TransportFailed
    <3>2. breaker.state = "Closed" => breaker.consecutive_failures < failure_threshold
      OBVIOUS
    <3>3. \/ /\ breaker.state = "HalfOpen"
             /\ breaker'.probe_interval >= breaker.probe_interval
          \/ /\ breaker.state = "Closed"
             /\ breaker'.consecutive_failures = breaker.consecutive_failures + 1
             /\ breaker'.state = (IF breaker'.consecutive_failures >= failure_threshold
                                  THEN "Open" ELSE "Closed")
      BY <1>0, <2>0, <3>1, <3>2, OnVerifyTransportFailureEffect
    <3>4. streak' = Least(streak + 1, failure_threshold)
      BY <2>2 DEF TransportFailed
    <3> QED  BY <2>0, <3>2, <3>3, <3>4, BreakerConfigAssumption DEF Least
  <2>3. CASE Inconclusive
    <3>1. breaker'.probe_interval = breaker.probe_interval /\ breaker'.state = breaker.state
      BY <1>0, <2>3 DEF Inconclusive, OnVerifyInconclusive, Breakers
    <3> QED  BY <1>0, <2>0, <3>1
  <2> QED  BY <1>4, <2>1, <2>2, <2>3 DEF PostAnswered
<1>5. CASE Tick
  <2>1. breaker'.probe_interval = breaker.probe_interval /\ breaker'.state = breaker.state
    BY <1>0, <1>5 DEF Tick, Elapse, Breakers
  <2> QED  BY <1>0, <2>1
<1> QED  BY <1>1, <1>2, <1>3, <1>4, <1>5 DEF Next

\* For every configuration: the breaker opens only on failure_threshold transport
\* failures with no conclusive answer between them.
THEOREM OpensOnlyOnStreakHolds == Spec => OpensOnlyOnStreak
<1>1. BreakerInv /\ [Next]_vars =>
        [breaker.state = "Closed" /\ breaker'.state = "Open"
           => streak' = failure_threshold /\ pc = "posting"]_vars
  BY OutageStep
<1> QED  BY <1>1, BreakerInvInit, BreakerInvStep, PTL DEF Spec, OpensOnlyOnStreak

\* For every configuration: only a real acceptance shortens the probe interval.
THEOREM OutageNeverShortensIntervalHolds == Spec => OutageNeverShortensInterval
<1>1. BreakerInv /\ [Next]_vars =>
        [breaker.state # "Closed" /\ breaker'.state # "Closed"
           => breaker'.probe_interval >= breaker.probe_interval]_vars
  BY OutageStep
<1> QED  BY <1>1, BreakerInvInit, BreakerInvStep, PTL DEF Spec, OutageNeverShortensInterval
=============================================================================
