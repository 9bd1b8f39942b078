------------------------ MODULE CircuitBreakerProofs ------------------------
(***************************************************************************)
(* What the methods of the breaker do to its fields, for every             *)
(* configuration: the lemmas both proofs about the drain thread rest on.   *)
(***************************************************************************)
EXTENDS CircuitBreaker, TLAPS

\* Every delay schedule_probe may choose is at most the cap plus its jitter.
LEMMA ProbeDelaysBound ==
  ASSUME NEW b \in Breakers, NEW d \in ProbeDelays(b)
  PROVE  /\ d \in 0..(2 * probe_cap)
         /\ 10 * d <= (10 + jitter_tenths) * probe_cap
<1> DEFINE base == Least(b.probe_interval, ActiveCap(b))
<1>1. base \in Nat /\ base <= probe_cap /\ ActiveCap(b) \in Nat
  BY BreakerConfigAssumption DEF Breakers, Least, ActiveCap
<1>2. PICK j \in 0..base : /\ j = 0 \/ 10 * j < jitter_tenths * base
                           /\ d = IF b.xuni_pressure THEN Least(base + j, ActiveCap(b))
                                                     ELSE base + j
  BY DEF ProbeDelays
<1>3. d \in Nat /\ d <= base + j
  BY <1>1, <1>2 DEF Least
<1> HIDE DEF base
<1>4. jitter_tenths \in Nat /\ probe_cap \in Nat
  BY BreakerConfigAssumption
<1>5. jitter_tenths * base <= jitter_tenths * probe_cap /\ 0 <= jitter_tenths * base
  BY <1>1, <1>4
<1>6. 10 * j <= jitter_tenths * base
  BY <1>1, <1>2, <1>4, <1>5
<1>7. 10 * d <= 10 * probe_cap + jitter_tenths * probe_cap
  BY <1>1, <1>3, <1>4, <1>5, <1>6
<1>8. (10 + jitter_tenths) * probe_cap = 10 * probe_cap + jitter_tenths * probe_cap
  BY <1>4
<1>9. d <= 2 * probe_cap
  BY <1>1, <1>2, <1>3, <1>4
<1> QED  BY <1>3, <1>4, <1>7, <1>8, <1>9

\* Scheduling a probe changes the deadline only, and keeps it near.
LEMMA ScheduleProbeEffect ==
  ASSUME NEW b \in Breakers, NEW c \in ScheduleProbe(b)
  PROVE  /\ c \in Breakers
         /\ c = [b EXCEPT !.next_probe_in = c.next_probe_in]
         /\ 10 * c.next_probe_in <= (10 + jitter_tenths) * probe_cap
<1>1. PICK d \in ProbeDelays(b) : c = [b EXCEPT !.next_probe_in = d]
  BY DEF ScheduleProbe
<1>2. /\ d \in 0..(2 * probe_cap)
      /\ 10 * d <= (10 + jitter_tenths) * probe_cap
  BY ProbeDelaysBound
<1> QED  BY <1>1, <1>2 DEF Breakers

\* Opening from a breaker whose interval is already set.
LEMMA OpenBreakerEffect ==
  ASSUME NEW b \in Breakers, NEW c \in OpenBreaker(b)
  PROVE  /\ c \in Breakers
         /\ c.state = "Open"
         /\ c.probe_interval = b.probe_interval
         /\ c.consecutive_failures = b.consecutive_failures
         /\ 10 * c.next_probe_in <= (10 + jitter_tenths) * probe_cap
<1> DEFINE o == [b EXCEPT !.state = "Open", !.admission_available = FALSE]
<1>1. o \in Breakers  BY DEF Breakers, BreakerStates
<1>2. c \in ScheduleProbe(o)  BY DEF OpenBreaker
<1>3. /\ c \in Breakers
      /\ c = [o EXCEPT !.next_probe_in = c.next_probe_in]
      /\ 10 * c.next_probe_in <= (10 + jitter_tenths) * probe_cap
  BY <1>1, <1>2, ScheduleProbeEffect
<1> QED  BY <1>1, <1>3 DEF Breakers

\* A failed probe keeps the breaker Open and never shortens the interval.
LEMMA OnProbeFailureEffect ==
  ASSUME NEW b \in Breakers, b.state = "Open", NEW c \in OnProbeFailure(b)
  PROVE  /\ c \in Breakers
         /\ c.state = "Open"
         /\ c.probe_interval >= b.probe_interval
         /\ 10 * c.next_probe_in <= (10 + jitter_tenths) * probe_cap
<1> DEFINE e == [b EXCEPT !.probe_interval = Least(2 * b.probe_interval, probe_cap)]
<1>1. e \in Breakers /\ e.probe_interval >= b.probe_interval /\ e.state = "Open"
  BY BreakerConfigAssumption DEF Breakers, Least
<1>2. c \in ScheduleProbe(e)  BY DEF OnProbeFailure
<1>3. /\ c \in Breakers
      /\ c = [e EXCEPT !.next_probe_in = c.next_probe_in]
      /\ 10 * c.next_probe_in <= (10 + jitter_tenths) * probe_cap
  BY <1>1, <1>2, ScheduleProbeEffect
<1> QED  BY <1>1, <1>3 DEF Breakers

\* A transport failure of a /verify request, from the two states that send one.
LEMMA OnVerifyTransportFailureEffect ==
  ASSUME NEW b \in Breakers, NEW c \in OnVerifyTransportFailure(b),
         b.state = "Closed" => b.consecutive_failures < failure_threshold,
         b.state # "Open"
  PROVE  /\ c \in Breakers
         /\ \/ /\ b.state = "HalfOpen"
               /\ c.state = "Open"
               /\ c.probe_interval >= b.probe_interval
            \/ /\ b.state = "Closed"
               /\ c.consecutive_failures = b.consecutive_failures + 1
               /\ c.state = (IF c.consecutive_failures >= failure_threshold
                             THEN "Open" ELSE "Closed")
         /\ c.state = "Open" => 10 * c.next_probe_in <= (10 + jitter_tenths) * probe_cap
<1>1. CASE b.state = "HalfOpen"
  <2> DEFINE e == [b EXCEPT !.probe_interval =
                     Least(2 * Greatest(b.probe_interval, probe_base), probe_cap)]
  <2>1. e \in Breakers /\ e.probe_interval >= b.probe_interval
    BY BreakerConfigAssumption DEF Breakers, Least, Greatest
  <2>2. c \in OpenBreaker(e)
    BY <1>1 DEF OnVerifyTransportFailure
  <2> QED  BY <1>1, <2>1, <2>2, OpenBreakerEffect
<1>2. CASE b.state = "Closed"
  <2> DEFINE n == [b EXCEPT !.consecutive_failures = @ + 1]
             e == [n EXCEPT !.probe_interval = probe_base]
  <2>1. /\ n \in Breakers /\ n.consecutive_failures = b.consecutive_failures + 1
        /\ n.state = "Closed"
    BY <1>2, BreakerConfigAssumption DEF Breakers
  <2>2. e \in Breakers /\ e.consecutive_failures = b.consecutive_failures + 1
    <3> HIDE DEF n
    <3> QED  BY <2>1, BreakerConfigAssumption DEF Breakers
  <2>3. CASE n.consecutive_failures >= failure_threshold
    <3>1. c \in OpenBreaker(e)
      BY <1>2, <2>1, <2>3, BreakerConfigAssumption DEF OnVerifyTransportFailure, Breakers
    <3> QED  BY <1>2, <2>1, <2>2, <2>3, <3>1, OpenBreakerEffect
  <2>4. CASE n.consecutive_failures < failure_threshold
    <3>1. c = n
      BY <1>2, <2>1, <2>4, BreakerConfigAssumption DEF OnVerifyTransportFailure, Breakers
    <3> QED  BY <1>2, <2>1, <2>4, <3>1, BreakerConfigAssumption DEF Breakers
  <2> QED  BY <2>1, <2>3, <2>4, BreakerConfigAssumption DEF Breakers
<1> QED  BY <1>1, <1>2 DEF Breakers, BreakerStates

\* A successful probe hands out the one admission.
LEMMA OnProbeSuccessEffect ==
  ASSUME NEW b \in Breakers, b.state = "Open", NEW c \in OnProbeSuccess(b)
  PROVE  c \in Breakers /\ c.state = "HalfOpen" /\ c.admission_available = TRUE
  BY DEF OnProbeSuccess, Breakers, BreakerStates

\* An accepted submission closes the breaker and clears the count.
LEMMA OnVerifySuccessEffect ==
  ASSUME NEW b \in Breakers, NEW c \in OnVerifySuccess(b)
  PROVE  c \in Breakers /\ c.state = "Closed" /\ c.consecutive_failures = 0
<1>1. 0 \in 0..failure_threshold /\ probe_base \in 0..probe_cap
  BY BreakerConfigAssumption
<1>2. c = [b EXCEPT !.state = "Closed", !.consecutive_failures = 0,
                    !.probe_interval = probe_base, !.admission_available = FALSE]
  BY DEF OnVerifySuccess
<1> QED  BY <1>1, <1>2 DEF Breakers, BreakerStates

\* An answer that settles nothing clears the count and gives the admission back.
LEMMA OnVerifyInconclusiveEffect ==
  ASSUME NEW b \in Breakers, NEW c \in OnVerifyInconclusive(b)
  PROVE  /\ c \in Breakers
         /\ c.state = b.state /\ c.consecutive_failures = 0
         /\ b.state = "HalfOpen" => c.admission_available = TRUE
<1> DEFINE a == (b.state = "HalfOpen") \/ b.admission_available
<1>1. c = [b EXCEPT !.consecutive_failures = 0, !.admission_available = a]
  BY DEF OnVerifyInconclusive
<1>2. a \in BOOLEAN /\ (b.state = "HalfOpen" => a = TRUE)
  BY DEF Breakers
<1>3. 0 \in 0..failure_threshold
  BY BreakerConfigAssumption
<1> HIDE DEF a
<1> QED  BY <1>1, <1>2, <1>3 DEF Breakers

\* The pressure flag changes nothing else while the breaker is not Open.
LEMMA SetXuniPressureEffect ==
  ASSUME NEW b \in Breakers, NEW p \in BOOLEAN, b.state # "Open"
  PROVE  LET c == SetXuniPressure(b, p)
         IN  /\ c \in Breakers
             /\ c.state = b.state /\ c.consecutive_failures = b.consecutive_failures
             /\ c.admission_available = b.admission_available
<1>1. SetXuniPressure(b, p) = [b EXCEPT !.xuni_pressure = p]
  BY DEF SetXuniPressure
<1> QED  BY <1>1 DEF Breakers

\* An admitted submission uses the HalfOpen admission up.
LEMMA TakeAdmissionEffect ==
  ASSUME NEW b \in Breakers
  PROVE  LET c == TakeAdmission(b)
         IN  /\ c \in Breakers
             /\ c.state = b.state /\ c.consecutive_failures = b.consecutive_failures
             /\ b.state = "HalfOpen" => c.admission_available = FALSE
  BY DEF TakeAdmission, Breakers

\* Time changes the deadline only.
LEMMA ElapseEffect ==
  ASSUME NEW b \in Breakers
  PROVE  LET c == Elapse(b)
         IN  /\ c \in Breakers
             /\ c.state = b.state /\ c.consecutive_failures = b.consecutive_failures
             /\ c.admission_available = b.admission_available
<1> DEFINE k == Greatest(0, b.next_probe_in - 1)
<1>1. k \in 0..(2 * probe_cap)
  BY BreakerConfigAssumption DEF Greatest, Breakers
<1>2. Elapse(b) = [b EXCEPT !.next_probe_in = k]
  BY DEF Elapse
<1> HIDE DEF k
<1> QED  BY <1>1, <1>2 DEF Breakers
=============================================================================
