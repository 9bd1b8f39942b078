--------------------------- MODULE CircuitBreaker ---------------------------
(***************************************************************************)
(* The circuit breaker of the submission path (tm-submit/src/breaker.rs).  *)
(* A breaker is a record; each method of the source is an operator that    *)
(* maps a breaker to the set of breakers it may become (a set because of   *)
(* the jitter added to the probe delay).                                   *)
(*                                                                         *)
(* Time is relative.  The source stores next_probe_at_ms and only ever     *)
(* compares it with clock() or takes the minimum of it and clock() + c, so *)
(* the model keeps next_probe_in == max(0, next_probe_at_ms - clock()) and *)
(* Elapse advances the clock.                                              *)
(***************************************************************************)
EXTENDS Integers

CONSTANTS failure_threshold,  \* consecutive failures needed to open
          probe_base,         \* first probe delay after opening
          probe_cap,          \* normal ceiling of the probe interval
          probe_cap_xuni,     \* ceiling while an eligible XUNI exists
          jitter_tenths       \* jitter_fraction, in tenths

ASSUME BreakerConfigAssumption ==
  /\ failure_threshold \in Nat \ {0}
  /\ probe_base \in Nat \ {0}
  /\ probe_cap \in Nat \ {0}
  /\ probe_base <= probe_cap
  /\ probe_cap_xuni \in Nat \ {0}
  /\ jitter_tenths \in 0..10

BreakerStates == {"Closed", "Open", "HalfOpen"}

Breakers ==
  [state : BreakerStates, consecutive_failures : 0..failure_threshold,
   probe_interval : 0..probe_cap, next_probe_in : 0..(2 * probe_cap),
   admission_available : BOOLEAN, xuni_pressure : BOOLEAN]

Least(a, b) == IF a <= b THEN a ELSE b
Greatest(a, b) == IF a >= b THEN a ELSE b

NewBreaker ==
  [state |-> "Closed", consecutive_failures |-> 0, probe_interval |-> 0,
   next_probe_in |-> 0, admission_available |-> FALSE, xuni_pressure |-> FALSE]

ActiveCap(b) ==
  IF b.xuni_pressure THEN Least(probe_cap, probe_cap_xuni) ELSE probe_cap

\* Mutant: jitter of up to the whole interval.
FullJitter(b) ==
  LET base == Least(b.probe_interval, ActiveCap(b)) IN {base + j : j \in 0..base}

\* The delays schedule_probe may choose: the interval under the active cap plus
\* less than jitter_fraction of it, and never beyond the cap under XUNI pressure.
ProbeDelays(b) ==
  LET base    == Least(b.probe_interval, ActiveCap(b))
      jitters == {j \in 0..base : j = 0 \/ 10 * j < jitter_tenths * base}
  IN  {IF b.xuni_pressure THEN Least(base + j, ActiveCap(b)) ELSE base + j :
         j \in jitters}

ScheduleProbe(b) == {[b EXCEPT !.next_probe_in = d] : d \in ProbeDelays(b)}

OpenBreaker(b) ==
  ScheduleProbe([b EXCEPT !.state = "Open", !.admission_available = FALSE])

ProbeDue(b) == b.state = "Open" /\ b.next_probe_in = 0

OnProbeSuccess(b) ==
  IF b.state = "Open"
  THEN {[b EXCEPT !.state = "HalfOpen", !.admission_available = TRUE]}
  ELSE {b}

OnProbeFailure(b) ==
  IF b.state = "Open"
  THEN ScheduleProbe([b EXCEPT !.probe_interval =
                                 Least(2 * b.probe_interval, probe_cap)])
  ELSE {b}

\* try_admit: the answer, and the breaker that HalfOpen leaves behind.
CanAdmit(b) ==
  \/ b.state = "Closed"
  \/ b.state = "HalfOpen" /\ b.admission_available
\* Mutant: the HalfOpen admission is not used up.
AdmitFreely(b) == b
TakeAdmission(b) ==
  IF b.state = "HalfOpen" THEN [b EXCEPT !.admission_available = FALSE] ELSE b

OnVerifySuccess(b) ==
  {[b EXCEPT !.state = "Closed", !.consecutive_failures = 0,
             !.probe_interval = probe_base, !.admission_available = FALSE]}

\* Mutant: a failed HalfOpen attempt starts the escalation over.
RestartEscalation(b) ==
  LET counted == [b EXCEPT !.consecutive_failures = @ + 1]
  IN  IF b.state = "Closed" /\ counted.consecutive_failures < failure_threshold
      THEN {counted}
      ELSE OpenBreaker([b EXCEPT !.probe_interval = probe_base])

OnVerifyTransportFailure(b) ==
  LET counted == [b EXCEPT !.consecutive_failures = @ + 1]
      doubled == Least(2 * Greatest(b.probe_interval, probe_base), probe_cap)
  IN  CASE b.state = "HalfOpen" ->
             OpenBreaker([b EXCEPT !.probe_interval = doubled])
        [] b.state = "Closed" /\ counted.consecutive_failures >= failure_threshold ->
             OpenBreaker([counted EXCEPT !.probe_interval = probe_base])
        [] b.state = "Closed" /\ counted.consecutive_failures < failure_threshold ->
             {counted}
        [] b.state = "Open" -> {b}

\* Mutants: the admission is not given back; the failure count is kept.
InconclusiveKeepsAdmission(b) == {[b EXCEPT !.consecutive_failures = 0]}
InconclusiveKeepsCount(b) ==
  {[b EXCEPT !.admission_available = (b.state = "HalfOpen") \/ @]}

OnVerifyInconclusive(b) ==
  {[b EXCEPT !.consecutive_failures = 0,
             !.admission_available = (b.state = "HalfOpen") \/ @]}

SetXuniPressure(b, eligible_xuni_exists) ==
  LET c == [b EXCEPT !.xuni_pressure = eligible_xuni_exists]
  IN  IF ~b.xuni_pressure /\ eligible_xuni_exists /\ b.state = "Open"
      THEN [c EXCEPT !.next_probe_in = Least(@, ActiveCap(c))]
      ELSE c

\* One unit of monotonic time passes.
Elapse(b) == [b EXCEPT !.next_probe_in = Greatest(0, @ - 1)]
=============================================================================
