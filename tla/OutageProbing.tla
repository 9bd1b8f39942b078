--------------------------- MODULE OutageProbing ----------------------------
(***************************************************************************)
(* The drain thread as the circuit breaker sees it: run_step of            *)
(* tm-submit/src/manager.rs decides by the breaker's state whether a step  *)
(* probes or submits, and reports the answer back to the breaker.  The     *)
(* journal is reduced to two bits, whether a record is eligible and        *)
(* whether an eligible XUNI is among them while its window is open.        *)
(* Network calls take time: the clock runs between a request and its       *)
(* answer.                                                                 *)
(***************************************************************************)
EXTENDS CircuitBreaker

VARIABLES breaker,     \* StepState.breaker
          pc,          \* what the drain thread waits for
          eligible,    \* fetch_eligible_of_kind(Xen11, ..) is non-empty
          xuni_ready,  \* window open and fetch_eligible_of_kind(Xuni, ..) non-empty
          host,        \* the health and difficulty routes answer
          verify,      \* /verify is "down", "accepting", or "rejecting" (it answers,
                       \* but every record gets a 401, 4xx or 429)
          streak       \* history: /verify transport failures since the last
                       \* conclusive answer

vars == <<breaker, pc, eligible, xuni_ready, host, verify, streak>>
environment == <<eligible, xuni_ready, host, verify>>

VerifyHealth == {"down", "accepting", "rejecting"}

Init ==
  /\ breaker = NewBreaker
  /\ pc = "idle"
  /\ eligible \in BOOLEAN
  /\ xuni_ready \in BOOLEAN
  /\ host \in BOOLEAN
  /\ verify \in VerifyHealth
  /\ streak = 0

-----------------------------------------------------------------------------
\* run_step with an Open breaker: probe_step, and only once the probe is due.
ProbeStep ==
  /\ pc = "idle"
  /\ ProbeDue(breaker)
  /\ pc' = "probing"
  /\ UNCHANGED <<breaker, environment, streak>>

ProbeAnswered ==
  /\ pc = "probing"
  /\ breaker' \in IF host THEN OnProbeSuccess(breaker) ELSE OnProbeFailure(breaker)
  /\ pc' = "idle"
  /\ UNCHANGED <<environment, streak>>

\* run_step with any other breaker: submit_step up to the request.  The pressure
\* flag is refreshed here and nowhere else; the admission is taken only when a
\* record was selected.
SubmitStep ==
  /\ pc = "idle"
  /\ breaker.state # "Open"
  /\ LET b == SetXuniPressure(breaker, xuni_ready)
     IN  IF (eligible \/ xuni_ready) /\ CanAdmit(b)
         THEN breaker' = TakeAdmission(b) /\ pc' = "posting"
         ELSE breaker' = b /\ UNCHANGED pc
  /\ UNCHANGED <<environment, streak>>

\* submit_step after the answer: accepted, transport failure, or a conclusive
\* answer that is not an acceptance (401, 4xx, 429).
Accepted ==
  /\ pc = "posting" /\ verify = "accepting"
  /\ breaker' \in OnVerifySuccess(breaker)
  /\ streak' = 0

TransportFailed ==
  /\ pc = "posting" /\ verify = "down"
  /\ breaker' \in OnVerifyTransportFailure(breaker)
  /\ streak' = Least(streak + 1, failure_threshold)

Inconclusive ==
  /\ pc = "posting" /\ verify = "rejecting"
  /\ breaker' \in OnVerifyInconclusive(breaker)
  /\ streak' = 0

PostAnswered ==
  /\ Accepted \/ TransportFailed \/ Inconclusive
  /\ pc' = "idle"
  /\ UNCHANGED environment

Tick ==
  /\ breaker.next_probe_in > 0
  /\ breaker' = Elapse(breaker)
  /\ UNCHANGED <<pc, environment, streak>>

\* Finds are journaled and drain, windows open and close, servers come and go.
EnvironmentChanges ==
  /\ \/ eligible' = ~eligible /\ UNCHANGED <<xuni_ready, host, verify>>
     \/ xuni_ready' = ~xuni_ready /\ UNCHANGED <<eligible, host, verify>>
     \/ host' = ~host /\ UNCHANGED <<eligible, xuni_ready, verify>>
     \/ verify' \in VerifyHealth \ {verify} /\ UNCHANGED <<eligible, xuni_ready, host>>
  /\ UNCHANGED <<breaker, pc, streak>>

Next ==
  \/ ProbeStep \/ ProbeAnswered \/ SubmitStep \/ PostAnswered
  \/ Tick \/ EnvironmentChanges

\* The drain thread loops forever, every request has a timeout, and time passes.
Fairness ==
  /\ WF_vars(ProbeStep) /\ WF_vars(ProbeAnswered)
  /\ WF_vars(SubmitStep) /\ WF_vars(PostAnswered)
  /\ WF_vars(Tick)

Spec == Init /\ [][Next]_vars
FairSpec == Spec /\ Fairness

-----------------------------------------------------------------------------
TypeOK ==
  /\ breaker \in Breakers
  /\ pc \in {"idle", "probing", "posting"}
  /\ eligible \in BOOLEAN /\ xuni_ready \in BOOLEAN /\ host \in BOOLEAN
  /\ verify \in VerifyHealth
  /\ streak \in 0..failure_threshold

\* HalfOpen admits exactly ONE submission: while it is in flight there is no
\* second admission, and when none is in flight the admission is back, so the
\* drain can never be stuck in HalfOpen with the latch lost.
HalfOpenLatch ==
  breaker.state = "HalfOpen" => (breaker.admission_available <=> pc # "posting")

\* No /verify request is in flight against an Open breaker, and no probe against
\* any other.
RequestMatchesState ==
  /\ pc = "posting" => breaker.state # "Open"
  /\ pc = "probing" => breaker.state = "Open"

\* The breaker leaves Closed only after failure_threshold failures in a row with
\* no conclusive answer in between.
OpensOnlyOnStreak ==
  [][breaker.state = "Closed" /\ breaker'.state = "Open"
       => streak' = failure_threshold /\ pc = "posting"]_vars

\* However long the outage, the next probe is never further away than the cap
\* plus its jitter: escalation cannot push recovery out of reach.
ProbeStaysNear ==
  breaker.state = "Open" =>
    10 * breaker.next_probe_in <= (10 + jitter_tenths) * probe_cap

\* Escalation only ever restarts through a real acceptance: while an outage lasts
\* (Open and HalfOpen alternate on probes alone) the interval never shrinks.
OutageNeverShortensInterval ==
  [][breaker.state # "Closed" /\ breaker'.state # "Closed"
       => breaker'.probe_interval >= breaker.probe_interval]_vars

\* Once both routes stay up, records are accepted and there is one to submit, the
\* breaker closes, whatever the outage did to it before.
Recovery ==
  <>[](host /\ verify = "accepting" /\ eligible) => []<>(breaker.state = "Closed")
=============================================================================
