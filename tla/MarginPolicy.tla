---------------------------- MODULE MarginPolicy ----------------------------
(***************************************************************************)
(* The headroom the submission manager asks the miner to add to the memory *)
(* cost (tm-submit/src/margin.rs, update_margin of manager.rs).  The state *)
(* update_margin keeps between steps is the record `step'; a step observes *)
(* the clock, the breaker and the journal.                                 *)
(***************************************************************************)
EXTENDS Integers

CONSTANTS
    StepKib,        \* margin_kib: the constant headroom, or one auto step
    MaxMarginKib,   \* max_kib
    Period,         \* adjust_period_ms
    EvalInterval    \* margin_eval_interval_ms

ASSUME MarginAssumption ==
    /\ StepKib \in Nat /\ MaxMarginKib \in Nat
    /\ Period \in Nat \ {0} /\ EvalInterval \in Nat

NoMoreThan(a, b) == IF a < b THEN a ELSE b

\* Mutant: an auto margin that waits for a full period before its first step.
MarginAfterAPeriod(mode, open, outage, backlog) ==
    CASE mode = "off" -> 0
      [] mode = "fixed" -> StepKib
      [] mode = "auto" /\ ~open /\ backlog = 0 -> 0
      [] OTHER -> NoMoreThan(StepKib * (IF open THEN outage \div Period ELSE 1), MaxMarginKib)

\* compute_margin.
ComputeMargin(mode, open, outage, backlog) ==
    CASE mode = "off" -> 0
      [] mode = "fixed" -> StepKib
      [] mode = "auto" /\ ~open /\ backlog = 0 -> 0
      [] OTHER ->
           NoMoreThan(StepKib * (1 + (IF open /\ outage > 0 THEN outage \div Period ELSE 0)),
                      MaxMarginKib)

\* outage_started_ms and last_margin_eval_ms before the first step; zero
\* means the outage clock does not run.
FirstStep == [started |-> 0, span |-> 0, evaluated |-> FALSE, at |-> 0, margin |-> 0]

\* The outage clock runs while the breaker is Open and is cleared at the
\* first step that finds it otherwise, half open included.
OutageClock(step, now, open) ==
    IF open
    THEN [step EXCEPT !.started = IF @ = 0 THEN now ELSE @]
    ELSE [step EXCEPT !.span = IF step.started = 0 THEN @ ELSE now - step.started,
                      !.started = 0]

\* The first step evaluates, and then one every EvalInterval.
Due(step, now) == ~step.evaluated \/ now - step.at >= EvalInterval

\* update_margin, with obs.now, obs.open and obs.backlog as the step sees them.
\* The backlog is counted in auto mode only; when the journal cannot be read
\* (obs.counted is FALSE) the evaluation is noted and the margin stays.
UpdateMargin(mode, step, obs) ==
    LET ticked == OutageClock(step, obs.now, obs.open)
        noted == [ticked EXCEPT !.evaluated = TRUE, !.at = obs.now]
    IN  CASE mode = "off" \/ ~Due(step, obs.now) -> ticked
          [] mode = "auto" /\ Due(step, obs.now) /\ ~obs.counted -> noted
          [] OTHER ->
               [noted EXCEPT !.margin =
                  ComputeMargin(mode, obs.open,
                                IF obs.open THEN obs.now - ticked.started ELSE 0,
                                obs.backlog)]

Observation(now, open, counted, backlog) ==
    [now |-> now, open |-> open, counted |-> counted, backlog |-> backlog]

(***************************************************************************)
(* A miner in auto mode, watched from one step of the manager to the next: *)
(* seen is the last observation, began the time the breaker was first seen *)
(* Open in the present outage, and fresh whether the margin was evaluated  *)
(* at that step.  The monotonic clock starts with the process and the      *)
(* breaker starts Closed.                                                  *)
(***************************************************************************)
Watched(w, obs) ==
    [step |-> UpdateMargin("auto", w.step, obs),
     began |-> IF obs.open /\ ~w.seen.open THEN obs.now ELSE w.began,
     fresh |-> Due(w.step, obs.now) /\ obs.counted,
     seen |-> obs]

NotWatched == [step |-> FirstStep, began |-> 0, fresh |-> FALSE,
               seen |-> Observation(0, FALSE, FALSE, 0)]

(***************************************************************************)
(* The server's difficulty (external): one step at most at every tick of   *)
(* the adjustment period, whose phase the miner does not know.             *)
(***************************************************************************)
RisesBetween(from, to, phase) ==
    LET Ticks(t) == (t + Period - phase) \div Period IN Ticks(to) - Ticks(from)
=============================================================================
