---------------------------- MODULE Classifier ------------------------------
(***************************************************************************)
(* classify of tm-submit/src/classifier.rs: what one /verify response      *)
(* means for a find.  The text of a response is reduced to what the code   *)
(* asks of it: whether the body is blank, which of the four kinds of       *)
(* phrase the message contains, and the number after "m=", if any.         *)
(***************************************************************************)
EXTENDS Integers

TRANSPORT_ERROR == 0   \* the status submit_step passes when there was no answer
NoHint == -1           \* parse_difficulty_hint found no m=<digits>

\* What a message can contain: the duplicate wording, an entry of
\* TERMINAL_MARKERS, a time frame or time window, and the m= mismatch wording.
Phrases == {"exists", "terminal", "window", "mismatch"}

Verdict(status) == [next_status |-> status, hint |-> NoHint, lookup |-> FALSE]
\* Mutant: a 200 or a duplicate is taken as the ack.
AckAtOnce == Verdict("Acked")
NeedsLookup == [Verdict("AcceptedUnconfirmed") EXCEPT !.lookup = TRUE]
\* Mutant: the hint is not passed on.
ParkedBlind(hint) == Verdict("ParkedDifficulty")
ParkedAt(hint) == [Verdict("ParkedDifficulty") EXCEPT !.hint = hint]

Unhealthy(status) == status \in {408, 425} \/ status >= 500

\* Mutant: the blank-body test comes after the test for 200.
BlankAfter200(r, k) ==
  IF r.status <= TRANSPORT_ERROR THEN Verdict("Pending")
  ELSE IF r.status = 200 THEN NeedsLookup
  ELSE IF r.blank \/ r.status = 429 \/ Unhealthy(r.status) THEN Verdict("Pending")
  ELSE Verdict("Quarantined")

\* r is [status, blank, says, hint]; the conditions are tried in this order.
Classify(r, k) ==
  IF r.status <= TRANSPORT_ERROR \/ r.blank THEN Verdict("Pending")
  ELSE IF r.status = 200 THEN NeedsLookup
  ELSE IF r.status = 429 \/ Unhealthy(r.status) THEN Verdict("Pending")
  ELSE IF r.status \in {400, 409} /\ "exists" \in r.says THEN NeedsLookup
  ELSE IF "terminal" \in r.says THEN Verdict("PermanentlyInvalid")
  ELSE IF "window" \in r.says
       THEN Verdict(IF k = "Xuni" THEN "ParkedXuniWindow" ELSE "Quarantined")
  ELSE IF ("mismatch" \in r.says \/ r.status = 401) /\ r.hint # NoHint
       THEN ParkedAt(r.hint)
  ELSE Verdict("Quarantined")

\* submit_step's own reading of the same response, for the breaker.
TransportFailure(r) == r.status = TRANSPORT_ERROR \/ r.blank \/ Unhealthy(r.status)
=============================================================================
