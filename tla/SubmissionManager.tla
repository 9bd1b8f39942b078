------------------------- MODULE SubmissionManager --------------------------
(***************************************************************************)
(* The submission layer (tm-submit/src/manager.rs) over the journal, the   *)
(* classifier, the drain order and the circuit breaker, with the threads   *)
(* that share them: the drain thread (run_step), the difficulty poller     *)
(* (observe_difficulty from run.rs) and the miner threads that append      *)
(* finds.  The process may crash at any point and restarts on the rows of  *)
(* the journal alone.                                                      *)
(*                                                                         *)
(* Journal calls by one thread that no other thread can tell apart are one *)
(* step; the points where another thread, the server or a crash can come   *)
(* between are the values of pc and of poller.  The pacing gate            *)
(* (next_submit_allowed_ms) only delays a step of the drain thread, so it  *)
(* is left to the interleaving.                                            *)
(***************************************************************************)
EXTENDS DrainScheduler, Classifier, CircuitBreaker

CONSTANTS Difficulties,         \* the difficulties the server may have
          xuni_max_windows, fetch_limit, confirm_fetch_limit,
          Events                \* which events of its environment a run includes

AllEvents == {"crash",         \* the process dies and restarts
              "journal",       \* a journal call fails
              "unreachable",   \* a request or its answer is lost, or comes late
              "lying",         \* 200 without a stored row
              "busy",          \* 429
              "unhealthy",     \* 5xx
              "odd",           \* an answer the classifier does not know
              "refusing",      \* a terminal rejection
              "proxy",         \* /get_block answers 200 with another body
              "difficulty",    \* the difficulty moves
              "window",        \* the XUNI window opens and closes
              "calm"}          \* disturbances end for good

ASSUME ManagerAssumption ==
  /\ Difficulties \subseteq Nat \ {0}
  /\ xuni_max_windows \in Nat
  /\ fetch_limit \in Nat \ {0}
  /\ confirm_fetch_limit \in Nat \ {0}
  /\ Events \subseteq AllEvents

VARIABLES
  finds,              \* the journal's table: all that survives a crash
  breaker, last_window_open,        \* StepState
  last_difficulty, rising,          \* SharedState: last_difficulty, trend = Rising
  synced,             \* SharedState: server_offset_ms is known
  quiescing,          \* now < quiesce_until_ms
  pc,                 \* where the drain thread is
  rec,                \* the record it is submitting
  res,                \* the answer it got, to /verify or to a probe
  batch,              \* the records confirm_step still has to look up
  poller,             \* [at, value]: the difficulty poller
  stored,             \* server: the keys it has a row for
  difficulty, window, \* server: its difficulty; whether the XUNI window is open
  late,               \* requests given up on that the server may still process
  calm                \* from here on no disturbance happens

drain == <<pc, rec, res, batch>>
shared == <<last_difficulty, rising, quiescing>>
server == <<difficulty, window, calm>>
vars == <<finds, breaker, last_window_open, last_difficulty, rising, synced,
          quiescing, pc, rec, res, batch, poller, stored, difficulty, window, late, calm>>

None == 0       \* no difficulty observed yet
NoFind == -1    \* no record in hand

Response(status, says, hint) ==
  [status |-> status, blank |-> FALSE, says |-> says, hint |-> hint]
NoResponse == Response(TRANSPORT_ERROR, {}, NoHint)
Responses == [status : Nat, blank : BOOLEAN, says : SUBSET Phrases, hint : Int]

Init ==
  /\ finds = EmptyTable
  /\ breaker = NewBreaker /\ last_window_open = FALSE
  /\ last_difficulty = None /\ rising = FALSE
  /\ synced = FALSE /\ quiescing = FALSE
  /\ pc = "idle" /\ rec = NoFind /\ res = NoResponse /\ batch = {}
  /\ poller = [at |-> "resting", value |-> None]
  /\ stored = {} /\ late = {} /\ calm = FALSE
  /\ difficulty \in Difficulties /\ window \in BOOLEAN

-----------------------------------------------------------------------------
(* The server (external), as the drain's requests meet it.                 *)

Disturbs(event) == event \in Events /\ ~calm

\* Disturbances end while the drain thread runs; a halted one needs a restart.
CalmBegins ==
  /\ "calm" \in Events
  /\ ~calm /\ pc # "halted"
  /\ calm' = TRUE
  /\ UNCHANGED <<finds, breaker, last_window_open, shared, synced, drain, poller,
                 stored, difficulty, window, late>>

\* What a healthy server answers: difficulty first, then the window, then the
\* UNIQUE key.  Only a find it has no objection to is stored.
Objection(f) ==
  IF memory_cost[f] < difficulty THEN {Response(401, {"mismatch"}, difficulty)}
  ELSE IF kind[f] = "Xuni" /\ ~window THEN {Response(401, {"window"}, NoHint)}
  ELSE IF f \in stored THEN {Response(400, {"exists"}, NoHint)}
  ELSE {}
Storing(f) == IF Objection(f) = {} THEN stored \cup {f} ELSE stored
Reply(f) == IF Objection(f) = {} THEN {Response(200, {}, NoHint)} ELSE Objection(f)

FaultyReply ==
  {r \in {Response(200, {}, NoHint), Response(429, {}, NoHint),
          Response(503, {}, NoHint), Response(403, {}, NoHint),
          Response(401, {"terminal"}, NoHint)} :
     \/ r.status = 200 /\ Disturbs("lying")
     \/ r.status = 429 /\ Disturbs("busy")
     \/ r.status = 503 /\ Disturbs("unhealthy")
     \/ r.status = 403 /\ Disturbs("odd")
     \/ r.status = 401 /\ Disturbs("refusing")}

\* What /get_block says of f: its row, 404, nothing, or a 200 that does not prove it.
Lookups(f) ==
  {l \in {"found", "absent", "unavailable", "unproven"} :
     \/ l = "found" /\ f \in stored
     \/ l = "absent" /\ f \notin stored
     \/ l = "unavailable" /\ Disturbs("unreachable")
     \/ l = "unproven" /\ (Disturbs("proxy") \/ Disturbs("unhealthy"))}

\* A request that timed out reaches the server after all.
LateVerify(f) ==
  /\ f \in late
  /\ stored' = Storing(f)
  /\ late' = late \ {f}
  /\ UNCHANGED <<finds, breaker, last_window_open, shared, synced, drain, poller, server>>

DifficultyMoves ==
  /\ Disturbs("difficulty")
  /\ difficulty' \in Difficulties \ {difficulty}
  /\ UNCHANGED <<finds, breaker, last_window_open, shared, synced, drain, poller,
                 stored, window, late, calm>>

WindowMoves ==
  /\ "window" \in Events
  /\ window' = ~window
  /\ UNCHANGED <<finds, breaker, last_window_open, shared, synced, drain, poller,
                 stored, difficulty, late, calm>>

-----------------------------------------------------------------------------
(* observe_difficulty, called by both threads: first the shared state under *)
(* its lock, then, with the lock released, the un-park.                     *)

Observe(d) ==
  /\ last_difficulty' = d
  /\ rising' = (last_difficulty # None /\ d > last_difficulty)
  /\ quiescing' = (quiescing \/ (last_difficulty # None /\ d # last_difficulty))
UnparksOn(d) == last_difficulty = None \/ d < last_difficulty

-----------------------------------------------------------------------------
(* The drain thread.                                                       *)

\* run_step with an Open breaker: probe_step.
ProbeStep ==
  /\ pc = "idle" /\ ProbeDue(breaker)
  /\ pc' = "probing"
  /\ UNCHANGED <<finds, breaker, last_window_open, shared, synced, rec, res, batch,
                 poller, stored, server, late>>

\* A healthy answer that carries the difficulty is observed first; one without it
\* (the dedicated health route) is enough for the breaker.
ProbeAnswered ==
  /\ pc = "probing"
  /\ \/ /\ res' = Response(200, {}, difficulty) /\ pc' = "observing"
        /\ UNCHANGED breaker
     \/ /\ breaker' \in OnProbeSuccess(breaker) /\ pc' = "idle" /\ UNCHANGED res
  /\ synced' = TRUE
  /\ UNCHANGED <<finds, last_window_open, shared, rec, batch, poller, stored, server, late>>

ProbeFailed ==
  /\ Disturbs("unreachable")
  /\ pc = "probing"
  /\ breaker' \in OnProbeFailure(breaker) /\ pc' = "idle"
  /\ UNCHANGED <<finds, last_window_open, shared, synced, rec, res, batch, poller,
                 stored, server, late>>

\* confirm_step up to its first lookup; nothing to do while the breaker is Open.
EnterConfirmStep(b, tbl) ==
  LET due == IF b.state = "Open" THEN {}
             ELSE FetchAwaitingConfirmation(tbl, confirm_fetch_limit)
  IN  /\ batch' = due
      /\ pc' = IF due = {} THEN "idle" ELSE "relooking"

\* The XUNI window as the drain sees it: the server's once the offset is known.
WindowSeen == IF synced THEN {window} ELSE BOOLEAN

\* submit_step up to the request.  The window bookkeeping comes before the
\* quiesce gate; a step that submits nothing goes on to confirm_step.
SubmitStep ==
  /\ pc = "idle" /\ breaker.state # "Open"
  /\ \E open \in WindowSeen, closing \in BOOLEAN :
       LET tbl   == IF open /\ ~last_window_open
                    THEN UnparkXuniForWindow(finds, xuni_max_windows) ELSE finds
           xen11 == FetchEligibleOfKind(tbl, "Xen11", fetch_limit)
           xuni  == IF open THEN FetchEligibleOfKind(tbl, "Xuni", fetch_limit) ELSE {}
           b     == SetXuniPressure(breaker, xuni # {})
       IN  /\ finds' = tbl
           /\ last_window_open' = open
           /\ \/ /\ quiescing
                 /\ UNCHANGED <<breaker, rec>> /\ EnterConfirmStep(breaker, tbl)
              \/ /\ ~quiescing /\ (xen11 \cup xuni = {} \/ ~CanAdmit(b))
                 /\ breaker' = b /\ UNCHANGED rec /\ EnterConfirmStep(b, tbl)
              \/ /\ ~quiescing /\ xen11 \cup xuni # {} /\ CanAdmit(b)
                 /\ breaker' = TakeAdmission(b)
                 /\ rec' = SelectNext(xen11, xuni, rising, closing)
                 /\ pc' = "posting" /\ UNCHANGED batch
  /\ UNCHANGED <<shared, synced, res, poller, stored, server, late>>

\* The answer r reaches submit_step, which classifies it.
Answered(r) ==
  LET c == Classify(r, kind[rec])
  IN  /\ res' = r
      /\ synced' = (synced \/ r # NoResponse)
      /\ pc' = IF c.hint # NoHint THEN "observing"
               ELSE IF c.lookup THEN "confirming" ELSE "recording"

Verify ==
  /\ pc = "posting"
  /\ \/ /\ stored' = Storing(rec)
        /\ \E r \in Reply(rec) : Answered(r)
     \/ /\ UNCHANGED stored
        /\ \E r \in FaultyReply : Answered(r)
  /\ UNCHANGED <<finds, breaker, last_window_open, shared, rec, batch, poller, server, late>>

\* A timeout or a dropped connection: the request was lost, or it was processed and
\* the answer lost, or it is still on its way.
VerifyLost ==
  /\ Disturbs("unreachable")
  /\ pc = "posting"
  /\ Answered(NoResponse)
  /\ \/ UNCHANGED <<stored, late>>
     \/ stored' = Storing(rec) /\ UNCHANGED late
     \/ late' = late \cup {rec} /\ UNCHANGED stored
  /\ UNCHANGED <<finds, breaker, last_window_open, shared, rec, batch, poller, server>>

\* A difficulty in hand (from a 401 or a probe): observe_difficulty, un-park,
\* record_difficulty; then the attempt is recorded or the probe has succeeded.
AfterHint ==
  IF rec = NoFind
  THEN breaker' \in OnProbeSuccess(breaker) /\ pc' = "idle" /\ res' = NoResponse
  ELSE pc' = "recording" /\ UNCHANGED <<breaker, res>>

ObserveHint ==
  /\ pc = "observing"
  /\ Observe(res.hint)
  /\ IF UnparksOn(res.hint) THEN pc' = "unparking" /\ UNCHANGED <<breaker, res>>
                            ELSE AfterHint
  /\ UNCHANGED <<finds, last_window_open, synced, rec, batch, poller, stored, server, late>>

UnparkOnHint ==
  /\ pc = "unparking"
  /\ finds' = UnparkForDifficulty(finds, res.hint)
  /\ AfterHint
  /\ UNCHANGED <<last_window_open, shared, synced, rec, batch, poller, stored, server, late>>

\* The attempt is recorded, the breaker told, and confirm_step follows.
Finish(status, backoff, breakers) ==
  /\ finds' = RecordAttempt(finds, rec, status, backoff)
  /\ breaker' \in breakers
  /\ EnterConfirmStep(breaker', finds')
  /\ rec' = NoFind /\ res' = NoResponse
  /\ UNCHANGED <<last_window_open, shared, poller, stored, server, late>>

RecordOutcome ==
  /\ pc = "recording"
  /\ LET status == Classify(res, kind[rec]).next_status
     IN  Finish(status, status = "Pending",
                IF TransportFailure(res) THEN OnVerifyTransportFailure(breaker)
                                         ELSE OnVerifyInconclusive(breaker))
  /\ UNCHANGED synced

\* The status a lookup leads to, for submit_step and confirm_step alike.
Confirmed(lookup) ==
  CASE lookup = "found" -> "Acked"
    [] lookup = "absent" -> "Pending"
    [] lookup \in {"unavailable", "unproven"} -> "AcceptedUnconfirmed"

ConfirmOutcome ==
  /\ pc = "confirming"
  /\ \E lookup \in Lookups(rec) :
       /\ Finish(Confirmed(lookup), lookup # "found",
                 IF lookup = "absent" THEN OnVerifyInconclusive(breaker)
                                      ELSE OnVerifySuccess(breaker))
       /\ synced' = (synced \/ lookup # "unavailable")

\* confirm_step, one record of its batch; the rest is given up when the host is down.
ConfirmStep ==
  /\ pc = "relooking"
  /\ \E lookup \in Lookups(Eldest(batch)) :
       /\ finds' = RecordAttempt(finds, Eldest(batch), Confirmed(lookup), lookup # "found")
       /\ batch' = IF lookup = "unavailable" THEN {} ELSE batch \ {Eldest(batch)}
       /\ synced' = (synced \/ lookup # "unavailable")
  /\ pc' = IF batch' = {} THEN "idle" ELSE "relooking"
  /\ UNCHANGED <<breaker, last_window_open, shared, rec, res, poller, stored, server, late>>

\* handle_fatal: a journal call of the drain thread fails and the thread stops.  The
\* fetch that fails may come after the window un-park of the same step.
DrainHalts ==
  /\ Disturbs("journal")
  /\ pc \notin {"posting", "probing", "halted"}
  /\ \/ UNCHANGED finds
     \/ /\ pc = "idle" /\ breaker.state # "Open"
        /\ ~last_window_open /\ TRUE \in WindowSeen
        /\ finds' = UnparkXuniForWindow(finds, xuni_max_windows)
  /\ pc' = "halted" /\ rec' = NoFind /\ res' = NoResponse /\ batch' = {}
  /\ UNCHANGED <<breaker, last_window_open, shared, synced, poller, stored,
                 server, late>>

-----------------------------------------------------------------------------
(* The difficulty poller: a value read from the server, observed, un-parked. *)

Poll ==
  /\ poller.at = "resting"
  /\ poller' = [at |-> "observing", value |-> difficulty]
  /\ UNCHANGED <<finds, breaker, last_window_open, shared, synced, drain, stored,
                 server, late>>

Rests == poller' = [at |-> "resting", value |-> None]

PollerObserves ==
  /\ poller.at = "observing"
  /\ Observe(poller.value)
  /\ IF UnparksOn(poller.value) THEN poller' = [poller EXCEPT !.at = "unparking"]
                                ELSE Rests
  /\ UNCHANGED <<finds, breaker, last_window_open, synced, drain, stored, server, late>>

\* observe_difficulty_and_clock drops the error of a failed un-park.
PollerUnparks ==
  /\ poller.at = "unparking"
  /\ \/ finds' = UnparkForDifficulty(finds, poller.value)
     \/ Disturbs("journal") /\ UNCHANGED finds
  /\ Rests
  /\ UNCHANGED <<breaker, last_window_open, shared, synced, drain, stored, server, late>>

-----------------------------------------------------------------------------
(* The miner, the clock and the process.                                   *)

MinerAppends(f) ==
  /\ finds[f].status = "Absent"
  /\ \A g \in Finds : g < f => finds[g].status # "Absent"
  /\ finds' = JournalAppend(finds, f)
  /\ UNCHANGED <<breaker, last_window_open, shared, synced, drain, poller, stored,
                 server, late>>

BackoffEnds(f) ==
  /\ ~finds[f].due
  /\ finds' = BecomeDue(finds, f)
  /\ UNCHANGED <<breaker, last_window_open, shared, synced, drain, poller, stored,
                 server, late>>

QuiesceEnds ==
  /\ quiescing /\ quiescing' = FALSE
  /\ UNCHANGED <<finds, breaker, last_window_open, last_difficulty, rising, synced,
                 drain, poller, stored, server, late>>

Tick ==
  /\ breaker.next_probe_in > 0
  /\ breaker' = Elapse(breaker)
  /\ UNCHANGED <<finds, last_window_open, shared, synced, drain, poller, stored,
                 server, late>>

\* The process dies and comes back: recover_on_startup changes no row, because
\* Submitting is never persisted; a request in flight may still arrive.
Crash ==
  /\ Disturbs("crash")
  /\ breaker' = NewBreaker /\ last_window_open' = FALSE
  /\ last_difficulty' = None /\ rising' = FALSE
  /\ synced' = FALSE /\ quiescing' = FALSE
  /\ pc' = "idle" /\ rec' = NoFind /\ res' = NoResponse /\ batch' = {}
  /\ Rests
  /\ late' = IF pc = "posting" THEN late \cup {rec} ELSE late
  /\ UNCHANGED <<finds, stored, server>>

Next ==
  \/ ProbeStep \/ ProbeAnswered \/ ProbeFailed
  \/ SubmitStep \/ Verify \/ VerifyLost \/ ObserveHint \/ UnparkOnHint
  \/ RecordOutcome \/ ConfirmOutcome \/ ConfirmStep \/ DrainHalts
  \/ Poll \/ PollerObserves \/ PollerUnparks
  \/ \E f \in Finds : LateVerify(f) \/ MinerAppends(f) \/ BackoffEnds(f)
  \/ QuiesceEnds \/ Tick \/ Crash
  \/ DifficultyMoves \/ WindowMoves \/ CalmBegins

Spec == Init /\ [][Next]_vars

\* Both threads loop for as long as the process lives, every request has a timeout,
\* and deadlines pass.
Fairness ==
  /\ WF_vars(ProbeStep) /\ WF_vars(ProbeAnswered \/ ProbeFailed)
  /\ WF_vars(SubmitStep) /\ WF_vars(Verify \/ VerifyLost)
  /\ WF_vars(ObserveHint) /\ WF_vars(UnparkOnHint)
  /\ WF_vars(RecordOutcome) /\ WF_vars(ConfirmOutcome) /\ WF_vars(ConfirmStep)
  /\ WF_vars(Poll) /\ WF_vars(PollerObserves) /\ WF_vars(PollerUnparks)
  /\ WF_vars(QuiesceEnds) /\ WF_vars(Tick)
  /\ \A f \in Finds : WF_vars(BackoffEnds(f))
FairSpec == Spec /\ Fairness

-----------------------------------------------------------------------------
Places == {"idle", "probing", "posting", "observing", "unparking", "recording",
           "confirming", "relooking", "halted"}

TypeOK ==
  /\ finds \in [Finds -> Rows]
  /\ breaker \in Breakers /\ last_window_open \in BOOLEAN
  /\ last_difficulty \in Difficulties \cup {None} /\ rising \in BOOLEAN
  /\ synced \in BOOLEAN /\ quiescing \in BOOLEAN
  /\ pc \in Places
  /\ rec \in Finds \cup {NoFind} /\ res \in Responses /\ batch \subseteq Finds
  /\ poller \in [at : {"resting", "observing", "unparking"},
                 value : Difficulties \cup {None}]
  /\ stored \subseteq Finds /\ late \subseteq Finds
  /\ difficulty \in Difficulties /\ window \in BOOLEAN /\ calm \in BOOLEAN

\* A find is Acked only when the server really has its row: not on a 200 that was a
\* lie, not on an answer from something in between, not on a row an earlier attempt
\* was only believed to have stored.
AckedIsStored == \A f \in Finds : finds[f].status = "Acked" => f \in stored

\* record_attempt overwrites the row whatever its status; that is right only because
\* nobody else moves a row between its fetch and its record: the record in flight is
\* still Pending, and the rest of the confirmation batch still unconfirmed.
InHandUndisturbed ==
  /\ rec # NoFind => finds[rec].status = "Pending"
  /\ \A f \in batch : finds[f].status = "AcceptedUnconfirmed"

\* Whatever the answer, and whichever path submit_step takes from it, the HalfOpen
\* admission is given back exactly when the record leaves the drain's hands.
AdmissionReturned ==
  breaker.state = "HalfOpen" /\ pc # "halted" =>
    (breaker.admission_available <=> rec = NoFind)

\* Only a XUNI that was tried in all its windows is Dead, and none is tried in more.
XuniBudget ==
  \A f \in Finds :
    /\ finds[f].xuni_windows_tried <= xuni_max_windows
    /\ finds[f].status \in {"Dead", "ParkedXuniWindow"} => kind[f] = "Xuni"
    /\ finds[f].status = "Dead" => finds[f].xuni_windows_tried = xuni_max_windows

\* The life of a find, as FindLifecycle promises it.
Lifecycle == INSTANCE FindLifecycle WITH status <- [f \in Finds |-> finds[f].status]
FollowsLifecycle == Lifecycle!Spec

\* Once disturbances end, every XEN11 the server would take is confirmed on it,
\* whatever backoff, breaker, quiesce or half-done attempt they left behind.  (A find
\* in the drain's hands may still have an older rejection recorded.)
Drains ==
  \A f \in Finds :
    (/\ calm /\ kind[f] = "Xen11" /\ memory_cost[f] >= difficulty /\ rec # f
     /\ finds[f].status \in {"Pending", "AcceptedUnconfirmed"})
      ~> finds[f].status = "Acked"
=============================================================================
