---------------------- MODULE SubmissionManagerProofs -----------------------
(***************************************************************************)
(* Safety of the submission layer for any number of finds, any             *)
(* difficulties, limits and window budget, and any breaker configuration.  *)
(***************************************************************************)
EXTENDS SubmissionManager, CircuitBreakerProofs, WellFoundedInduction

\* What may happen to the row of f in one step; from here on the proofs need not
\* know which action did it.
RowMoves(f) ==
  LET old == finds[f]
      new == finds'[f]
      kept == new.xuni_windows_tried = old.xuni_windows_tried
  IN  \/ new.status = old.status /\ kept
      \/ /\ old.status = "Absent" /\ kept
         /\ new.status = IF f \in Unsubmittable THEN "PermanentlyInvalid" ELSE "Pending"
      \/ /\ old.status = "Pending" /\ kept
         /\ new.status \in {"AcceptedUnconfirmed", "ParkedDifficulty", "Quarantined",
                            "PermanentlyInvalid"}
      \/ /\ old.status = "Pending" /\ kept
         /\ new.status = "ParkedXuniWindow" /\ kind[f] = "Xuni"
      \/ /\ old.status \in {"Pending", "AcceptedUnconfirmed"} /\ kept
         /\ new.status = "Acked" /\ f \in stored
      \/ old.status = "AcceptedUnconfirmed" /\ new.status = "Pending" /\ kept
      \/ old.status = "ParkedDifficulty" /\ new.status = "Pending" /\ kept
      \/ /\ old.status = "ParkedXuniWindow" /\ old.xuni_windows_tried < xuni_max_windows
         /\ new.status = "Pending"
         /\ new.xuni_windows_tried = old.xuni_windows_tried + 1
      \/ /\ old.status = "ParkedXuniWindow" /\ old.xuni_windows_tried >= xuni_max_windows
         /\ new.status = "Dead" /\ kept

-----------------------------------------------------------------------------
(* The operators the specification is built from.                          *)

\* A non-empty set of naturals has a least element.
LEMMA LeastExists ==
  ASSUME NEW S, S \subseteq Nat, S # {}
  PROVE  \E f \in S : \A g \in S : f <= g
<1> DEFINE R == OpToRel(<, Nat)
<1>1. \A x, y \in Nat : y < x => <<y, x>> \in R
  BY Zenon DEF OpToRel
<1>2. \E f \in S : \A g \in S : ~(<<g, f>> \in R)
  BY NatLessThanWellFounded, WFMin
<1>3. PICK f \in S : \A g \in S : ~(<<g, f>> \in R)
  BY <1>2, Zenon
<1> HIDE DEF R
<1>4. \A g \in S : ~(g < f)
  BY <1>1, <1>3, Zenon
<1>5. \A g \in S : f <= g
  BY <1>4
<1> QED  BY <1>5, Zenon

\* The oldest row of a non-empty slice is in the slice: SelectNext and confirm_step
\* pick a record that was fetched.
LEMMA EldestIsMember ==
  ASSUME NEW S, S \subseteq Nat, S # {}
  PROVE  Eldest(S) \in S
  BY LeastExists DEF Eldest

\* select_next returns a record of one of the slices it is given.
LEMMA SelectNextIsFetched ==
  ASSUME NEW xen11, NEW xuni, NEW up, NEW closing,
         xen11 \subseteq Finds, xuni \subseteq Finds, xen11 \cup xuni # {}
  PROVE  SelectNext(xen11, xuni, up, closing) \in xen11 \cup xuni
<1>0. xen11 \subseteq Nat /\ xuni \subseteq Nat
  BY JournalAssumption
<1>1. xuni # {} => Eldest(xuni) \in xuni
  BY <1>0, EldestIsMember
<1>2. xen11 # {} => Eldest(xen11) \in xen11
  BY <1>0, EldestIsMember
<1>3. xen11 # {} => LowestMargin(xen11) \in xen11
  <2> SUFFICES ASSUME xen11 # {} PROVE LowestMargin(xen11) \in xen11
    OBVIOUS
  <2> DEFINE costs == {memory_cost[f] : f \in xen11}
             low == {f \in xen11 : \A g \in xen11 : memory_cost[f] <= memory_cost[g]}
  <2>1. costs \subseteq Nat /\ costs # {}
    BY JournalAssumption
  <2>2. \E c \in costs : \A d \in costs : c <= d
    BY <2>1, LeastExists
  <2>3. \E f \in xen11 : \A g \in xen11 : memory_cost[f] <= memory_cost[g]
    BY <2>2
  <2>4. low # {} /\ low \subseteq Nat
    BY <1>0, <2>3
  <2>5. Eldest(low) \in low
    BY <2>4, EldestIsMember
  <2> QED  BY <2>5 DEF LowestMargin
<1> QED  BY <1>1, <1>2, <1>3 DEF SelectNext

\* A verdict on a response is never Acked, Dead or Absent, parks for the window only a
\* XUNI, and has a hint only when it parks for the difficulty.
LEMMA ClassifyRange ==
  ASSUME NEW r, NEW k
  PROVE  /\ Classify(r, k).next_status \in
              {"Pending", "AcceptedUnconfirmed", "ParkedDifficulty", "ParkedXuniWindow",
               "Quarantined", "PermanentlyInvalid"}
         /\ Classify(r, k).next_status = "ParkedXuniWindow" => k = "Xuni"
         /\ Classify(r, k).hint # NoHint => Classify(r, k).hint = r.hint
  BY DEF Classify, Verdict, NeedsLookup, ParkedAt, NoHint

\* The fetches return rows of the table, due and in the status asked for.
LEMMA FetchesAreEligible ==
  ASSUME NEW tbl, NEW limit, NEW k
  PROVE  /\ FetchEligibleOfKind(tbl, k, limit) \subseteq
              {f \in Finds : tbl[f].status = "Pending"}
         /\ FetchAwaitingConfirmation(tbl, limit) \subseteq
              {f \in Finds : tbl[f].status = "AcceptedUnconfirmed"}
  BY DEF FetchEligibleOfKind, FetchAwaitingConfirmation, FetchByStatus, Oldest, OfKind

\* The un-park for a difficulty touches parked rows only.
LEMMA UnparkForDifficultyRows ==
  ASSUME NEW tbl \in [Finds -> Rows], NEW d
  PROVE  /\ UnparkForDifficulty(tbl, d) \in [Finds -> Rows]
         /\ \A f \in Finds :
              \/ UnparkForDifficulty(tbl, d)[f] = tbl[f]
              \/ /\ tbl[f].status = "ParkedDifficulty"
                 /\ UnparkForDifficulty(tbl, d)[f].status = "Pending"
                 /\ UnparkForDifficulty(tbl, d)[f].xuni_windows_tried =
                      tbl[f].xuni_windows_tried
  BY DEF UnparkForDifficulty, Rows, Statuses

\* The window's un-park touches rows parked for it, and counts or ends each of them.
LEMMA UnparkXuniForWindowRows ==
  ASSUME NEW tbl \in [Finds -> Rows]
  PROVE  /\ UnparkXuniForWindow(tbl, xuni_max_windows) \in [Finds -> Rows]
         /\ \A f \in Finds :
              LET new == UnparkXuniForWindow(tbl, xuni_max_windows)[f]
              IN  \/ new = tbl[f]
                  \/ /\ tbl[f].status = "ParkedXuniWindow"
                     /\ tbl[f].xuni_windows_tried >= xuni_max_windows
                     /\ new.status = "Dead"
                     /\ new.xuni_windows_tried = tbl[f].xuni_windows_tried
                  \/ /\ tbl[f].status = "ParkedXuniWindow"
                     /\ tbl[f].xuni_windows_tried < xuni_max_windows
                     /\ new.status = "Pending"
                     /\ new.xuni_windows_tried = tbl[f].xuni_windows_tried + 1
<1>1. xuni_max_windows \in Nat /\ \A f \in Finds : tbl[f].xuni_windows_tried \in Nat
  BY ManagerAssumption DEF Rows
<1>2. ASSUME NEW f \in Finds, tbl[f].status = "ParkedXuniWindow",
             tbl[f].xuni_windows_tried >= xuni_max_windows
      PROVE  UnparkXuniForWindow(tbl, xuni_max_windows)[f] =
               [tbl[f] EXCEPT !.status = "Dead", !.due = TRUE]
  BY <1>2 DEF UnparkXuniForWindow
<1>3. ASSUME NEW f \in Finds, tbl[f].status = "ParkedXuniWindow",
             tbl[f].xuni_windows_tried < xuni_max_windows
      PROVE  UnparkXuniForWindow(tbl, xuni_max_windows)[f] =
               [tbl[f] EXCEPT !.status = "Pending", !.due = TRUE,
                              !.xuni_windows_tried = tbl[f].xuni_windows_tried + 1]
  BY <1>1, <1>3 DEF UnparkXuniForWindow
<1>4. \A f \in Finds : tbl[f].status # "ParkedXuniWindow" =>
                        UnparkXuniForWindow(tbl, xuni_max_windows)[f] = tbl[f]
  BY DEF UnparkXuniForWindow
<1>5. ASSUME NEW f \in Finds
      PROVE  UnparkXuniForWindow(tbl, xuni_max_windows)[f] \in Rows
  <2>1. tbl[f] \in Rows /\ tbl[f].xuni_windows_tried + 1 \in Nat
    BY <1>1
  <2>2. CASE tbl[f].status # "ParkedXuniWindow"
    BY <1>4, <2>1, <2>2
  <2>3. CASE /\ tbl[f].status = "ParkedXuniWindow"
             /\ tbl[f].xuni_windows_tried >= xuni_max_windows
    BY <1>2, <2>1, <2>3 DEF Rows, Statuses
  <2>4. CASE /\ tbl[f].status = "ParkedXuniWindow"
             /\ tbl[f].xuni_windows_tried < xuni_max_windows
    BY <1>3, <2>1, <2>4 DEF Rows, Statuses
  <2> QED  BY <1>1, <2>2, <2>3, <2>4
<1>6. UnparkXuniForWindow(tbl, xuni_max_windows) \in [Finds -> Rows]
  BY <1>5 DEF UnparkXuniForWindow
<1>7. ASSUME NEW f \in Finds
      PROVE  LET new == UnparkXuniForWindow(tbl, xuni_max_windows)[f]
             IN  \/ new = tbl[f]
                 \/ /\ tbl[f].status = "ParkedXuniWindow"
                    /\ tbl[f].xuni_windows_tried >= xuni_max_windows
                    /\ new.status = "Dead"
                    /\ new.xuni_windows_tried = tbl[f].xuni_windows_tried
                 \/ /\ tbl[f].status = "ParkedXuniWindow"
                    /\ tbl[f].xuni_windows_tried < xuni_max_windows
                    /\ new.status = "Pending"
                    /\ new.xuni_windows_tried = tbl[f].xuni_windows_tried + 1
  <2>1. tbl[f] \in Rows  OBVIOUS
  <2>2. CASE tbl[f].status # "ParkedXuniWindow"
    BY <1>4, <2>2
  <2>3. CASE /\ tbl[f].status = "ParkedXuniWindow"
             /\ tbl[f].xuni_windows_tried >= xuni_max_windows
    BY <1>2, <2>1, <2>3 DEF Rows
  <2>4. CASE /\ tbl[f].status = "ParkedXuniWindow"
             /\ tbl[f].xuni_windows_tried < xuni_max_windows
    BY <1>1, <1>3, <2>1, <2>4 DEF Rows
  <2> QED  BY <1>1, <2>2, <2>3, <2>4
<1> QED  BY <1>6, <1>7

\* Recording an attempt writes one row and leaves its window count.
LEMMA RecordAttemptRow ==
  ASSUME NEW tbl \in [Finds -> Rows], NEW f \in Finds, NEW status \in Statuses,
         NEW backoff \in BOOLEAN
  PROVE  LET new == RecordAttempt(tbl, f, status, backoff)
         IN  /\ new \in [Finds -> Rows]
             /\ new[f].status = status
             /\ new[f].xuni_windows_tried = tbl[f].xuni_windows_tried
             /\ \A g \in Finds \ {f} : new[g] = tbl[g]
  BY DEF RecordAttempt, Rows

-----------------------------------------------------------------------------
(* The inductive invariant.                                                *)

\* What the drain thread and the poller hold, by where they are.
InHand ==
  /\ pc \in {"posting", "confirming", "recording"} => rec \in Finds
  /\ pc \in {"idle", "probing", "relooking", "halted"} => rec = NoFind
  /\ pc = "relooking" <=> batch # {}
  /\ pc \in {"observing", "unparking"} => res.hint \in Difficulties
  /\ poller.at # "resting" => poller.value \in Difficulties

\* An attempt is never in hand under an Open breaker, and a probe only under one.
BreakerFits ==
  /\ rec # NoFind => breaker.state # "Open"
  /\ pc = "probing" \/ (pc \in {"observing", "unparking"} /\ rec = NoFind)
       => breaker.state = "Open"
  /\ breaker.state = "Closed" => breaker.consecutive_failures < failure_threshold

SafetyInv ==
  /\ TypeOK
  /\ InHand
  /\ InHandUndisturbed
  /\ BreakerFits
  /\ AdmissionReturned
  /\ AckedIsStored
  /\ XuniBudget

\* Whatever the step, every row makes one of the moves of RowMoves, and the server
\* forgets nothing.
LEMMA TableStep ==
  ASSUME TypeOK, InHand, InHandUndisturbed, [Next]_vars
  PROVE  /\ finds' \in [Finds -> Rows]
         /\ \A f \in Finds : RowMoves(f)
         /\ stored \subseteq stored'
         /\ stored' \subseteq Finds
<1>0. finds \in [Finds -> Rows] /\ NoFind \notin Finds
  BY JournalAssumption DEF TypeOK, NoFind
<1>s. stored \subseteq stored' /\ stored' \subseteq Finds
  <2>0. stored \subseteq Finds  BY DEF TypeOK
  <2>1. \A f \in Finds : stored \subseteq Storing(f) /\ Storing(f) \subseteq Finds
    BY <2>0 DEF Storing
  <2>2. pc = "posting" => rec \in Finds  BY DEF InHand
  <2>3. CASE Verify  BY <2>0, <2>1, <2>2, <2>3 DEF Verify
  <2>4. CASE VerifyLost  BY <2>0, <2>1, <2>2, <2>4 DEF VerifyLost
  <2>5. ASSUME NEW f \in Finds, LateVerify(f) PROVE stored \subseteq stored' /\ stored' \subseteq Finds
    BY <2>1, <2>5 DEF LateVerify
  <2>6. CASE stored' = stored  BY <2>0, <2>6
  <2> QED  BY <2>3, <2>4, <2>5, <2>6
           DEF Next, vars, ProbeStep, ProbeAnswered, ProbeFailed, SubmitStep, ObserveHint,
               UnparkOnHint, RecordOutcome, ConfirmOutcome, Finish, ConfirmStep, DrainHalts,
               Poll, PollerObserves, PollerUnparks, MinerAppends, BackoffEnds, QuiesceEnds,
               Tick, Crash, DifficultyMoves, WindowMoves, CalmBegins
<1>u. CASE finds' = finds
  BY <1>0, <1>s, <1>u DEF RowMoves
<1>d. ASSUME NEW d, finds' = UnparkForDifficulty(finds, d)
      PROVE  finds' \in [Finds -> Rows] /\ \A f \in Finds : RowMoves(f)
  BY <1>0, <1>d, UnparkForDifficultyRows DEF RowMoves
<1>x. ASSUME finds' = UnparkXuniForWindow(finds, xuni_max_windows)
      PROVE  finds' \in [Finds -> Rows] /\ \A f \in Finds : RowMoves(f)
  BY <1>0, <1>x, UnparkXuniForWindowRows DEF RowMoves
\* An attempt on a Pending row.
<1>a. ASSUME NEW status, NEW backoff \in BOOLEAN, rec \in Finds,
             finds' = RecordAttempt(finds, rec, status, backoff),
             \/ status \in {"Pending", "AcceptedUnconfirmed", "ParkedDifficulty",
                            "Quarantined", "PermanentlyInvalid"}
             \/ status = "ParkedXuniWindow" /\ kind[rec] = "Xuni"
             \/ status = "Acked" /\ rec \in stored
      PROVE  finds' \in [Finds -> Rows] /\ \A f \in Finds : RowMoves(f)
  <2>1. status \in Statuses  BY <1>a DEF Statuses
  <2>2. finds[rec].status = "Pending"
    BY <1>0, <1>a DEF InHandUndisturbed
  <2>3. /\ finds' \in [Finds -> Rows]
        /\ finds'[rec].status = status
        /\ finds'[rec].xuni_windows_tried = finds[rec].xuni_windows_tried
        /\ \A g \in Finds \ {rec} : finds'[g] = finds[g]
    BY <1>0, <1>a, <2>1, RecordAttemptRow
  <2>4. RowMoves(rec)
    BY <1>a, <2>2, <2>3 DEF RowMoves
  <2>5. \A f \in Finds \ {rec} : RowMoves(f)
    BY <2>3 DEF RowMoves
  <2> QED  BY <2>3, <2>4, <2>5
<1>1. CASE SubmitStep
  <2>1. finds' = finds \/ finds' = UnparkXuniForWindow(finds, xuni_max_windows)
    BY <1>1 DEF SubmitStep
  <2> QED  BY <1>s, <1>u, <1>x, <2>1
<1>2. CASE UnparkOnHint
  BY <1>s, <1>d, <1>2 DEF UnparkOnHint
<1>3. CASE RecordOutcome
  <2> DEFINE status == Classify(res, kind[rec]).next_status
  <2>1. /\ rec \in Finds
        /\ finds' = RecordAttempt(finds, rec, status, status = "Pending")
    BY <1>3 DEF RecordOutcome, Finish, InHand
  <2>2. \/ status \in {"Pending", "AcceptedUnconfirmed", "ParkedDifficulty",
                       "Quarantined", "PermanentlyInvalid"}
        \/ status = "ParkedXuniWindow" /\ kind[rec] = "Xuni"
    BY ClassifyRange
  <2>3. (status = "Pending") \in BOOLEAN  OBVIOUS
  <2> HIDE DEF status
  <2> QED  BY <1>s, <1>a, <2>1, <2>2, <2>3
<1>4. CASE ConfirmOutcome
  <2>1. PICK lookup \in Lookups(rec) :
               finds' = RecordAttempt(finds, rec, Confirmed(lookup), lookup # "found")
    BY <1>4 DEF ConfirmOutcome, Finish
  <2>2. /\ rec \in Finds
        /\ lookup \in {"found", "absent", "unavailable", "unproven"}
        /\ lookup = "found" => rec \in stored
    BY <1>4, <2>1 DEF ConfirmOutcome, InHand, Lookups
  <2>3. \/ Confirmed(lookup) \in {"Pending", "AcceptedUnconfirmed"}
        \/ Confirmed(lookup) = "Acked" /\ rec \in stored
    BY <2>2 DEF Confirmed
  <2>4. (lookup # "found") \in BOOLEAN  OBVIOUS
  <2> QED  BY <1>s, <1>a, <2>1, <2>2, <2>3, <2>4
<1>5. CASE ConfirmStep
  <2> DEFINE e == Eldest(batch)
  <2>1. batch # {} /\ batch \subseteq Nat /\ batch \subseteq Finds
    BY <1>5, JournalAssumption DEF ConfirmStep, InHand, TypeOK
  <2>2. e \in batch
    BY <2>1, EldestIsMember
  <2>3. PICK lookup \in Lookups(e) :
               finds' = RecordAttempt(finds, e, Confirmed(lookup), lookup # "found")
    BY <1>5 DEF ConfirmStep
  <2> HIDE DEF e
  <2>4. e \in Finds /\ finds[e].status = "AcceptedUnconfirmed"
    BY <2>1, <2>2 DEF InHandUndisturbed
  <2>5. /\ lookup \in {"found", "absent", "unavailable", "unproven"}
        /\ lookup = "found" => e \in stored
    BY <2>3 DEF Lookups
  <2>6. \/ Confirmed(lookup) \in {"Pending", "AcceptedUnconfirmed"}
        \/ Confirmed(lookup) = "Acked" /\ e \in stored
    BY <2>5 DEF Confirmed
  <2>7. Confirmed(lookup) \in Statuses /\ (lookup # "found") \in BOOLEAN
    BY <2>6 DEF Statuses
  <2>8. /\ finds' \in [Finds -> Rows]
        /\ finds'[e].status = Confirmed(lookup)
        /\ finds'[e].xuni_windows_tried = finds[e].xuni_windows_tried
        /\ \A g \in Finds \ {e} : finds'[g] = finds[g]
    <3> DEFINE s == Confirmed(lookup)
               b == lookup # "found"
    <3>1. s \in Statuses /\ b \in BOOLEAN /\ finds' = RecordAttempt(finds, e, s, b)
      BY <2>3, <2>7
    <3> HIDE DEF s, b
    <3>2. /\ finds' \in [Finds -> Rows]
          /\ finds'[e].status = s
          /\ finds'[e].xuni_windows_tried = finds[e].xuni_windows_tried
          /\ \A g \in Finds \ {e} : finds'[g] = finds[g]
      BY <1>0, <2>4, <3>1, RecordAttemptRow
    <3> QED  BY <3>2 DEF s
  <2>9. RowMoves(e)
    BY <2>4, <2>6, <2>8 DEF RowMoves
  <2>10. \A f \in Finds \ {e} : RowMoves(f)
    BY <2>8 DEF RowMoves
  <2> QED  BY <1>s, <2>8, <2>9, <2>10
<1>6. CASE DrainHalts
  <2>1. finds' = finds \/ finds' = UnparkXuniForWindow(finds, xuni_max_windows)
    BY <1>6 DEF DrainHalts
  <2> QED  BY <1>s, <1>u, <1>x, <2>1
<1>7. CASE PollerUnparks
  <2>1. finds' = finds \/ finds' = UnparkForDifficulty(finds, poller.value)
    BY <1>7 DEF PollerUnparks
  <2> QED  BY <1>s, <1>u, <1>d, <2>1
<1>8. ASSUME NEW g \in Finds, MinerAppends(g)
      PROVE  finds' \in [Finds -> Rows] /\ \A f \in Finds : RowMoves(f)
  <2> DEFINE s == IF g \in Unsubmittable THEN "PermanentlyInvalid" ELSE "Pending"
  <2>1. finds[g].status = "Absent" /\ finds' = [finds EXCEPT ![g].status = s]
    BY <1>8 DEF MinerAppends, JournalAppend
  <2>2. s \in Statuses  BY DEF Statuses
  <2>3. /\ finds' \in [Finds -> Rows]
        /\ finds'[g].status = s
        /\ finds'[g].xuni_windows_tried = finds[g].xuni_windows_tried
        /\ \A f \in Finds \ {g} : finds'[f] = finds[f]
    <3> HIDE DEF s
    <3> QED  BY <1>0, <2>1, <2>2 DEF Rows
  <2>4. RowMoves(g)
    BY <2>1, <2>3 DEF RowMoves
  <2>5. \A f \in Finds \ {g} : RowMoves(f)
    BY <2>3 DEF RowMoves
  <2> QED  BY <2>3, <2>4, <2>5
<1>9. ASSUME NEW g \in Finds, BackoffEnds(g)
      PROVE  finds' \in [Finds -> Rows] /\ \A f \in Finds : RowMoves(f)
  <2>1. finds' = [finds EXCEPT ![g].due = TRUE]
    BY <1>9 DEF BackoffEnds, BecomeDue
  <2>2. /\ finds' \in [Finds -> Rows]
        /\ \A f \in Finds : /\ finds'[f].status = finds[f].status
                             /\ finds'[f].xuni_windows_tried = finds[f].xuni_windows_tried
    BY <1>0, <2>1 DEF Rows
  <2> QED  BY <2>2 DEF RowMoves
<1> QED
  BY <1>s, <1>u, <1>1, <1>2, <1>3, <1>4, <1>5, <1>6, <1>7, <1>8, <1>9
     DEF Next, vars, ProbeStep, ProbeAnswered, ProbeFailed, Verify, VerifyLost, ObserveHint,
         Poll, PollerObserves, LateVerify, QuiesceEnds, Tick, Crash, DifficultyMoves,
         WindowMoves, CalmBegins

\* The breaker keeps its type, fits what the threads hold, and has its admission back
\* whenever nothing is in hand.
LEMMA BreakerStep ==
  ASSUME TypeOK, InHand, BreakerFits, AdmissionReturned, [Next]_vars
  PROVE  breaker' \in Breakers /\ BreakerFits' /\ AdmissionReturned'
<1> USE DEF BreakerFits, AdmissionReturned
<1>0. breaker \in Breakers /\ NoFind \notin Finds /\ pc \in Places
  BY JournalAssumption DEF TypeOK, NoFind
<1>b. breaker.admission_available \in BOOLEAN  BY <1>0 DEF Breakers
<1>1. CASE ProbeStep
  BY <1>0, <1>1 DEF ProbeStep, ProbeDue, InHand
<1>2. CASE ProbeAnswered
  <2>0. breaker.state = "Open" /\ rec = NoFind /\ rec' = NoFind
    BY <1>2 DEF ProbeAnswered, InHand
  <2>1. CASE UNCHANGED breaker
    BY <1>0, <1>2, <2>0, <2>1 DEF ProbeAnswered
  <2>2. CASE breaker' \in OnProbeSuccess(breaker) /\ pc' = "idle"
    BY <1>0, <2>0, <2>2, OnProbeSuccessEffect
  <2> QED  BY <1>2, <2>1, <2>2 DEF ProbeAnswered
<1>3. CASE ProbeFailed
  <2>0. breaker.state = "Open" /\ rec = NoFind /\ rec' = NoFind
    BY <1>3 DEF ProbeFailed, InHand
  <2>1. breaker' \in OnProbeFailure(breaker) /\ pc' = "idle"
    BY <1>3 DEF ProbeFailed
  <2>2. breaker' \in Breakers /\ breaker'.state = "Open"
    BY <1>0, <2>0, <2>1, OnProbeFailureEffect
  <2> QED  BY <2>0, <2>1, <2>2
<1>4. CASE SubmitStep
  <2>0. pc = "idle" /\ rec = NoFind /\ breaker.state # "Open"
    BY <1>4 DEF SubmitStep, InHand
  <2>1. \/ /\ breaker' = breaker /\ rec' = NoFind
           /\ pc' \in {"idle", "relooking"}
        \/ \E p \in BOOLEAN :
             /\ breaker' = SetXuniPressure(breaker, p) /\ rec' = NoFind
             /\ pc' \in {"idle", "relooking"}
        \/ \E p \in BOOLEAN :
             /\ breaker' = TakeAdmission(SetXuniPressure(breaker, p))
             /\ rec' \in Finds
             /\ pc' = "posting"
    <3>1. PICK open \in WindowSeen, closing \in BOOLEAN :
            LET tbl   == IF open /\ ~last_window_open
                         THEN UnparkXuniForWindow(finds, xuni_max_windows) ELSE finds
                xen11 == FetchEligibleOfKind(tbl, "Xen11", fetch_limit)
                xuni  == IF open THEN FetchEligibleOfKind(tbl, "Xuni", fetch_limit) ELSE {}
                b     == SetXuniPressure(breaker, xuni # {})
            IN  \/ /\ breaker' = breaker /\ rec' = rec /\ EnterConfirmStep(breaker, tbl)
                \/ /\ breaker' = b /\ rec' = rec /\ EnterConfirmStep(b, tbl)
                \/ /\ xen11 \cup xuni # {}
                   /\ breaker' = TakeAdmission(b)
                   /\ rec' = SelectNext(xen11, xuni, rising, closing)
                   /\ pc' = "posting"
      BY <1>4 DEF SubmitStep
    <3> DEFINE tbl   == IF open /\ ~last_window_open
                        THEN UnparkXuniForWindow(finds, xuni_max_windows) ELSE finds
               xen11 == FetchEligibleOfKind(tbl, "Xen11", fetch_limit)
               xuni  == IF open THEN FetchEligibleOfKind(tbl, "Xuni", fetch_limit) ELSE {}
               p     == xuni # {}
    <3>2. xen11 \subseteq Finds /\ xuni \subseteq Finds
      BY FetchesAreEligible
    <3>3. xen11 \cup xuni # {} => SelectNext(xen11, xuni, rising, closing) \in Finds
      <4> HIDE DEF xen11, xuni
      <4> QED  BY <3>2, SelectNextIsFetched
    <3>4. \A b : EnterConfirmStep(b, tbl) => pc' \in {"idle", "relooking"}
      BY DEF EnterConfirmStep
    <3>5. p \in BOOLEAN  OBVIOUS
    <3>6. \/ /\ breaker' = breaker /\ rec' = rec /\ EnterConfirmStep(breaker, tbl)
          \/ /\ breaker' = SetXuniPressure(breaker, p) /\ rec' = rec
             /\ EnterConfirmStep(SetXuniPressure(breaker, p), tbl)
          \/ /\ xen11 \cup xuni # {}
             /\ breaker' = TakeAdmission(SetXuniPressure(breaker, p))
             /\ rec' = SelectNext(xen11, xuni, rising, closing)
             /\ pc' = "posting"
      BY <3>1
    <3> HIDE DEF tbl, xen11, xuni, p
    <3> QED  BY <2>0, <3>3, <3>4, <3>5, <3>6
  <2>2. \A p \in BOOLEAN :
           LET c == SetXuniPressure(breaker, p)
           IN  /\ c \in Breakers
               /\ c.state = breaker.state
               /\ c.consecutive_failures = breaker.consecutive_failures
               /\ c.admission_available = breaker.admission_available
    BY <1>0, <2>0, SetXuniPressureEffect
  <2>3. \A p \in BOOLEAN :
           LET c == TakeAdmission(SetXuniPressure(breaker, p))
           IN  /\ c \in Breakers
               /\ c.state = breaker.state
               /\ c.consecutive_failures = breaker.consecutive_failures
               /\ breaker.state = "HalfOpen" => c.admission_available = FALSE
    BY <2>2, TakeAdmissionEffect
  <2> QED  BY <1>0, <2>0, <2>1, <2>2, <2>3
<1>5. CASE Verify \/ VerifyLost
  <2>1. /\ breaker' = breaker /\ rec' = rec /\ rec \in Finds
        /\ pc' \in {"observing", "confirming", "recording"}
        /\ pc # "halted"
    BY <1>5 DEF Verify, VerifyLost, Answered, InHand
  <2> QED  BY <1>0, <2>1
<1>6. CASE ObserveHint \/ UnparkOnHint
  <2>0. pc \in {"observing", "unparking"} /\ rec' = rec
    BY <1>6 DEF ObserveHint, UnparkOnHint
  <2>1. CASE pc' = "unparking" /\ UNCHANGED breaker
    BY <1>0, <2>0, <2>1
  <2>2. CASE AfterHint
    <3>1. CASE rec = NoFind
      <4>1. breaker' \in OnProbeSuccess(breaker) /\ pc' = "idle" /\ breaker.state = "Open"
        BY <2>0, <2>2, <3>1 DEF AfterHint
      <4>2. breaker' \in Breakers /\ breaker'.state = "HalfOpen"
            /\ breaker'.admission_available = TRUE
        BY <1>0, <4>1, OnProbeSuccessEffect
      <4> QED  BY <2>0, <3>1, <4>1, <4>2
    <3>2. CASE rec # NoFind
      BY <1>0, <2>0, <2>2, <3>2 DEF AfterHint
    <3> QED  BY <3>1, <3>2
  <2> QED  BY <1>6, <2>1, <2>2 DEF ObserveHint, UnparkOnHint
<1>7. CASE RecordOutcome \/ ConfirmOutcome
  <2>0. /\ rec \in Finds /\ breaker.state # "Open"
        /\ rec' = NoFind /\ pc' \in {"idle", "relooking"}
        /\ \/ breaker' \in OnVerifySuccess(breaker)
           \/ breaker' \in OnVerifyInconclusive(breaker)
           \/ breaker' \in OnVerifyTransportFailure(breaker)
    BY <1>0, <1>7 DEF RecordOutcome, ConfirmOutcome, Finish, EnterConfirmStep, InHand
  <2>1. CASE breaker' \in OnVerifySuccess(breaker)
    BY <1>0, <2>0, <2>1, OnVerifySuccessEffect, BreakerConfigAssumption
  <2>2. CASE breaker' \in OnVerifyInconclusive(breaker)
    <3>1. /\ breaker' \in Breakers
          /\ breaker'.state = breaker.state /\ breaker'.consecutive_failures = 0
          /\ breaker.state = "HalfOpen" => breaker'.admission_available = TRUE
      BY <1>0, <2>2, OnVerifyInconclusiveEffect
    <3> QED  BY <2>0, <3>1, BreakerConfigAssumption
  <2>3. CASE breaker' \in OnVerifyTransportFailure(breaker)
    <3>1. /\ breaker' \in Breakers
          /\ \/ breaker'.state = "Open"
             \/ /\ breaker'.state = "Closed"
                /\ breaker'.consecutive_failures < failure_threshold
      <4>1. /\ breaker' \in Breakers
            /\ \/ breaker'.state = "Open"
               \/ breaker'.state = (IF breaker'.consecutive_failures >= failure_threshold
                                    THEN "Open" ELSE "Closed")
        BY <1>0, <2>0, <2>3, OnVerifyTransportFailureEffect
      <4>2. breaker'.consecutive_failures \in Nat /\ failure_threshold \in Nat
        BY <4>1, BreakerConfigAssumption DEF Breakers
      <4> QED  BY <4>1, <4>2
    <3> QED  BY <2>0, <3>1
  <2> QED  BY <2>0, <2>1, <2>2, <2>3
<1>8. CASE ConfirmStep
  BY <1>0, <1>8 DEF ConfirmStep, InHand
<1>9. CASE DrainHalts
  BY <1>0, <1>9 DEF DrainHalts
<1>10. CASE Tick
  <2>1. breaker' = Elapse(breaker) /\ pc' = pc /\ rec' = rec
    BY <1>10 DEF Tick, drain
  <2>2. /\ breaker' \in Breakers
        /\ breaker'.state = breaker.state
        /\ breaker'.consecutive_failures = breaker.consecutive_failures
        /\ breaker'.admission_available = breaker.admission_available
    BY <1>0, <2>1, ElapseEffect
  <2> QED  BY <2>1, <2>2
<1>11. CASE Crash
  BY <1>11, BreakerConfigAssumption DEF Crash, NewBreaker, Breakers, BreakerStates
<1>12. CASE UNCHANGED <<breaker, pc, rec>>
  BY <1>0, <1>12
<1> QED
  BY <1>1, <1>2, <1>3, <1>4, <1>5, <1>6, <1>7, <1>8, <1>9, <1>10, <1>11, <1>12
     DEF Next, vars, drain, Poll, PollerObserves, PollerUnparks, LateVerify, MinerAppends,
         BackoffEnds, QuiesceEnds, DifficultyMoves, WindowMoves, CalmBegins
\* The first steps of confirm_step: a batch of rows that await confirmation, in hand
\* exactly when there is one.
LEMMA EnterConfirmStepEffect ==
  ASSUME NEW b, NEW tbl, EnterConfirmStep(b, tbl)
  PROVE  /\ batch' \subseteq {f \in Finds : tbl[f].status = "AcceptedUnconfirmed"}
         /\ pc' \in {"idle", "relooking"}
         /\ pc' = "relooking" <=> batch' # {}
  BY FetchesAreEligible DEF EnterConfirmStep

\* An answer's hint is the server's difficulty when there is one, and only such an
\* answer is observed.
LEMMA AnswersAreResponses ==
  ASSUME TypeOK, NEW f \in Finds
  PROVE  \A r \in Reply(f) \cup FaultyReply \cup {NoResponse} :
           /\ r \in Responses
           /\ r.hint \in Difficulties \cup {NoHint}
<1>1. difficulty \in Difficulties /\ Difficulties \subseteq Nat
  BY ManagerAssumption DEF TypeOK
<1> DEFINE Good(r) == r \in Responses /\ r.hint \in Difficulties \cup {NoHint}
<1>2. \A s \in Nat, says \in SUBSET Phrases, h \in Difficulties \cup {NoHint} :
         Good(Response(s, says, h))
  BY <1>1 DEF Response, Responses, NoHint
<1>3. \A r \in Objection(f) : Good(r)
  <2>1. Objection(f) \subseteq {Response(401, {"mismatch"}, difficulty),
                               Response(401, {"window"}, NoHint),
                               Response(400, {"exists"}, NoHint)}
    BY DEF Objection
  <2>2. /\ {"mismatch"} \in SUBSET Phrases /\ {"window"} \in SUBSET Phrases
        /\ {"exists"} \in SUBSET Phrases
    BY DEF Phrases
  <2> HIDE DEF Good
  <2>3. Good(Response(401, {"mismatch"}, difficulty))
    BY <1>1, <1>2, <2>2
  <2>4. Good(Response(401, {"window"}, NoHint)) /\ Good(Response(400, {"exists"}, NoHint))
    BY <1>2, <2>2
  <2> QED  BY <2>1, <2>3, <2>4
<1>4. \A r \in Reply(f) : Good(r)
  <2> HIDE DEF Good
  <2> QED  BY <1>2, <1>3 DEF Reply, Phrases
<1>5. \A r \in FaultyReply : Good(r)
  <2>1. \A r \in FaultyReply :
          r \in {Response(200, {}, NoHint), Response(429, {}, NoHint),
                 Response(503, {}, NoHint), Response(403, {}, NoHint),
                 Response(401, {"terminal"}, NoHint)}
    BY DEF FaultyReply
  <2>2. {} \in SUBSET Phrases /\ {"terminal"} \in SUBSET Phrases
    BY DEF Phrases
  <2> HIDE DEF Good
  <2> QED  BY <1>2, <2>1, <2>2
<1>6. Good(NoResponse)
  <2> HIDE DEF Good
  <2> QED  BY <1>2 DEF NoResponse, TRANSPORT_ERROR, Phrases
<1> QED  BY <1>4, <1>5, <1>6

\* What the threads hold keeps its type and fits where they are.
LEMMA ThreadStep ==
  ASSUME TypeOK, InHand, [Next]_vars
  PROVE  /\ pc' \in Places /\ rec' \in Finds \cup {NoFind}
         /\ res' \in Responses /\ batch' \subseteq Finds
         /\ poller' \in [at : {"resting", "observing", "unparking"},
                         value : Difficulties \cup {None}]
         /\ InHand'
<1> DEFINE Pollers == [at : {"resting", "observing", "unparking"},
                       value : Difficulties \cup {None}]
           DrainHolds == /\ pc' \in Places /\ rec' \in Finds \cup {NoFind}
                         /\ res' \in Responses /\ batch' \subseteq Finds
                         /\ pc' \in {"posting", "confirming", "recording"} => rec' \in Finds
                         /\ pc' \in {"idle", "probing", "relooking", "halted"} => rec' = NoFind
                         /\ pc' = "relooking" <=> batch' # {}
                         /\ pc' \in {"observing", "unparking"} => res'.hint \in Difficulties
           PollerHolds == /\ poller' \in Pollers
                          /\ poller'.at # "resting" => poller'.value \in Difficulties
<1>0. /\ pc \in Places /\ rec \in Finds \cup {NoFind} /\ NoFind \notin Finds
      /\ res \in Responses /\ batch \subseteq Finds /\ poller \in Pollers
      /\ difficulty \in Difficulties /\ difficulty \in Nat
      /\ NoResponse \in Responses
  BY JournalAssumption, ManagerAssumption
     DEF TypeOK, NoFind, NoResponse, Response, Responses, TRANSPORT_ERROR, NoHint
<1>1. SUFFICES DrainHolds /\ PollerHolds
  BY DEF InHand
<1>p. PollerHolds
  <2>1. CASE Poll
    BY <1>0, <2>1 DEF Poll
  <2>2. CASE PollerObserves
    <3>1. poller.value \in Difficulties
      BY <2>2 DEF PollerObserves, InHand
    <3>2. \/ poller' = [poller EXCEPT !.at = "unparking"]
          \/ poller' = [at |-> "resting", value |-> None]
      BY <2>2 DEF PollerObserves, Rests
    <3> QED  BY <1>0, <3>1, <3>2
  <2>3. CASE PollerUnparks \/ Crash
    BY <2>3 DEF PollerUnparks, Crash, Rests
  <2>4. CASE UNCHANGED poller
    BY <1>0, <2>4 DEF InHand
  <2> QED  BY <2>1, <2>2, <2>3, <2>4
           DEF Next, vars, ProbeStep, ProbeAnswered, ProbeFailed, SubmitStep, Verify,
               VerifyLost, ObserveHint, UnparkOnHint, RecordOutcome, ConfirmOutcome,
               Finish, ConfirmStep, DrainHalts, LateVerify, MinerAppends, BackoffEnds,
               QuiesceEnds, Tick, DifficultyMoves, WindowMoves, CalmBegins
<1>d. DrainHolds
  <2>u. CASE UNCHANGED drain
    BY <1>0, <2>u DEF drain, InHand
  <2>1. CASE ProbeStep
    BY <1>0, <2>1 DEF ProbeStep, InHand, Places
  <2>2. CASE ProbeAnswered
    <3>1. /\ rec' = NoFind /\ batch' = {} /\ pc' \in {"observing", "idle"}
          /\ \/ res' = Response(200, {}, difficulty)
             \/ pc' = "idle" /\ res' = res
      BY <1>0, <2>2 DEF ProbeAnswered, InHand
    <3>2. /\ Response(200, {}, difficulty) \in Responses
          /\ Response(200, {}, difficulty).hint = difficulty
      BY <1>0 DEF Response, Responses
    <3> QED  BY <1>0, <3>1, <3>2 DEF Places
  <2>3. CASE ProbeFailed
    BY <1>0, <2>3 DEF ProbeFailed, InHand, Places
  <2>4. CASE SubmitStep
    <3>0. rec = NoFind /\ batch = {} /\ res' = res
      BY <2>4 DEF SubmitStep, InHand
    <3>1. \/ /\ rec' = NoFind
             /\ \E b, tbl : EnterConfirmStep(b, tbl)
          \/ rec' \in Finds /\ pc' = "posting" /\ batch' = batch
      <4>1. PICK open \in WindowSeen, closing \in BOOLEAN :
              LET tbl   == IF open /\ ~last_window_open
                           THEN UnparkXuniForWindow(finds, xuni_max_windows) ELSE finds
                  xen11 == FetchEligibleOfKind(tbl, "Xen11", fetch_limit)
                  xuni  == IF open THEN FetchEligibleOfKind(tbl, "Xuni", fetch_limit) ELSE {}
                  b     == SetXuniPressure(breaker, xuni # {})
              IN  \/ rec' = rec /\ EnterConfirmStep(breaker, tbl)
                  \/ rec' = rec /\ EnterConfirmStep(b, tbl)
                  \/ /\ xen11 \cup xuni # {}
                     /\ rec' = SelectNext(xen11, xuni, rising, closing)
                     /\ pc' = "posting" /\ batch' = batch
        BY <2>4 DEF SubmitStep
      <4> DEFINE tbl   == IF open /\ ~last_window_open
                          THEN UnparkXuniForWindow(finds, xuni_max_windows) ELSE finds
                 xen11 == FetchEligibleOfKind(tbl, "Xen11", fetch_limit)
                 xuni  == IF open THEN FetchEligibleOfKind(tbl, "Xuni", fetch_limit) ELSE {}
                 c     == SetXuniPressure(breaker, xuni # {})
      <4>2. xen11 \subseteq Finds /\ xuni \subseteq Finds
        BY FetchesAreEligible
      <4>3. xen11 \cup xuni # {} => SelectNext(xen11, xuni, rising, closing) \in Finds
        <5> HIDE DEF xen11, xuni
        <5> QED  BY <4>2, SelectNextIsFetched
      <4>4. \/ rec' = rec /\ EnterConfirmStep(breaker, tbl)
            \/ rec' = rec /\ EnterConfirmStep(c, tbl)
            \/ /\ xen11 \cup xuni # {}
               /\ rec' = SelectNext(xen11, xuni, rising, closing)
               /\ pc' = "posting" /\ batch' = batch
        BY <4>1
      <4> HIDE DEF tbl, xen11, xuni, c
      <4> QED  BY <3>0, <4>3, <4>4
    <3>2. CASE rec' = NoFind /\ \E b, tbl : EnterConfirmStep(b, tbl)
      <4>1. PICK b, tbl : EnterConfirmStep(b, tbl)  BY <3>2
      <4>2. /\ batch' \subseteq Finds /\ pc' \in {"idle", "relooking"}
            /\ pc' = "relooking" <=> batch' # {}
        BY <4>1, EnterConfirmStepEffect
      <4> QED  BY <1>0, <3>0, <3>2, <4>2 DEF Places
    <3>3. CASE rec' \in Finds /\ pc' = "posting" /\ batch' = batch
      BY <1>0, <3>0, <3>3 DEF Places
    <3> QED  BY <3>1, <3>2, <3>3
  <2>5. CASE Verify \/ VerifyLost
    <3>0. rec \in Finds /\ rec' = rec /\ batch = {} /\ batch' = batch
      BY <2>5 DEF Verify, VerifyLost, InHand
    <3>1. PICK r \in Reply(rec) \cup FaultyReply \cup {NoResponse} : Answered(r)
      BY <2>5 DEF Verify, VerifyLost
    <3>2. r \in Responses /\ r.hint \in Difficulties \cup {NoHint}
      BY <3>0, <3>1, AnswersAreResponses
    <3>3. /\ res' = r /\ pc' \in {"observing", "confirming", "recording"}
          /\ pc' = "observing" => Classify(r, kind[rec]).hint # NoHint
      BY <3>1 DEF Answered
    <3>4. pc' = "observing" => r.hint \in Difficulties
      BY <3>2, <3>3, ClassifyRange
    <3> QED  BY <3>0, <3>2, <3>3, <3>4 DEF Places
  <2>6. CASE ObserveHint \/ UnparkOnHint
    <3>0. rec' = rec /\ batch = {} /\ batch' = batch /\ res.hint \in Difficulties
      BY <2>6 DEF ObserveHint, UnparkOnHint, InHand
    <3>1. \/ pc' = "unparking" /\ res' = res
          \/ rec = NoFind /\ pc' = "idle" /\ res' = NoResponse
          \/ rec # NoFind /\ pc' = "recording" /\ res' = res
      BY <2>6 DEF ObserveHint, UnparkOnHint, AfterHint
    <3> QED  BY <1>0, <3>0, <3>1 DEF Places
  <2>7. CASE RecordOutcome \/ ConfirmOutcome
    <3>1. rec' = NoFind /\ res' = NoResponse /\ EnterConfirmStep(breaker', finds')
      BY <2>7 DEF RecordOutcome, ConfirmOutcome, Finish
    <3>2. /\ batch' \subseteq Finds /\ pc' \in {"idle", "relooking"}
          /\ pc' = "relooking" <=> batch' # {}
      BY <3>1, EnterConfirmStepEffect
    <3> QED  BY <1>0, <3>1, <3>2 DEF Places
  <2>8. CASE ConfirmStep
    <3>1. /\ rec = NoFind /\ rec' = rec /\ res' = res
          /\ batch' \subseteq batch
          /\ pc' = IF batch' = {} THEN "idle" ELSE "relooking"
      BY <2>8 DEF ConfirmStep, InHand
    <3> QED  BY <1>0, <3>1 DEF Places
  <2>9. CASE DrainHalts \/ Crash
    BY <1>0, <2>9 DEF DrainHalts, Crash, Places
  <2> QED  BY <2>u, <2>1, <2>2, <2>3, <2>4, <2>5, <2>6, <2>7, <2>8, <2>9
           DEF Next, vars, drain, Poll, PollerObserves, PollerUnparks, LateVerify,
               MinerAppends, BackoffEnds, QuiesceEnds, Tick, DifficultyMoves,
               WindowMoves, CalmBegins
<1> QED  BY <1>p, <1>d
\* What one thread holds, the steps of the others do not move: an un-park for a
\* difficulty, an append and the end of a backoff leave Pending and unconfirmed rows be.
LEMMA HeldRowsStay ==
  ASSUME NEW tbl \in [Finds -> Rows], NEW d, NEW g \in Finds, NEW new,
         \/ new = UnparkForDifficulty(tbl, d)
         \/ new = JournalAppend(tbl, g)
         \/ new = BecomeDue(tbl, g)
  PROVE  \A f \in Finds : tbl[f].status \in {"Pending", "AcceptedUnconfirmed"}
                            => new[f].status = tbl[f].status
<1>1. CASE new = UnparkForDifficulty(tbl, d)
  BY <1>1 DEF UnparkForDifficulty
<1>2. CASE new = JournalAppend(tbl, g)
  BY <1>2 DEF JournalAppend, Rows
<1>3. CASE new = BecomeDue(tbl, g)
  BY <1>3 DEF BecomeDue, Rows
<1> QED  BY <1>1, <1>2, <1>3

\* Nobody moves a row between its fetch and its record.
LEMMA HandStep ==
  ASSUME TypeOK, InHand, InHandUndisturbed, [Next]_vars
  PROVE  InHandUndisturbed'
<1> DEFINE Held(f) == finds[f].status \in {"Pending", "AcceptedUnconfirmed"}
           Kept == \A f \in Finds : Held(f) => finds'[f].status = finds[f].status
<1>0. /\ finds \in [Finds -> Rows] /\ NoFind \notin Finds
      /\ rec \in Finds \cup {NoFind} /\ batch \subseteq Finds /\ batch \subseteq Nat
  BY JournalAssumption DEF TypeOK, NoFind
<1>k. ASSUME Kept, rec' \in {rec, NoFind}, batch' \subseteq batch
      PROVE  InHandUndisturbed'
  BY <1>0, <1>k DEF InHandUndisturbed
<1>1. CASE SubmitStep
  <2>0. rec = NoFind /\ batch = {}
    BY <1>1 DEF SubmitStep, InHand
  <2>1. PICK open \in WindowSeen, closing \in BOOLEAN :
          LET tbl   == IF open /\ ~last_window_open
                       THEN UnparkXuniForWindow(finds, xuni_max_windows) ELSE finds
              xen11 == FetchEligibleOfKind(tbl, "Xen11", fetch_limit)
              xuni  == IF open THEN FetchEligibleOfKind(tbl, "Xuni", fetch_limit) ELSE {}
              b     == SetXuniPressure(breaker, xuni # {})
          IN  /\ finds' = tbl
              /\ \/ rec' = rec /\ EnterConfirmStep(breaker, tbl)
                 \/ rec' = rec /\ EnterConfirmStep(b, tbl)
                 \/ /\ xen11 \cup xuni # {}
                    /\ rec' = SelectNext(xen11, xuni, rising, closing)
                    /\ batch' = batch
    BY <1>1 DEF SubmitStep
  <2> DEFINE xen11 == FetchEligibleOfKind(finds', "Xen11", fetch_limit)
             xuni  == IF open THEN FetchEligibleOfKind(finds', "Xuni", fetch_limit) ELSE {}
             c     == SetXuniPressure(breaker, xuni # {})
  <2>2. /\ xen11 \subseteq {f \in Finds : finds'[f].status = "Pending"}
        /\ xuni \subseteq {f \in Finds : finds'[f].status = "Pending"}
    BY FetchesAreEligible
  <2>3. \/ rec' = rec /\ EnterConfirmStep(breaker, finds')
        \/ rec' = rec /\ EnterConfirmStep(c, finds')
        \/ /\ xen11 \cup xuni # {}
           /\ rec' = SelectNext(xen11, xuni, rising, closing)
           /\ batch' = batch
    BY <2>1
  <2> HIDE DEF xen11, xuni, c
  <2>4. xen11 \cup xuni # {} => SelectNext(xen11, xuni, rising, closing) \in xen11 \cup xuni
    BY <2>2, SelectNextIsFetched
  <2>5. \A b : EnterConfirmStep(b, finds') =>
                 batch' \subseteq {f \in Finds : finds'[f].status = "AcceptedUnconfirmed"}
    BY EnterConfirmStepEffect
  <2> QED  BY <2>0, <2>2, <2>3, <2>4, <2>5 DEF InHandUndisturbed
<1>2. CASE RecordOutcome \/ ConfirmOutcome
  <2>1. rec' = NoFind /\ EnterConfirmStep(breaker', finds')
    BY <1>2 DEF RecordOutcome, ConfirmOutcome, Finish
  <2>2. batch' \subseteq {f \in Finds : finds'[f].status = "AcceptedUnconfirmed"}
    BY <2>1, EnterConfirmStepEffect
  <2> QED  BY <2>1, <2>2 DEF InHandUndisturbed
<1>3. CASE ConfirmStep
  <2>1. rec = NoFind /\ rec' = rec /\ batch' \subseteq batch \ {Eldest(batch)}
    BY <1>3 DEF ConfirmStep, InHand
  <2>2. \A g \in Finds \ {Eldest(batch)} : finds'[g] = finds[g]
    BY <1>0, <1>3 DEF ConfirmStep, RecordAttempt
  <2> QED  BY <1>0, <2>1, <2>2 DEF InHandUndisturbed
<1>4. CASE DrainHalts \/ Crash
  BY <1>4 DEF DrainHalts, Crash, InHandUndisturbed
<1>5. CASE UnparkOnHint
  <2>1. finds' = UnparkForDifficulty(finds, res.hint) /\ rec' = rec /\ batch' = batch
    BY <1>5 DEF UnparkOnHint
  <2>2. Kept  BY <2>1 DEF UnparkForDifficulty
  <2> QED  BY <1>k, <2>1, <2>2
<1>6. CASE PollerUnparks
  <2>1. /\ finds' = finds \/ finds' = UnparkForDifficulty(finds, poller.value)
        /\ rec' = rec /\ batch' = batch
    BY <1>6 DEF PollerUnparks, drain
  <2>2. Kept  BY <2>1 DEF UnparkForDifficulty
  <2> QED  BY <1>k, <2>1, <2>2
<1>7. ASSUME NEW g \in Finds, MinerAppends(g) \/ BackoffEnds(g)
      PROVE  InHandUndisturbed'
  <2>1. /\ finds' = JournalAppend(finds, g) \/ finds' = BecomeDue(finds, g)
        /\ rec' = rec /\ batch' = batch
    BY <1>7 DEF MinerAppends, BackoffEnds, drain
  <2>2. Kept  BY <1>0, <2>1, HeldRowsStay
  <2> QED  BY <1>k, <2>1, <2>2
<1>8. CASE finds' = finds /\ rec' = rec /\ batch' = batch
  BY <1>k, <1>8
<1> QED
  BY <1>1, <1>2, <1>3, <1>4, <1>5, <1>6, <1>7, <1>8
     DEF Next, vars, drain, ProbeStep, ProbeAnswered, ProbeFailed, Verify, VerifyLost,
         ObserveHint, Poll, PollerObserves, LateVerify, QuiesceEnds, Tick,
         DifficultyMoves, WindowMoves, CalmBegins

\* The flags and the server keep their types.
LEMMA FlagsStep ==
  ASSUME TypeOK, InHand, [Next]_vars
  PROVE  /\ last_window_open' \in BOOLEAN
         /\ last_difficulty' \in Difficulties \cup {None} /\ rising' \in BOOLEAN
         /\ synced' \in BOOLEAN /\ quiescing' \in BOOLEAN
         /\ late' \subseteq Finds
         /\ difficulty' \in Difficulties /\ window' \in BOOLEAN /\ calm' \in BOOLEAN
<1>0. /\ last_window_open \in BOOLEAN
      /\ last_difficulty \in Difficulties \cup {None} /\ rising \in BOOLEAN
      /\ synced \in BOOLEAN /\ quiescing \in BOOLEAN
      /\ late \subseteq Finds
      /\ difficulty \in Difficulties /\ window \in BOOLEAN /\ calm \in BOOLEAN
  BY DEF TypeOK
<1>1. last_window_open' \in BOOLEAN
  <2>1. CASE SubmitStep
    BY <1>0, <2>1 DEF SubmitStep, WindowSeen
  <2>2. CASE Crash  BY <2>2 DEF Crash
  <2>3. CASE UNCHANGED last_window_open  BY <1>0, <2>3
  <2> QED  BY <2>1, <2>2, <2>3
           DEF Next, vars, ProbeStep, ProbeAnswered, ProbeFailed, Verify, VerifyLost,
               ObserveHint, UnparkOnHint, RecordOutcome, ConfirmOutcome, Finish,
               ConfirmStep, DrainHalts, Poll, PollerObserves, PollerUnparks, LateVerify,
               MinerAppends, BackoffEnds, QuiesceEnds, Tick, DifficultyMoves,
               WindowMoves, CalmBegins
<1>2. /\ last_difficulty' \in Difficulties \cup {None} /\ rising' \in BOOLEAN
      /\ quiescing' \in BOOLEAN
  <2>1. ASSUME NEW d \in Difficulties, Observe(d)
        PROVE  /\ last_difficulty' \in Difficulties \cup {None} /\ rising' \in BOOLEAN
               /\ quiescing' \in BOOLEAN
    BY <2>1 DEF Observe
  <2>2. CASE ObserveHint  BY <2>1, <2>2 DEF ObserveHint, InHand
  <2>3. CASE PollerObserves  BY <2>1, <2>3 DEF PollerObserves, InHand
  <2>4. CASE Crash  BY <2>4 DEF Crash
  <2>5. CASE QuiesceEnds  BY <1>0, <2>5 DEF QuiesceEnds
  <2>6. CASE UNCHANGED shared  BY <1>0, <2>6 DEF shared
  <2> QED  BY <2>2, <2>3, <2>4, <2>5, <2>6
           DEF Next, vars, shared, ProbeStep, ProbeAnswered, ProbeFailed, SubmitStep, Verify,
               VerifyLost, UnparkOnHint, RecordOutcome, ConfirmOutcome, Finish,
               ConfirmStep, DrainHalts, Poll, PollerUnparks, LateVerify,
               MinerAppends, BackoffEnds, Tick, DifficultyMoves, WindowMoves, CalmBegins
<1>3. synced' \in BOOLEAN
  <2>1. CASE Verify \/ VerifyLost
    BY <2>1 DEF Verify, VerifyLost, Answered
  <2>2. CASE ConfirmOutcome \/ ConfirmStep
    BY <2>2 DEF ConfirmOutcome, ConfirmStep
  <2>3. CASE ProbeAnswered \/ Crash  BY <2>3 DEF ProbeAnswered, Crash
  <2>4. CASE UNCHANGED synced  BY <1>0, <2>4
  <2> QED  BY <2>1, <2>2, <2>3, <2>4
           DEF Next, vars, ProbeStep, ProbeFailed, SubmitStep, ObserveHint, UnparkOnHint,
               RecordOutcome, DrainHalts, Poll, PollerObserves, PollerUnparks, LateVerify,
               MinerAppends, BackoffEnds, QuiesceEnds, Tick, DifficultyMoves,
               WindowMoves, CalmBegins
<1>4. late' \subseteq Finds
  <2>0. pc = "posting" => rec \in Finds  BY DEF InHand
  <2>1. CASE VerifyLost  BY <1>0, <2>0, <2>1 DEF VerifyLost
  <2>2. CASE Crash  BY <1>0, <2>0, <2>2 DEF Crash
  <2>3. ASSUME NEW f \in Finds, LateVerify(f) PROVE late' \subseteq Finds
    BY <1>0, <2>3 DEF LateVerify
  <2>4. CASE UNCHANGED late  BY <1>0, <2>4
  <2> QED  BY <2>1, <2>2, <2>3, <2>4
           DEF Next, vars, ProbeStep, ProbeAnswered, ProbeFailed, SubmitStep, Verify,
               ObserveHint, UnparkOnHint, RecordOutcome, ConfirmOutcome, Finish,
               ConfirmStep, DrainHalts, Poll, PollerObserves, PollerUnparks,
               MinerAppends, BackoffEnds, QuiesceEnds, Tick, DifficultyMoves,
               WindowMoves, CalmBegins
<1>5. difficulty' \in Difficulties /\ window' \in BOOLEAN /\ calm' \in BOOLEAN
  <2>1. CASE DifficultyMoves  BY <1>0, <2>1 DEF DifficultyMoves
  <2>2. CASE WindowMoves  BY <1>0, <2>2 DEF WindowMoves
  <2>3. CASE CalmBegins  BY <1>0, <2>3 DEF CalmBegins
  <2>4. CASE UNCHANGED server  BY <1>0, <2>4 DEF server
  <2> QED  BY <2>1, <2>2, <2>3, <2>4
           DEF Next, vars, server, ProbeStep, ProbeAnswered, ProbeFailed, SubmitStep, Verify,
               VerifyLost, ObserveHint, UnparkOnHint, RecordOutcome, ConfirmOutcome, Finish,
               ConfirmStep, DrainHalts, Poll, PollerObserves, PollerUnparks, LateVerify,
               MinerAppends, BackoffEnds, QuiesceEnds, Tick, Crash
<1> QED  BY <1>1, <1>2, <1>3, <1>4, <1>5
-----------------------------------------------------------------------------
(* The theorems.                                                           *)

\* The submitter starts in the invariant: an empty journal, nothing in hand.
LEMMA InitEstablishes == Init => SafetyInv
<1> SUFFICES ASSUME Init PROVE SafetyInv
  OBVIOUS
<1>0. NewBreaker \in Breakers /\ 0 \in Nat
  BY BreakerConfigAssumption DEF NewBreaker, Breakers, BreakerStates
<1>1. \A f \in Finds : finds[f] = NoRow
  BY DEF Init, EmptyTable
<1>2. finds \in [Finds -> Rows]
  BY <1>0 DEF Init, EmptyTable, NoRow, Rows, Statuses
<1>3. res \in Responses
  BY DEF Init, NoResponse, Response, Responses, TRANSPORT_ERROR, NoHint
<1>4. TypeOK
  BY <1>0, <1>2, <1>3 DEF Init, TypeOK, Places
<1>5. InHand /\ InHandUndisturbed
  BY DEF Init, InHand, InHandUndisturbed
<1>6. BreakerFits /\ AdmissionReturned
  BY BreakerConfigAssumption DEF Init, BreakerFits, AdmissionReturned, NewBreaker
<1>7. AckedIsStored /\ XuniBudget
  BY <1>1, ManagerAssumption DEF AckedIsStored, XuniBudget, NoRow
<1> QED  BY <1>4, <1>5, <1>6, <1>7 DEF SafetyInv

\* Every step of the drain, of the poller, of a miner, of the server or of the
\* process keeps the invariant.
LEMMA StepPreserves == SafetyInv /\ [Next]_vars => SafetyInv'
<1> SUFFICES ASSUME SafetyInv, [Next]_vars PROVE SafetyInv'
  OBVIOUS
<1>0. /\ TypeOK /\ InHand /\ InHandUndisturbed /\ BreakerFits /\ AdmissionReturned
      /\ AckedIsStored /\ XuniBudget
  BY DEF SafetyInv
<1>1. /\ finds' \in [Finds -> Rows] /\ \A f \in Finds : RowMoves(f)
      /\ stored \subseteq stored' /\ stored' \subseteq Finds
  BY <1>0, TableStep
<1>2. breaker' \in Breakers /\ BreakerFits' /\ AdmissionReturned'
  BY <1>0, BreakerStep
<1>3. TypeOK' /\ InHand'
  BY <1>0, <1>1, <1>2, ThreadStep, FlagsStep DEF TypeOK
<1>4. InHandUndisturbed'
  BY <1>0, HandStep
<1>5. AckedIsStored'
  BY <1>0, <1>1 DEF RowMoves, AckedIsStored
<1>6. XuniBudget'
  <2> SUFFICES ASSUME NEW f \in Finds
               PROVE  /\ finds'[f].xuni_windows_tried <= xuni_max_windows
                      /\ finds'[f].status \in {"Dead", "ParkedXuniWindow"} => kind[f] = "Xuni"
                      /\ finds'[f].status = "Dead" =>
                           finds'[f].xuni_windows_tried = xuni_max_windows
    BY DEF XuniBudget
  <2>1. /\ finds[f].xuni_windows_tried \in Nat /\ xuni_max_windows \in Nat
        /\ finds[f].xuni_windows_tried <= xuni_max_windows
        /\ finds[f].status \in {"Dead", "ParkedXuniWindow"} => kind[f] = "Xuni"
        /\ finds[f].status = "Dead" => finds[f].xuni_windows_tried = xuni_max_windows
    BY <1>0, ManagerAssumption DEF XuniBudget, TypeOK, Rows
  <2>2. RowMoves(f)  BY <1>1
  <2> QED  BY <2>1, <2>2 DEF RowMoves
<1> QED  BY <1>2, <1>3, <1>4, <1>5, <1>6 DEF SafetyInv

\* The inductive invariant holds throughout.
LEMMA SafetyInvariant == Spec => []SafetyInv
  BY InitEstablishes, StepPreserves, PTL DEF Spec

\* The state keeps its types: in particular the drain always knows a record, an
\* answer and a difficulty where the code unwraps one.
THEOREM SubmissionTypeCorrect == Spec => []TypeOK
<1>1. SafetyInv => TypeOK  BY DEF SafetyInv
<1> QED  BY <1>1, SafetyInvariant, PTL

\* No find is ever Acked without a row on the server, for any number of finds and
\* whatever is lost, late, duplicated, crashed or answered by something in between.
THEOREM AckedIsStoredTheorem == Spec => []AckedIsStored
<1>1. SafetyInv => AckedIsStored  BY DEF SafetyInv
<1> QED  BY <1>1, SafetyInvariant, PTL

\* record_attempt's unconditional UPDATE never overwrites another thread's move: the
\* row it writes is still in the status it was fetched with.
THEOREM InHandUndisturbedTheorem == Spec => []InHandUndisturbed
<1>1. SafetyInv => InHandUndisturbed  BY DEF SafetyInv
<1> QED  BY <1>1, SafetyInvariant, PTL

\* Every path through submit_step gives the HalfOpen admission back.
THEOREM AdmissionReturnedTheorem == Spec => []AdmissionReturned
<1>1. SafetyInv => AdmissionReturned  BY DEF SafetyInv
<1> QED  BY <1>1, SafetyInvariant, PTL

\* A XUNI is tried in no more windows than its budget, and dies only when it is spent.
THEOREM XuniBudgetTheorem == Spec => []XuniBudget
<1>1. SafetyInv => XuniBudget  BY DEF SafetyInv
<1> QED  BY <1>1, SafetyInvariant, PTL

\* The submission layer implements the life cycle of a find: every step of every
\* thread is, for each row, one of the moves FindLifecycle allows, or none.
THEOREM ImplementsLifecycle == Spec => FollowsLifecycle
<1>1. Init => Lifecycle!Init
  BY DEF Init, Lifecycle!Init, EmptyTable, NoRow
<1>2. SafetyInv /\ [Next]_vars => [Lifecycle!Next]_(Lifecycle!vars)
  <2> SUFFICES ASSUME SafetyInv, [Next]_vars PROVE Lifecycle!Next
    OBVIOUS
  <2>1. /\ \A f \in Finds : RowMoves(f)
        /\ stored \subseteq stored' /\ stored' \subseteq Finds
    BY TableStep DEF SafetyInv
  <2>2. ASSUME NEW f \in Finds
        PROVE  \/ finds'[f].status = finds[f].status
               \/ Lifecycle!Captured(f) \/ Lifecycle!Attempted(f)
               \/ Lifecycle!LookedUp(f) \/ Lifecycle!Unparked(f)
    BY <2>1 DEF RowMoves, Lifecycle!Captured, Lifecycle!Attempted, Lifecycle!LookedUp,
                Lifecycle!Unparked
  <2> QED  BY <2>1, <2>2 DEF Lifecycle!Next
<1> QED
  BY <1>1, <1>2, SafetyInvariant, PTL DEF Spec, FollowsLifecycle, Lifecycle!Spec
=============================================================================
