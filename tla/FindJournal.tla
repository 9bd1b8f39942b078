---------------------------- MODULE FindJournal -----------------------------
(***************************************************************************)
(* The durable find journal (tm-journal/src/journal.rs) as operators on    *)
(* the table "finds".  Every operation of the source runs under the        *)
(* connection mutex, in one statement or one transaction, so each is one   *)
(* function from a table to a table.                                       *)
(*                                                                         *)
(* A find is named by its row id, so ids are compared to order rows by     *)
(* age; kind, m and validity belong to the immutable payload and are       *)
(* constants.  Of a row the model keeps the status, xuni_windows_tried and *)
(* whether next_attempt_at is NULL or past ("due").                        *)
(***************************************************************************)
EXTENDS Integers, FiniteSets

CONSTANTS Finds,          \* row ids, oldest first
          kind,           \* payload.kind of a find
          memory_cost,    \* payload.memory_cost, the m of the column
          Unsubmittable   \* finds with an oversize hash_to_verify or no account

Kinds == {"Xen11", "Xuni"}

ASSUME JournalAssumption ==
  /\ Finds \subseteq Nat
  /\ kind \in [Finds -> Kinds]
  /\ memory_cost \in [Finds -> Nat]
  /\ Unsubmittable \subseteq Finds

\* FindStatus without Submitting, which record_attempt refuses to persist, and
\* with Absent for a find that has no row yet.
Statuses == {"Absent", "Pending", "AcceptedUnconfirmed", "Acked",
             "ParkedDifficulty", "ParkedXuniWindow", "Quarantined", "Dead",
             "PermanentlyInvalid"}
Terminal == {"Acked", "Quarantined", "Dead", "PermanentlyInvalid"}

Rows == [status : Statuses, due : BOOLEAN, xuni_windows_tried : Nat]

NoRow == [status |-> "Absent", due |-> TRUE, xuni_windows_tried |-> 0]
EmptyTable == [f \in Finds |-> NoRow]

\* ON CONFLICT(key) DO NOTHING: a find that already has a row keeps it.
JournalAppend(tbl, f) ==
  IF tbl[f].status # "Absent" THEN tbl
  ELSE [tbl EXCEPT ![f].status = IF f \in Unsubmittable THEN "PermanentlyInvalid"
                                                        ELSE "Pending"]

\* ORDER BY id ASC LIMIT limit
Oldest(S, limit) == {f \in S : Cardinality({g \in S : g < f}) < limit}

FetchByStatus(tbl, status, S, limit) ==
  Oldest({f \in S : tbl[f].status = status /\ tbl[f].due}, limit)

OfKind(k) == {f \in Finds : kind[f] = k}
\* Mutant: one mixed slice, cut to the limit before it is split by kind.
MixedSlice(tbl, k, limit) == FetchByStatus(tbl, "Pending", Finds, limit) \cap OfKind(k)
FetchEligibleOfKind(tbl, k, limit) == FetchByStatus(tbl, "Pending", OfKind(k), limit)
FetchAwaitingConfirmation(tbl, limit) ==
  FetchByStatus(tbl, "AcceptedUnconfirmed", Finds, limit)

\* Mutant: the in-process lease status is written to the row.
PersistLease(tbl, f, status, backoff) ==
  [tbl EXCEPT ![f].status = IF backoff THEN "Submitting" ELSE status, ![f].due = ~backoff]

\* UPDATE .. WHERE id = f, whatever the status the row has by now.  A caller that
\* passes no next_attempt_at leaves the row due.
RecordAttempt(tbl, f, status, backoff) ==
  [tbl EXCEPT ![f].status = status, ![f].due = ~backoff]

\* Mutants: the status filter forgets rows awaiting confirmation; there is none.
UnparkEveryLiveRow(tbl, difficulty) ==
  [f \in Finds |->
     IF tbl[f].status \notin Terminal \cup {"Absent"} /\ memory_cost[f] >= difficulty
     THEN [tbl[f] EXCEPT !.status = "Pending", !.due = TRUE] ELSE tbl[f]]
UnparkEveryRow(tbl, difficulty) ==
  [f \in Finds |->
     IF tbl[f].status # "Absent" /\ memory_cost[f] >= difficulty
     THEN [tbl[f] EXCEPT !.status = "Pending", !.due = TRUE] ELSE tbl[f]]

UnparkForDifficulty(tbl, difficulty) ==
  [f \in Finds |->
     IF tbl[f].status = "ParkedDifficulty" /\ memory_cost[f] >= difficulty
     THEN [tbl[f] EXCEPT !.status = "Pending", !.due = TRUE]
     ELSE tbl[f]]

\* Mutant: one window too many.
OneWindowMore(tbl, max_windows) ==
  [f \in Finds |->
     IF tbl[f].status # "ParkedXuniWindow" THEN tbl[f]
     ELSE IF tbl[f].xuni_windows_tried > max_windows
          THEN [tbl[f] EXCEPT !.status = "Dead", !.due = TRUE]
          ELSE [tbl[f] EXCEPT !.status = "Pending", !.due = TRUE,
                              !.xuni_windows_tried = @ + 1]]

UnparkXuniForWindow(tbl, max_windows) ==
  [f \in Finds |->
     IF tbl[f].status # "ParkedXuniWindow" THEN tbl[f]
     ELSE IF tbl[f].xuni_windows_tried >= max_windows
          THEN [tbl[f] EXCEPT !.status = "Dead", !.due = TRUE]
          ELSE [tbl[f] EXCEPT !.status = "Pending", !.due = TRUE,
                              !.xuni_windows_tried = @ + 1]]

\* The clock passes the row's next_attempt_at.
BecomeDue(tbl, f) == [tbl EXCEPT ![f].due = TRUE]
=============================================================================
