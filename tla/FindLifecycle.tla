--------------------------- MODULE FindLifecycle ----------------------------
(***************************************************************************)
(* What the journal and the submitter promise of every find: the statuses  *)
(* of tm-core/src/types.rs and the moves between them.  A find gets a row  *)
(* and never loses it; a verdict is final; only a row on the server makes  *)
(* a find Acked, and it stays there.                                       *)
(***************************************************************************)
CONSTANTS Finds, kind, Unsubmittable

VARIABLES status,   \* the journal's status of every find
          stored    \* the finds the server has a row for

vars == <<status, stored>>

Init ==
  /\ status = [f \in Finds |-> "Absent"]
  /\ stored = {}

Captured(f) ==
  /\ status[f] = "Absent"
  /\ status'[f] = IF f \in Unsubmittable THEN "PermanentlyInvalid" ELSE "Pending"

\* One attempt on a Pending find, by what the server made of it.
Attempted(f) ==
  /\ status[f] = "Pending"
  /\ \/ status'[f] \in {"AcceptedUnconfirmed", "ParkedDifficulty", "Quarantined",
                        "PermanentlyInvalid"}
     \/ status'[f] = "ParkedXuniWindow" /\ kind[f] = "Xuni"
     \/ status'[f] = "Acked" /\ f \in stored

\* A lookup settled an accepted find: it is there, or it has to be sent again.
LookedUp(f) ==
  /\ status[f] = "AcceptedUnconfirmed"
  /\ \/ status'[f] = "Acked" /\ f \in stored
     \/ status'[f] = "Pending"

Unparked(f) ==
  \/ status[f] \in {"ParkedDifficulty", "ParkedXuniWindow"} /\ status'[f] = "Pending"
  \/ status[f] = "ParkedXuniWindow" /\ status'[f] = "Dead"

\* An un-park moves many finds at once.
Next ==
  /\ stored \subseteq stored' /\ stored' \subseteq Finds
  /\ DOMAIN status' = Finds
  /\ \A f \in Finds :
       \/ status'[f] = status[f]
       \/ Captured(f) \/ Attempted(f) \/ LookedUp(f) \/ Unparked(f)

Spec == Init /\ [][Next]_vars
=============================================================================
