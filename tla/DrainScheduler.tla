--------------------------- MODULE DrainScheduler ---------------------------
(***************************************************************************)
(* Which record the drain submits next (tm-submit/src/drain.rs,            *)
(* select_next).  The slices are the sets of rows fetched per kind; the    *)
(* source walks them oldest first and keeps the first best.                *)
(***************************************************************************)
EXTENDS FindJournal

Eldest(S) == CHOOSE f \in S : \A g \in S : f <= g

\* Rising difficulty: the lowest m first, the oldest of them on a tie.
LowestMargin(S) ==
  Eldest({f \in S : \A g \in S : memory_cost[f] <= memory_cost[g]})

\* Defined when one slice is not empty; xuni is empty while the window is closed.
SelectNext(xen11, xuni, rising, window_closing) ==
  IF xuni # {} /\ (window_closing \/ xen11 = {}) THEN Eldest(xuni)
  ELSE IF rising THEN LowestMargin(xen11) ELSE Eldest(xen11)
=============================================================================
