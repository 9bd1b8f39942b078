----------------------------- MODULE MCPlatform -----------------------------
(* Small instances of PlatformManager. *)
EXTENDS PlatformManager

Command(k, l) == [kind |-> k, lease_id |-> l, signed |-> TRUE, fit |-> TRUE]
Unsigned(k, l) == [Command(k, l) EXCEPT !.signed = FALSE]

\* Every kind of command, with a second lease to assign and a task nobody signed.
AllCommands ==
  {Command(k, "any") : k \in Kinds \ {"assign"}}
  \cup {Command("assign", l) : l \in LeaseIds} \cup {Unsigned("assign", "A")}

\* A task and a late acknowledgement of the registration.
TaskAndAck == {Command("assign", "A"), Command("ack", "any")}
=============================================================================
