--------------------------- MODULE PlatformManager --------------------------
(***************************************************************************)
(* Platform mode: tm-platform/src/manager.rs with lease.rs, coordinator.rs *)
(* and the callback and observer of treeminer/src/platform.rs.  The broker *)
(* hands commands to a bounded queue, the dispatch thread obeys them in    *)
(* order, the watchdog ends leases that ran out and climbs out of Error,   *)
(* the main thread stops everything, and a mining thread works for         *)
(* whatever identity it read when its batch began.                         *)
(*                                                                         *)
(* state, the current lease and the mining context are behind three locks  *)
(* that no handler holds together.  A handler is therefore the sequence of *)
(* the calls it makes: a thread's entry in todo is what it has still to    *)
(* do, and every call is a step of its own.                                *)
(***************************************************************************)
EXTENDS Integers, Sequences

CONSTANTS LeaseIds,        \* the lease ids the platform uses
          Commands,        \* the commands it may send
          MaxCommands,     \* bound on the commands sent in one behaviour
          queue_capacity,  \* PlatformConfig.queue_capacity
          has_secret,      \* PlatformConfig.command_secret is set
          LeaseTime,       \* duration_sec in ticks of the model's clock
          Stops            \* may the miner be stopped locally in this run?

Kinds == {"assign", "release", "pause", "resume", "shutdown", "ack", "nack"}

\* A command as the dispatch thread reads it.  lease_id is meaningful for assign
\* and release ("any" is the empty id of a release); signed is whether its envelope
\* verifies, fit whether every field passes the handler's validation.
CommandSet ==
  [kind : Kinds, lease_id : LeaseIds \cup {"any"}, signed : BOOLEAN, fit : BOOLEAN]

ASSUME PlatformAssumption ==
  /\ Commands \subseteq CommandSet
  /\ \A c \in Commands : c.kind = "assign" => c.lease_id # "any"
  /\ "any" \notin LeaseIds /\ "self" \notin LeaseIds /\ "none" \notin LeaseIds
  /\ MaxCommands \in Nat /\ queue_capacity \in Nat \ {0} /\ LeaseTime \in Nat \ {0}
  /\ Stops \in BOOLEAN /\ has_secret \in BOOLEAN

VARIABLES state,      \* PlatformManager.state
          lease,      \* LeaseManager.current: its id and the time it has left
          context,    \* MiningCoordinator.context: the lease mined for, or "self"
          paused,     \* MiningState.mining_paused
          running,    \* PlatformManager.running
          connected,  \* Transport::is_connected
          crossed,    \* history: a command met a watchdog tick (CrossesTick)
          queue,      \* CommandQueue.items
          todo,       \* per thread: the calls of its handler still to be made
          sent,       \* commands sent so far, for MaxCommands
          mining,     \* MiningState.is_running
          batch       \* the mining thread: whom its batch works for

platform == <<state, lease, context, paused, running>>
miner == <<mining, batch>>
vars == <<platform, connected, crossed, queue, todo, sent, miner>>

States == {"Idle", "Available", "Leased", "Mining", "Completed", "Error"}
Threads == {"dispatch", "watchdog", "main"}
NoLease == [id |-> "none", left |-> 0]
Leases == [id : LeaseIds, left : 0..LeaseTime]
Contexts == LeaseIds \cup {"self"}

\* The calls of the handlers.
To(s) == <<"transition_to", s>>
Callback(old, new) == <<"state_change_fn", old, new>>
EndLease == <<"end_lease">>
SelfMine == <<"switch_to_self_mining">>
StartLease(l) == <<"start_lease", l>>
ToContext == <<"to_mining_context">>
SetContext(c) == <<"update_context", c>>
IfExpired == <<"is_expired">>
CheckError == <<"climb_out_of_error">>
Reconnect == <<"register_if_connected">>
Stop == <<"stop">>
ReleaseIfActive == <<"release_if_active">>
Join == <<"join">>

\* has_active_lease and is_expired: no lease reads as expired.
\* Mutant of is_expired: one tick early.
ExpiredEarly == lease.left <= 1

IsExpired == lease.left = 0
HasActiveLease == lease # NoLease /\ lease.left > 0

Init ==
  /\ state = "Available"      \* announce has run
  /\ lease = NoLease /\ context = "self" /\ paused = FALSE /\ running = TRUE
  /\ connected \in BOOLEAN /\ crossed = FALSE
  /\ queue = <<>> /\ sent = 0
  /\ todo = [t \in Threads |-> <<>>]
  /\ mining = TRUE /\ batch = "none"

-----------------------------------------------------------------------------
(* Intake and dispatch. *)

\* Mutant: a full queue makes room by dropping its oldest command.
DropsOldest(c) ==
  IF ~running THEN queue
  ELSE IF Len(queue) < queue_capacity THEN Append(queue, c) ELSE Append(Tail(queue), c)

\* enqueue_command: a full queue drops the newest, a stopping manager everything.
Enqueued(c) ==
  IF running /\ Len(queue) < queue_capacity THEN Append(queue, c) ELSE queue

EnqueueCommand(c) ==
  /\ sent < MaxCommands
  /\ sent' = sent + 1
  /\ queue' = Enqueued(c)
  /\ UNCHANGED <<platform, connected, crossed, todo, miner>>

HandleRegisterAck(c) == IF c.kind = "ack" THEN <<To("Available")>> ELSE <<To("Error")>>

HandleAssignTask(c) ==
  IF state = "Available"
  THEN <<To("Leased"), StartLease(c.lease_id), ToContext>>
  ELSE <<>>

HandleRelease(c) ==
  IF lease # NoLease /\ c.lease_id \in {"any", lease.id}
  THEN <<To("Completed"), EndLease, SelfMine, To("Available")>>
  ELSE <<>>

HandleControl(c) ==
  CASE c.kind = "pause" ->
         (IF HasActiveLease THEN <<EndLease, SelfMine>> ELSE <<>>) \o <<To("Idle")>>
    [] c.kind = "resume" -> IF state = "Idle" THEN <<To("Available")>> ELSE <<>>
    [] c.kind = "shutdown" -> <<Stop>>

\* is_mutating_command: what may redirect a payout, change mining or end it.
IsMutatingCommand(c) == c.kind \in {"assign", "shutdown"}

\* authorize_command: with a secret every command needs its envelope, without one
\* the mutating commands are refused.
AuthorizeCommand(c) == IF has_secret THEN c.signed ELSE ~IsMutatingCommand(c)

\* try_handle_payload: parse, authorize, dispatch.  What is refused or fails its
\* validation changes nothing.
HandlePayload(c) ==
  IF ~AuthorizeCommand(c) \/ ~c.fit THEN <<>>
  ELSE CASE c.kind \in {"ack", "nack"} -> HandleRegisterAck(c)
         [] c.kind = "assign" -> HandleAssignTask(c)
         [] c.kind = "release" -> HandleRelease(c)
         [] OTHER -> HandleControl(c)

\* History: a command other than an assignment is obeyed during a tick of the
\* watchdog, or a tick begins while a handler is under way, of which more is left
\* than its last callback.
CrossesTick(c) == c.kind # "assign" /\ HandlePayload(c) # <<>> /\ todo["watchdog"] # <<>>
InHandler == \E i \in 1..Len(todo["dispatch"]) : todo["dispatch"][i][1] # "state_change_fn"

\* dispatch_loop
Dispatch ==
  /\ running /\ todo["dispatch"] = <<>> /\ queue # <<>>
  /\ queue' = Tail(queue)
  /\ todo' = [todo EXCEPT !["dispatch"] = HandlePayload(Head(queue))]
  /\ crossed' = (crossed \/ CrossesTick(Head(queue)))
  /\ UNCHANGED <<platform, connected, sent, miner>>

-----------------------------------------------------------------------------
(* The watchdog and the main thread. *)

\* Mutant: the rig is offered again before the lease is over.
OffersTooEarly == <<To("Completed"), To("Available"), EndLease, SelfMine>>

\* Mutant: the expiry never offers the rig again.
LeavesCompleted == <<To("Completed"), EndLease, SelfMine>>

LeaseExpires == <<To("Completed"), EndLease, SelfMine, To("Available")>>

\* watchdog_tick reads the state, and the lease's expiry under another lock.  A
\* tick in any other state does nothing.
WatchdogTick ==
  /\ running /\ todo["watchdog"] = <<>> /\ state \in {"Mining", "Error"}
  /\ todo' = [todo EXCEPT !["watchdog"] =
                (IF state = "Mining" THEN <<IfExpired>> ELSE <<>>) \o <<CheckError>>]
  /\ crossed' = (crossed \/ InHandler)
  /\ UNCHANGED <<platform, connected, queue, sent, miner>>

\* PlatformRuntime::stop, called by the teardown once the mining threads have
\* joined; a signal or a remote shutdown started the teardown.
MainStops ==
  /\ ~mining /\ batch = "none" /\ todo["main"] = <<>> /\ running
  /\ todo' = [todo EXCEPT !["main"] = <<Stop>>]
  /\ UNCHANGED <<platform, connected, crossed, queue, sent, miner>>

-----------------------------------------------------------------------------
(* One call of a handler, as its effect on the platform variables and the  *)
(* calls that are left.                                                    *)

\* A thread has ended when its loop has seen running = FALSE between two bodies.
Exited(t) == ~running /\ todo[t] = <<>>

Rest(t) == Tail(todo[t])
Continue(t, rest) == todo' = [todo EXCEPT ![t] = rest]

\* transition_to: nothing when the state is the same; the callback runs after
\* the lock is released.
TransitionTo(t) ==
  /\ Head(todo[t])[1] = "transition_to"
  /\ LET new == Head(todo[t])[2]
     IN  /\ state' = new
         /\ Continue(t, IF state = new THEN Rest(t)
                        ELSE <<Callback(state, new)>> \o Rest(t))
  /\ UNCHANGED <<lease, context, paused, running>>

\* The state-change callback: only a running manager pauses or resumes mining,
\* and the watchdog's Error -> Idle is not a pause.
PausedAfter(old, new) ==
  IF ~running \/ <<old, new>> = <<"Error", "Idle">> THEN paused
  ELSE IF new = "Idle" THEN TRUE
  ELSE IF new = "Available" THEN FALSE ELSE paused

StateChangeFn(t) ==
  /\ Head(todo[t])[1] = "state_change_fn"
  /\ paused' = PausedAfter(Head(todo[t])[2], Head(todo[t])[3])
  /\ Continue(t, Rest(t))
  /\ UNCHANGED <<state, lease, context, running>>

EndsLease(t) ==
  /\ Head(todo[t]) = EndLease
  /\ lease' = NoLease
  /\ Continue(t, Rest(t))
  /\ UNCHANGED <<state, context, paused, running>>

SwitchToSelfMining(t) ==
  /\ Head(todo[t]) = SelfMine
  /\ context' = "self"
  /\ Continue(t, Rest(t))
  /\ UNCHANGED <<state, lease, paused, running>>

\* start_lease: an existing lease, expired or not, is never overwritten; the
\* handler then gives up in Error.
StartsLease(t) ==
  /\ Head(todo[t])[1] = "start_lease"
  /\ IF lease = NoLease
     THEN lease' = [id |-> Head(todo[t])[2], left |-> LeaseTime] /\ Continue(t, Rest(t))
     ELSE UNCHANGED lease /\ Continue(t, <<To("Error")>>)
  /\ UNCHANGED <<state, context, paused, running>>

\* to_mining_context reads the lease; switch_to_platform_mining stores it later.
ReadsLease(t) ==
  /\ Head(todo[t]) = ToContext
  /\ Continue(t, <<SetContext(IF lease = NoLease THEN "self" ELSE lease.id),
                   To("Mining")>> \o Rest(t))
  /\ UNCHANGED platform

SwitchToPlatformMining(t) ==
  /\ Head(todo[t])[1] = "update_context"
  /\ context' = Head(todo[t])[2]
  /\ Continue(t, Rest(t))
  /\ UNCHANGED <<state, lease, paused, running>>

ChecksExpiry(t) ==
  /\ Head(todo[t]) = IfExpired
  /\ Continue(t, (IF IsExpired THEN LeaseExpires ELSE <<>>) \o Rest(t))
  /\ UNCHANGED platform

\* The second half of watchdog_tick, after its own look at the state.
ClimbsOutOfError(t) ==
  /\ Head(todo[t]) = CheckError
  /\ Continue(t, IF state = "Error" THEN <<To("Idle"), Reconnect>> ELSE <<>>)
  /\ UNCHANGED platform

RegistersIfConnected(t) ==
  /\ Head(todo[t]) = Reconnect
  /\ Continue(t, IF connected THEN <<To("Available")>> ELSE <<>>)
  /\ UNCHANGED platform

\* stop: the first caller tears down, every other returns at once.
StopBegins(t) ==
  /\ Head(todo[t]) = Stop
  /\ running' = FALSE
  /\ Continue(t, IF running THEN <<ReleaseIfActive, Join, To("Idle")>> ELSE Rest(t))
  /\ UNCHANGED <<state, lease, context, paused>>

StopReleases(t) ==
  /\ Head(todo[t]) = ReleaseIfActive
  /\ Continue(t, (IF HasActiveLease THEN <<EndLease, SelfMine>> ELSE <<>>) \o Rest(t))
  /\ UNCHANGED platform

\* A thread never joins itself.
StopJoins(t) ==
  /\ Head(todo[t]) = Join
  /\ \A u \in {"dispatch", "watchdog"} \ {t} : Exited(u)
  /\ Continue(t, Rest(t))
  /\ UNCHANGED platform

ThreadStep(t) ==
  /\ todo[t] # <<>>
  /\ \/ TransitionTo(t) \/ StateChangeFn(t)
     \/ EndsLease(t) \/ SwitchToSelfMining(t)
     \/ StartsLease(t) \/ ReadsLease(t) \/ SwitchToPlatformMining(t)
     \/ ChecksExpiry(t) \/ ClimbsOutOfError(t) \/ RegistersIfConnected(t)
     \/ StopBegins(t) \/ StopReleases(t) \/ StopJoins(t)
  /\ UNCHANGED <<connected, crossed, queue, sent, miner>>

-----------------------------------------------------------------------------
(* The mining thread, the clock and the broker. *)

\* A batch takes current_identity when it begins; a paused miner begins none.
BatchBegins ==
  /\ mining /\ ~paused /\ batch = "none"
  /\ batch' = context
  /\ UNCHANGED <<platform, connected, crossed, queue, todo, sent, mining>>

BatchEnds ==
  /\ batch # "none"
  /\ batch' = "none"
  /\ UNCHANGED <<platform, connected, crossed, queue, todo, sent, mining>>

\* A signal, or supervise carrying shutdown_requested into the miner.
ShutdownRequested ==
  /\ mining /\ (Stops \/ ~running)
  /\ mining' = FALSE
  /\ UNCHANGED <<platform, connected, crossed, queue, todo, sent, batch>>

LeaseTimePasses ==
  /\ lease.left > 0
  /\ lease' = [lease EXCEPT !.left = @ - 1]
  /\ UNCHANGED <<state, context, paused, running, connected, crossed, queue, todo, sent, miner>>

BrokerChanges ==
  /\ sent < MaxCommands
  /\ connected' = ~connected
  /\ UNCHANGED <<platform, crossed, queue, todo, sent, miner>>

Next ==
  \/ \E c \in Commands : EnqueueCommand(c)
  \/ Dispatch \/ WatchdogTick \/ MainStops
  \/ \E t \in Threads : ThreadStep(t)
  \/ BatchBegins \/ BatchEnds
  \/ ShutdownRequested \/ LeaseTimePasses \/ BrokerChanges

\* The manager's threads loop while it runs, their calls return, time passes,
\* and a batch is finite.
Fairness ==
  /\ WF_vars(Dispatch) /\ WF_vars(WatchdogTick) /\ WF_vars(MainStops)
  /\ \A t \in Threads : WF_vars(ThreadStep(t))
  /\ WF_vars(LeaseTimePasses) /\ WF_vars(BatchEnds)

Spec == Init /\ [][Next]_vars
FairSpec == Spec /\ Fairness

-----------------------------------------------------------------------------
Calls ==
  {EndLease, SelfMine, ToContext, IfExpired, CheckError, Reconnect, Stop,
   ReleaseIfActive, Join}
  \cup {To(s) : s \in States} \cup {Callback(o, s) : o \in States, s \in States}
  \cup {StartLease(l) : l \in LeaseIds} \cup {SetContext(c) : c \in Contexts}

TypeOK ==
  /\ state \in States /\ lease \in Leases \cup {NoLease} /\ context \in Contexts
  /\ paused \in BOOLEAN /\ running \in BOOLEAN /\ connected \in BOOLEAN
  /\ crossed \in BOOLEAN
  /\ queue \in Seq(Commands) /\ Len(queue) <= queue_capacity
  /\ todo \in [Threads -> Seq(Calls)]
  /\ sent \in 0..MaxCommands /\ mining \in BOOLEAN
  /\ batch \in Contexts \cup {"none"}

Quiet == \A t \in Threads : todo[t] = <<>>

\* The rig mines for the lease it holds, and for itself when it holds none.
Follows == context = IF lease = NoLease THEN "self" ELSE lease.id

\* Between two handlers the mining context follows the lease, whatever the platform
\* sends: only a command that meets a watchdog tick can leave it otherwise.  An
\* assignment never does: no state in which the watchdog is at work is Available
\* (handle_assign_task against watchdog_tick).
ContextFollowsLease == running /\ ~crossed /\ Quiet => Follows

\* lease.rs: a lease is not shortened.  It is over when its time is up, when a
\* handler calls end_lease, or when the rig stops; the watchdog, which looks at a
\* lease and ends one several calls later, cuts a lease short only if a command met
\* its tick in between.
LeaseRunsItsTime ==
  [][lease # NoLease /\ lease' = NoLease =>
       \/ lease.left = 0 \/ ~running \/ crossed
       \/ /\ todo["dispatch"] # <<>> /\ todo["dispatch"][1] = EndLease
          /\ todo'["dispatch"] # todo["dispatch"]]_vars

\* lib.rs 4-6: the rig "accepts leases that redirect its mining at a consumer's address
\* for a bounded time".  A lease whose time is up is ended, unless the rig stops.
LeaseEnds == (lease # NoLease /\ lease.left = 0) ~> (lease = NoLease \/ ~running)

\* Once the platform falls silent the rig is free or paused, whatever commands
\* raced the watchdog before: no handler leaves Leased, Completed, Mining or Error
\* behind.
Settles == <>[](state \in {"Available", "Idle"})

Shutdown == [kind |-> "shutdown", lease_id |-> "any", signed |-> TRUE, fit |-> TRUE]

AllExited == \A t \in Threads : Exited(t)

\* Once every thread has exited, stop's transition is the last: no handler that was
\* between its calls has overwritten it.
IdleAtTheEnd == AllExited => state = "Idle"

\* enqueue_command drops the newest: a shutdown that was accepted is obeyed even
\* if the queue overflows after it.  Then stop returns, from the main thread and
\* from the dispatch thread that a remote shutdown runs on, although each waits for
\* threads that may be in a handler, and no such handler overwrites its last word.
ShutdownObeyed ==
  /\ (\E i \in 1..Len(queue) : queue[i] = Shutdown) ~> ~running
  /\ ~mining ~> AllExited
  /\ []IdleAtTheEnd
=============================================================================
