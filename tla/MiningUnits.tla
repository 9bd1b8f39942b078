---------------------------- MODULE MiningUnits ----------------------------
(***************************************************************************)
(* The GPU mining threads: run_mining_on_device and MineUnit of             *)
(* treeminer/src/mineunit.rs, one thread per stream of one device, on the   *)
(* backend of treeminer/src/backend.rs and tm-gpu.                          *)
(*                                                                         *)
(* The threads share the difficulty, the margin, the pause flag, the        *)
(* identity and the running flag (treeminer/src/state.rs), each an atomic   *)
(* that other threads store to, and the memory of the device.               *)
(***************************************************************************)
EXTENDS GpuBatch, FiniteSets

CONSTANTS Streams,         \* the streams of the device
          NetworkCosts,    \* network difficulties
          Margins,         \* margins the submitter publishes
          MaxCost,         \* i32::MAX
          DeviceMemory,    \* total memory of the device
          DeviceHeadroom,  \* DEVICE_HEADROOM_BYTES
          ExplicitBatch,   \* --batchSize, 0 for none
          InitialDifficulty, InitialMargin,
          MaxMoves         \* bound on changes of difficulty and margin

\* effective_difficulty: a sum beyond i32::MAX ignores the margin.
Effective(d, m) == IF d + m <= MaxCost THEN d + m ELSE d

\* Costs are the costs a stream can be mining at.
ASSUME MiningAssumption ==
    /\ Costs \subseteq Nat \ {NoCost} /\ NetworkCosts \subseteq Costs /\ Margins \subseteq Nat
    /\ \A d \in NetworkCosts, m \in Margins : Effective(d, m) \in Costs
    /\ Streams # {} /\ IsFiniteSet(Streams)
    /\ {DeviceMemory, DeviceHeadroom, ExplicitBatch, MaxCost, MaxMoves} \subseteq Nat
    /\ InitialDifficulty \in NetworkCosts /\ InitialMargin \in Margins

VARIABLES difficulty, margin, paused, identity, running, moves,
          verified,   \* the self-test's gpu_first_blocks verdict on the device
          pc,         \* where each thread is
          seen,       \* the difficulty it read before reading the margin
          unit,       \* its MineUnit: cost, batch and the batch's salt
          runner,     \* GpuBackend::runner of its backend
          genuine     \* every find handed to the sink carries the hash of its
                      \* key at the cost and salt stamped on it

shared == <<difficulty, margin, paused, identity, running, moves, verified>>
vars == <<shared, pc, seen, unit, runner, genuine>>

Stages == {"outer", "margin", "plan", "loop", "compare", "begin", "stage",
           "run", "finish", "backoff", "done"}
Hashing(s) == pc[s] \in {"stage", "run", "finish"}

Units == [cost : Costs \cup {NoCost}, batch : Nat, salt : Salts \cup {Nobody}]
NoUnit == [cost |-> NoCost, batch |-> 0, salt |-> Nobody]

TypeOK ==
    /\ difficulty \in NetworkCosts /\ margin \in Margins
    /\ {paused, running, verified} \subseteq BOOLEAN
    /\ identity \in Salts /\ moves \in 0..MaxMoves
    /\ pc \in [Streams -> Stages]
    /\ seen \in [Streams -> NetworkCosts \cup {NoCost}]
    /\ unit \in [Streams -> Units]
    /\ runner \in [Streams -> Runners]
    /\ genuine \in BOOLEAN

Init ==
    /\ difficulty = InitialDifficulty /\ margin = InitialMargin
    /\ verified \in BOOLEAN
    /\ paused = FALSE /\ running = TRUE /\ moves = 0
    /\ identity \in Salts
    /\ pc = [s \in Streams |-> "outer"]
    /\ seen = [s \in Streams |-> NoCost]
    /\ unit = [s \in Streams |-> NoUnit]
    /\ runner = [s \in Streams |-> NoPool]
    /\ genuine = TRUE

-----------------------------------------------------------------------------
Goto(s, stage) == pc' = [pc EXCEPT ![s] = stage]

\* MineUnit::run returns and the unit is dropped; the backend keeps its pool.
Exit(s, stage) == Goto(s, stage) /\ unit' = [unit EXCEPT ![s] = NoUnit]

\* The thread's loop head: leave, or read the network difficulty for a new
\* unit (the first half of MiningState::effective_difficulty).
Outer(s) ==
    /\ pc[s] = "outer"
    /\ IF running
       THEN Goto(s, "margin") /\ seen' = [seen EXCEPT ![s] = difficulty]
       ELSE Goto(s, "done") /\ UNCHANGED seen
    /\ UNCHANGED <<shared, unit, runner, genuine>>

\* The second half of the read; the unit keeps this cost for its whole life.
ReadMargin(s) ==
    /\ pc[s] = "margin"
    /\ unit' = [unit EXCEPT ![s] =
                   [NoUnit EXCEPT !.cost = Effective(seen[s], margin)]]
    /\ seen' = [seen EXCEPT ![s] = NoCost]
    /\ Goto(s, "plan")
    /\ UNCHANGED <<shared, runner, genuine>>

\* What hipMemGetInfo reports: the blocks in the pools of all streams are taken,
\* and other users of the device hold nothing or the whole headroom.
PoolsHeld(pools) ==
    Cardinality(UNION {{s} \X (1..Held(pools[s])) : s \in Streams})
FreeMemory(pools) ==
    {DeviceMemory - PoolsHeld(pools) - others : others \in {0, DeviceHeadroom}}

\* What the pools may take of the device together, and each of them.
Usable == Larger(DeviceMemory - DeviceHeadroom, 0)
Share == Usable \div Cardinality(Streams)

\* GpuMiningBackend::plan_batch_size: with several streams a stream counts on
\* its share of the device only.
PlanBatchSize(free, cost) ==
    SelectBatchSize(IF Cardinality(Streams) <= 1 THEN free ELSE Smaller(free, Share),
                    cost, ExplicitBatch)

\* Mutant: a stream measures before it releases its old pool.
MeasuredFirst(s) == runner

\* release_buffers, before free memory is measured.
Released(s) == [runner EXCEPT ![s] = NoPool]

\* The head of MineUnit::run: release, measure, size the batch.
Plan(s) ==
    /\ pc[s] = "plan"
    /\ runner' = Released(s)
    /\ \E free \in FreeMemory(runner') :
         LET batch == PlanBatchSize(free, unit[s].cost) IN
         IF batch = 0
         THEN Exit(s, "backoff")
         ELSE unit' = [unit EXCEPT ![s].batch = batch] /\ Goto(s, "loop")
    /\ UNCHANGED <<shared, seen, genuine>>

\* The measurement fails: LoopExit::Recoverable.
PlanFails(s) ==
    /\ pc[s] = "plan"
    /\ runner' = Released(s)
    /\ Exit(s, "backoff")
    /\ UNCHANGED <<shared, seen, genuine>>

\* The batch loop's head: LoopExit::Stopped returns to the thread's loop.
LoopHead(s) ==
    /\ pc[s] = "loop"
    /\ IF running
       THEN /\ Goto(s, "compare")
            /\ seen' = [seen EXCEPT ![s] = difficulty]
            /\ UNCHANGED unit
       ELSE Exit(s, "outer") /\ UNCHANGED seen
    /\ UNCHANGED <<shared, runner, genuine>>

\* Mutant: only a rise of the cost ends the unit.
CostRose(s) == Effective(seen[s], margin) > unit[s].cost
CostMoved(s) == Effective(seen[s], margin) # unit[s].cost

\* LoopExit::DifficultyChanged rebuilds the unit at once.
Compare(s) ==
    /\ pc[s] = "compare"
    /\ IF CostMoved(s) THEN Exit(s, "outer") ELSE Goto(s, "begin") /\ UNCHANGED unit
    /\ seen' = [seen EXCEPT ![s] = NoCost]
    /\ UNCHANGED <<shared, runner, genuine>>

\* PAUSE_POLL: the unit and its pool stay, the loop goes round.
Idle(s) ==
    /\ pc[s] = "begin" /\ paused
    /\ Goto(s, "loop")
    /\ UNCHANGED <<shared, seen, unit, runner, genuine>>

\* The identity is read once per batch; GpuBackend::init makes the pool ready.
Begin(s) ==
    /\ pc[s] = "begin" /\ ~paused
    /\ unit' = [unit EXCEPT ![s].salt = identity]
    /\ runner' = [runner EXCEPT ![s] =
                     BackendInit(@, unit[s].cost, unit[s].batch)]
    /\ Goto(s, "stage")
    /\ UNCHANGED <<shared, seen, genuine>>

\* The allocation fails after the old pool was dropped.
InitFails(s) ==
    /\ pc[s] = "begin" /\ ~paused
    /\ BackendInit(runner[s], unit[s].cost, unit[s].batch)
          = RunnerNew(unit[s].cost, unit[s].batch)
    /\ runner' = Released(s)
    /\ Exit(s, "backoff")
    /\ UNCHANGED <<shared, seen, genuine>>

\* First blocks on the device where the self-test verified them there, on the
\* host otherwise.
Stage(s) ==
    /\ pc[s] = "stage"
    /\ runner' = [runner EXCEPT ![s] =
                     IF verified
                     THEN PrepareOnDevice(@, unit[s].salt, unit[s].cost)
                     ELSE FillOnHost(@, unit[s].salt, unit[s].cost)]
    /\ Goto(s, "run")
    /\ UNCHANGED <<shared, seen, unit, genuine>>

Run(s) ==
    /\ pc[s] = "run"
    /\ runner' = [runner EXCEPT ![s] = QueueRun(@)]
    /\ Goto(s, "finish")
    /\ UNCHANGED <<shared, seen, unit, genuine>>

\* A HIP call of the staging, the launch or the synchronisation fails.  What
\* was queued stays queued; the pool stays allocated until the next unit.
AfterFailure(s) == Exit(s, "backoff")
BatchFails(s) ==
    /\ Hashing(s)
    /\ runner' = [runner EXCEPT ![s] =
                     Aged(IF pc[s] = "run" THEN QueueRun(@) ELSE @)]
    /\ AfterFailure(s)
    /\ UNCHANGED <<shared, seen, genuine>>

\* submit_matches stamps a find with this unit's cost and this batch's salt.
\* Mutant: the cost is looked up again when the match is recorded.
CurrentCost(s) == Effective(difficulty, margin)
StampedCost(s) == unit[s].cost

\* The batch ends with or without a match.
EndBatch(s) ==
    /\ pc[s] = "finish"
    /\ runner' = [runner EXCEPT ![s] = Aged(Finish(@))]
    /\ \/ UNCHANGED genuine
       \/ genuine' = (genuine /\ DigestIsOf(Finish(runner[s]), unit[s].salt,
                                            StampedCost(s)))
    /\ unit' = [unit EXCEPT ![s].salt = Nobody]
    /\ Goto(s, "loop")
    /\ UNCHANGED <<shared, seen>>

\* sleep_interruptible ends: the backoff is over or the miner is stopping.
WakeUp(s) ==
    /\ pc[s] = "backoff"
    /\ Goto(s, "outer")
    /\ UNCHANGED <<shared, seen, unit, runner, genuine>>

Step(s) ==
    \/ Outer(s) \/ ReadMargin(s) \/ Plan(s) \/ PlanFails(s) \/ LoopHead(s)
    \/ Compare(s) \/ Idle(s) \/ Begin(s) \/ InitFails(s) \/ Stage(s) \/ Run(s)
    \/ BatchFails(s) \/ EndBatch(s) \/ WakeUp(s)

-----------------------------------------------------------------------------
\* The other threads: the poller or a 401's hint, the submitter's margin
\* callback, the platform's pause and lease, and the shutdown flag.
threads == <<pc, seen, unit, runner, genuine, verified>>

SetDifficulty ==
    /\ moves < MaxMoves
    /\ moves' = moves + 1
    /\ difficulty' \in NetworkCosts \ {difficulty}
    /\ UNCHANGED <<margin, paused, identity, running, threads>>

SetMargin ==
    /\ moves < MaxMoves
    /\ moves' = moves + 1
    /\ margin' \in Margins \ {margin}
    /\ UNCHANGED <<difficulty, paused, identity, running, threads>>

SetPaused ==
    /\ paused' = ~paused
    /\ UNCHANGED <<difficulty, margin, identity, running, moves, threads>>

SetIdentity ==
    /\ identity' \in Salts \ {identity}
    /\ UNCHANGED <<difficulty, margin, paused, running, moves, threads>>

RequestStop ==
    /\ running
    /\ running' = FALSE
    /\ UNCHANGED <<difficulty, margin, paused, identity, moves, threads>>

Environment == SetDifficulty \/ SetMargin \/ SetPaused \/ SetIdentity \/ RequestStop

Next == Environment \/ \E s \in Streams : Step(s)

Spec == Init /\ [][Next]_vars

\* The operating system schedules every thread; nothing forces the others to
\* change their minds.
FairSpec == Spec /\ \A s \in Streams : WF_vars(Step(s))

-----------------------------------------------------------------------------
\* A find the sink gets is real: its digest is the hash, at the memory cost
\* and for the address stamped on it, of a key of the batch that just ran,
\* whatever happened to difficulty, margin and lease meanwhile
\* (MineUnit::submit_matches; the header's "stale-difficulty bug").
FindsAreGenuine == genuine

\* A unit is never sized from the scraps another pool, or its own old one,
\* leaves: on a device with several streams its batch is the one an idle
\* device would give (MineUnit::run releases before it measures).
NeverStarved ==
    Cardinality(Streams) > 1 =>
        \A s \in Streams : pc[s] \in {"loop", "compare", "begin"} \/ Hashing(s) =>
            unit[s].batch = PlanBatchSize(DeviceMemory, unit[s].cost)

\* The pools of the streams never exceed the device less its headroom, no job
\* reaches outside its pool, no staging buffer is refilled while a queued copy
\* of a batch that failed still reads it (the SAFETY comments of
\* KernelRunner::copy_input_blocks and run), and no stream is starved for it.
PoolsAreSafe ==
    /\ PoolsHeld(runner) <= Usable
    /\ \A s \in Streams : InsidePool(runner[s])
    /\ \A s \in Streams : pc[s] = "stage" => ~runner[s].copying
    /\ NeverStarved

\* Once difficulty and margin settle, no stream keeps hashing at another
\* cost, even when it read them while they moved.
UnitsFollowDifficulty ==
    <>[](\A s \in Streams :
            Hashing(s) => unit[s].cost = Effective(difficulty, margin))
=============================================================================
