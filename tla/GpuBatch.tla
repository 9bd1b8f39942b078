------------------------------ MODULE GpuBatch ------------------------------
(***************************************************************************)
(* The device pool of one mining stream and the launch sequence of a batch  *)
(* (tm-gpu/src/runner.rs, backend.rs, hash.rs), as operators on a "runner". *)
(*                                                                         *)
(* What a buffer holds is abstracted to its content: the salt and the cost  *)
(* it was derived from, or "Garbage" for what is left of an earlier batch.  *)
(* The jobs of a batch are staged and launched together, so one content     *)
(* stands for all of them.                                                  *)
(***************************************************************************)
EXTENDS BatchSizing

CONSTANTS Costs,  \* the memory costs of the instance
          Salts,  \* the address salts batches are mined for
          Nobody  \* no salt

ASSUME NobodyAssumption == Nobody \notin Salts

NoCost == 0

Contents == [salt : Salts \cup {Nobody}, cost : Costs \cup {NoCost}]
Garbage == [salt |-> Nobody, cost |-> NoCost]

\* GpuBackend::runner is None.
NoPool == [batch |-> 0, cost |-> NoCost, allocated |-> 0, blocksIn |-> Garbage,
           keys |-> Garbage, pending |-> NoCost, memory |-> Garbage,
           out |-> Garbage, copying |-> FALSE]

\* allocated: allocated_segment_blocks; pending: pending_first_blocks, the
\* cost it was prepared for; keys: device_keys and device_salt; memory: the
\* first blocks in the pool; copying: a queued copy still reads blocks_in.
Runners == [batch : Nat, cost : Costs \cup {NoCost}, allocated : Nat,
            blocksIn : Contents, keys : Contents,
            pending : Costs \cup {NoCost}, memory : Contents,
            out : Contents, copying : BOOLEAN]

\* KernelRunner::new allocates one pool of batch * job_bytes.
RunnerNew(cost, batch) ==
    [NoPool EXCEPT !.batch = batch, !.cost = cost,
                   !.allocated = SegmentBlocks(cost)]

\* The device memory a runner holds.
Held(runner) == runner.batch * 4 * runner.allocated

\* KernelRunner::can_reuse; type, version, passes and lanes never differ.
CanReuse(runner, cost, batch) ==
    /\ runner.batch = batch
    /\ SegmentBlocks(cost) <= runner.allocated

\* KernelRunner::reconfigure drops what was staged for the old parameters.
Reconfigure(runner, cost, batch) ==
    [runner EXCEPT !.cost = cost, !.batch = batch, !.pending = NoCost]

\* The memory the jobs of a batch reach lies inside the allocation.
InsidePool(runner) == PoolSize(runner.batch, runner.cost) <= Held(runner)

\* The batch is over: whatever the buffers hold belongs to no batch to come.
Aged(runner) ==
    [runner EXCEPT !.blocksIn = Garbage, !.keys = Garbage,
                   !.memory = Garbage, !.out = Garbage]

\* GpuBackend::init, when the allocation succeeds.
BackendInit(runner, cost, batch) ==
    IF runner # NoPool /\ CanReuse(runner, cost, batch)
    THEN Reconfigure(runner, cost, batch)
    ELSE RunnerNew(cost, batch)

\* fill_first_blocks_batch into input_blocks_batch_mut: the CPU derives the
\* first blocks into the staging buffer.
FillOnHost(runner, salt, cost) ==
    [runner EXCEPT !.blocksIn = [salt |-> salt, cost |-> cost]]

\* prepare_input_blocks_on_device: keys and salt are copied up and the next
\* run derives the first blocks there.
PrepareOnDevice(runner, salt, cost) ==
    [runner EXCEPT !.keys = [salt |-> salt, cost |-> NoCost],
                   !.pending = cost]

\* KernelRunner::run up to the Argon2 kernel: the first blocks reach the pool
\* from the staging buffer or from the first-blocks kernel.
FirstBlocks(runner) ==
    IF runner.pending # NoCost
    THEN [runner.keys EXCEPT !.cost = runner.pending]
    ELSE runner.blocksIn

QueueRun(runner) ==
    [runner EXCEPT !.memory = FirstBlocks(runner),
                   !.pending = NoCost,
                   !.copying = (runner.pending = NoCost)]

\* The stream has drained (KernelRunner::finish): the kernel has chained the
\* blocks at the runner's shape and the last block of every job is read back.
Finish(runner) ==
    [runner EXCEPT !.out = runner.memory, !.copying = FALSE]

\* The digest read from a finished runner is the Argon2 hash, at this cost,
\* of a key of this batch under this salt.
DigestIsOf(runner, salt, cost) ==
    /\ runner.out = [salt |-> salt, cost |-> cost]
    /\ SegmentBlocks(runner.cost) = SegmentBlocks(cost)
=============================================================================
