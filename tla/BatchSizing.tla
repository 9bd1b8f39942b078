---------------------------- MODULE BatchSizing ----------------------------
(***************************************************************************)
(* How many jobs one GPU batch may hold (tm-core/src/batch.rs) and how      *)
(* much device memory a batch takes once the kernel runner allocates it     *)
(* (tm-core/src/argon2host.rs).  All amounts of memory are in KiB, which is *)
(* one Argon2 block; the cost of a job is its Argon2 memory cost.           *)
(***************************************************************************)
EXTENDS Integers

CONSTANTS Hip,             \* TRUE in a HIP build, FALSE in a CUDA build
          DefaultReserve,  \* DEFAULT_MEMORY_RESERVE_BYTES
          HipReserveFloor  \* HIP_RESERVE_FLOOR_BYTES

ASSUME BatchSizingAssumption ==
    /\ Hip \in BOOLEAN
    /\ DefaultReserve \in Nat
    /\ HipReserveFloor \in Nat

Larger(a, b) == IF a >= b THEN a ELSE b
Smaller(a, b) == IF a <= b THEN a ELSE b

\* effective_reserve_bytes: a HIP allocation that does not fit spills into
\* host memory instead of failing, hence the larger cushion.
EffectiveReserve(free) ==
    IF Hip
    THEN Larger(Larger(DefaultReserve, HipReserveFloor), free \div 16)
    ELSE DefaultReserve

\* estimate_memory_batch_limit; the factor 1.001 is exact here where the code
\* divides two f64 values.
MemoryBatchLimit(free, cost) ==
    IF cost = 0 \/ free <= EffectiveReserve(free)
    THEN 0
    ELSE ((free - EffectiveReserve(free)) * 1000) \div (cost * 1001)

\* recommended_batch_size; 0 is "no tuned ceiling".
RecommendedBatchSize(cost) ==
    CASE cost \in 0..1  -> 2048
      [] cost \in 2..8  -> 4096
      [] cost \in 9..64 -> 3072
      [] OTHER          -> 0

\* select_batch_size: an explicit --batchSize replaces the tuned ceiling.
SelectBatchSize(free, cost, explicitMax) ==
    LET limit == MemoryBatchLimit(free, cost)
        tuned == RecommendedBatchSize(cost)
    IN  CASE explicitMax > 0 -> Smaller(limit, explicitMax)
          [] explicitMax = 0 /\ tuned > 0 -> Smaller(limit, tuned)
          [] OTHER -> limit

\* Argon2Shape::segment_blocks and job_bytes: Argon2 never uses fewer than
\* two blocks per segment, and a job has four segments.
SegmentBlocks(cost) == Larger(2, cost \div 4)
JobBlocks(cost) == 4 * SegmentBlocks(cost)

\* The device memory a pool of "batch" jobs takes.
PoolSize(batch, cost) == batch * JobBlocks(cost)
=============================================================================
