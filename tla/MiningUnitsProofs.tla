------------------------- MODULE MiningUnitsProofs -------------------------
(***************************************************************************)
(* The finds and the memory of one device, for any number of streams and   *)
(* any device, difficulty and margin.                                      *)
(***************************************************************************)
EXTENDS MiningUnits, FiniteSetTheorems, TLAPS

\* KiB that the largest tuned batch of the smallest jobs takes: 4096 jobs of 8 blocks.
SmallJobs == 32768

\* What the code's constants give every real device: several streams share the device less
\* its headroom, and one alone leaves the HIP reserve, which is larger than the headroom
\* (on CUDA one stream alone may use the headroom); jobs below Argon2's eight blocks,
\* whose pool is larger than their cost says, fit into the reserve at the tuned batch sizes.
RoomAssumption ==
  /\ Cardinality(Streams) > 1 \/ (Hip /\ HipReserveFloor >= DeviceHeadroom + SmallJobs)
  /\ \A c \in Costs : c >= 8 \/ (ExplicitBatch = 0 /\ DefaultReserve >= SmallJobs)

\* The stages in which the batch of a unit is decided, and those of a batch.
SizedStages == {"loop", "compare", "begin", "stage", "run", "finish"}
BatchStages == {"stage", "run", "finish"}

\* What a thread at stage p, having read the difficulty d, with unit u and runner r, has in
\* its buffers.
CarriesAt(p, d, u, r) ==
  /\ p \in {"margin", "compare"} => d \in NetworkCosts
  /\ p \in {"plan"} \cup SizedStages => u.cost \in Costs
  /\ p \in BatchStages => u.salt \in Salts /\ r.cost = u.cost
  /\ p = "stage" => r.pending = NoCost
  /\ p = "run" => FirstBlocks(r) = [salt |-> u.salt, cost |-> u.cost]
  /\ p = "finish" => r.memory = [salt |-> u.salt, cost |-> u.cost]

\* What its pool takes, and that nothing of an earlier batch is queued when a batch begins.
FitsAt(p, u, r) ==
  /\ InsidePool(r) /\ Held(r) <= Share
  /\ p \in {"loop", "compare", "begin", "stage"} => ~r.copying
  /\ p \in SizedStages => PoolSize(u.batch, u.cost) <= Share
  /\ p \in SizedStages /\ Cardinality(Streams) > 1
       => u.batch = PlanBatchSize(DeviceMemory, u.cost)

Carries(s) == CarriesAt(pc[s], seen[s], unit[s], runner[s])
Fits(s) == FitsAt(pc[s], unit[s], runner[s])

Genuine == TypeOK /\ genuine /\ \A s \in Streams : Carries(s)
Safe == \A s \in Streams : Fits(s)

-----------------------------------------------------------------------------
(* Batch sizes. *)

LEMMA DivBelow ==
  ASSUME NEW x \in Nat, NEW y \in Nat \ {0}
  PROVE  x \div y \in Nat /\ (x \div y) * y <= x
  OBVIOUS

LEMMA TimesMonotonic ==
  ASSUME NEW a \in Nat, NEW b \in Nat, NEW c \in Nat, a <= b
  PROVE  a * c <= b * c /\ a * c \in Nat
  OBVIOUS

LEMMA ReserveBounds ==
  ASSUME NEW free \in Int
  PROVE  /\ EffectiveReserve(free) \in Nat /\ DefaultReserve <= EffectiveReserve(free)
         /\ Hip => HipReserveFloor <= EffectiveReserve(free)
  BY BatchSizingAssumption DEF EffectiveReserve, Larger

\* The jobs of a batch fit into what is free beyond the reserve.
LEMMA LimitBounds ==
  ASSUME NEW free \in Int, NEW cost \in Nat \ {0}
  PROVE  LET limit == MemoryBatchLimit(free, cost)
         IN  /\ limit \in Nat
             /\ limit > 0 => free > EffectiveReserve(free)
             /\ limit > 0 => limit * cost <= free - EffectiveReserve(free)
<1> DEFINE r == EffectiveReserve(free)
           x == (free - r) * 1000
           y == cost * 1001
           q == x \div y
<1>1. r \in Nat
  BY ReserveBounds
<1>2. CASE free <= r
  BY <1>2 DEF MemoryBatchLimit
<1>3. CASE free > r
  <2>1. MemoryBatchLimit(free, cost) = q
    BY <1>1, <1>3 DEF MemoryBatchLimit
  <2>2. x \in Nat /\ y \in Nat \ {0}
    BY <1>1, <1>3
  <2>3. q \in Nat /\ q * y <= x
    <3> HIDE DEF x, y
    <3> QED  BY <2>2, DivBelow
  <2>4. q * cost <= free - r
    <3> HIDE DEF q, r
    <3>1. q * y = (q * cost) * 1001 /\ q * cost \in Nat
      BY <2>3
    <3>2. (q * cost) * 1001 <= (free - r) * 1000
      BY <2>3, <3>1
    <3> DEFINE p == q * cost
    <3>3. p \in Nat /\ p * 1001 <= (free - r) * 1000
      BY <3>1, <3>2
    <3> HIDE DEF p
    <3>4. p <= free - r
      BY <1>1, <1>3, <3>3
    <3> QED  BY <3>4 DEF p
  <2> QED  BY <1>3, <2>1, <2>3, <2>4
<1> QED  BY <1>1, <1>2, <1>3

LEMMA SelectTyped ==
  ASSUME NEW free \in Int, NEW cost \in Nat \ {0}, NEW explicitMax \in Nat
  PROVE  SelectBatchSize(free, cost, explicitMax) \in Nat
<1>1. MemoryBatchLimit(free, cost) \in Nat
  BY LimitBounds
<1>2. RecommendedBatchSize(cost) \in Nat
  BY DEF RecommendedBatchSize
<1> QED  BY <1>1, <1>2 DEF SelectBatchSize, Smaller

LEMMA SelectBounds ==
  ASSUME NEW free \in Int, NEW cost \in Nat \ {0}, NEW explicitMax \in Nat
  PROVE  /\ SelectBatchSize(free, cost, explicitMax) <= MemoryBatchLimit(free, cost)
         /\ explicitMax = 0 /\ cost <= 8 => SelectBatchSize(free, cost, explicitMax) <= 4096
<1> DEFINE limit == MemoryBatchLimit(free, cost)
<1>1. limit \in Nat
  BY LimitBounds
<1> HIDE DEF limit
<1>2. RecommendedBatchSize(cost) \in Nat /\ (cost <= 8 => RecommendedBatchSize(cost) \in {2048, 4096})
  BY DEF RecommendedBatchSize
<1> QED  BY <1>1, <1>2 DEF SelectBatchSize, Smaller, limit

\* There is at least one stream, and all of them can have their share.
LEMMA Shares ==
  /\ Cardinality(Streams) \in Nat \ {0} /\ Usable \in Nat /\ Share \in Nat
  /\ Cardinality(Streams) * Share <= Usable
  /\ Cardinality(Streams) = 1 => Share = Usable
<1>1. Cardinality(Streams) \in Nat \ {0}
  BY MiningAssumption, FS_CardinalityType, FS_EmptySet
<1>2. Usable \in Nat
  BY MiningAssumption DEF Usable, Larger
<1>3. Share \in Nat /\ Share * Cardinality(Streams) <= Usable
  BY <1>1, <1>2, DivBelow DEF Share
<1>4. Cardinality(Streams) = 1 => Share = Usable
  BY <1>2 DEF Share
<1> QED  BY <1>1, <1>2, <1>3, <1>4

\* The pool of the batch a stream plans fits into its share.
LEMMA PlanFits ==
  ASSUME RoomAssumption, NEW free \in Int, free <= DeviceMemory, NEW cost \in Costs,
         PlanBatchSize(free, cost) # 0
  PROVE  PoolSize(PlanBatchSize(free, cost), cost) <= Share
<1> DEFINE n == Cardinality(Streams)
           f == IF n <= 1 THEN free ELSE Smaller(free, Share)
           batch == SelectBatchSize(f, cost, ExplicitBatch)
           limit == MemoryBatchLimit(f, cost)
           r == EffectiveReserve(f)
<1>1. /\ cost \in Nat \ {0} /\ ExplicitBatch \in Nat /\ DeviceMemory \in Nat
      /\ DeviceHeadroom \in Nat /\ HipReserveFloor \in Nat
  BY MiningAssumption, BatchSizingAssumption DEF NoCost
<1>2. PlanBatchSize(free, cost) = batch
  BY DEF PlanBatchSize
<1>3. n \in Nat \ {0} /\ Share \in Nat /\ Usable \in Nat
  BY Shares
<1>4. f \in Int /\ f <= DeviceMemory /\ (n > 1 => f <= Share)
  BY <1>1, <1>3 DEF Smaller
<1>5. r \in Nat /\ DefaultReserve \in Nat /\ DefaultReserve <= r /\ (Hip => HipReserveFloor <= r)
  <2> HIDE DEF f
  <2> QED  BY <1>4, ReserveBounds, BatchSizingAssumption
<1>6. /\ limit \in Nat /\ batch \in Nat \ {0} /\ batch <= limit
      /\ f > r /\ limit * cost <= f - r
      /\ ExplicitBatch = 0 /\ cost <= 8 => batch <= 4096
  <2> HIDE DEF f
  <2>1. batch # 0
    BY <1>2
  <2>2. batch \in Nat /\ batch <= limit /\ (ExplicitBatch = 0 /\ cost <= 8 => batch <= 4096)
    <3>1. cost \in Nat \ {0} /\ f \in Int /\ ExplicitBatch \in Nat
      BY <1>1, <1>4
    <3>2. SelectBatchSize(f, cost, ExplicitBatch) \in Nat
      BY <3>1, SelectTyped, Zenon
    <3>3. SelectBatchSize(f, cost, ExplicitBatch) <= MemoryBatchLimit(f, cost)
      BY <3>1, SelectBounds
    <3>4. ExplicitBatch = 0 /\ cost <= 8 => SelectBatchSize(f, cost, ExplicitBatch) <= 4096
      BY <3>1, SelectBounds
    <3> QED  BY <3>2, <3>3, <3>4
  <2>3. /\ limit \in Nat
        /\ limit > 0 => f > r /\ limit * cost <= f - r
    BY <1>1, <1>4, LimitBounds
  <2> HIDE DEF batch, limit, r
  <2> QED  BY <2>1, <2>2, <2>3
<1>7. n > 1 \/ (n = 1 /\ Share = Usable /\ HipReserveFloor >= DeviceHeadroom + SmallJobs
                 /\ HipReserveFloor <= r)
  BY <1>3, <1>5, Shares DEF RoomAssumption
<1> HIDE DEF f, batch, limit, r
<1>8. CASE cost >= 8
  <2>1. JobBlocks(cost) \in Nat /\ JobBlocks(cost) <= cost
    BY <1>1, <1>8 DEF JobBlocks, SegmentBlocks, Larger
  <2>2. batch * JobBlocks(cost) <= batch * cost /\ batch * cost <= limit * cost
    <3> DEFINE j == JobBlocks(cost)
    <3>1. j \in Nat /\ j <= cost
      BY <2>1
    <3> HIDE DEF j
    <3>2. batch * j <= batch * cost
      <4>1. j * batch <= cost * batch
        BY <1>1, <1>6, <3>1, TimesMonotonic
      <4> QED  BY <1>1, <1>6, <3>1, <4>1
    <3>3. batch * cost <= limit * cost
      BY <1>1, <1>6, TimesMonotonic
    <3> QED  BY <3>2, <3>3 DEF j
  <2>3. batch * JobBlocks(cost) <= f - r /\ batch * JobBlocks(cost) \in Int
    <3> DEFINE a == batch * JobBlocks(cost)  b == batch * cost  c == limit * cost
    <3>1. a \in Nat /\ b \in Nat /\ c \in Nat /\ a <= b /\ b <= c /\ c <= f - r
      BY <1>1, <1>6, <2>1, <2>2
    <3> HIDE DEF a, b, c
    <3>2. a <= f - r /\ a \in Int
      BY <1>4, <1>5, <3>1
    <3> QED  BY <3>2 DEF a
  <2>4. f - r <= Share
    BY <1>1, <1>3, <1>4, <1>5, <1>6, <1>7 DEF Usable, Larger, SmallJobs
  <2> QED  BY <1>2, <1>3, <1>4, <1>5, <2>3, <2>4 DEF PoolSize
<1>9. CASE cost < 8
  <2>1. ExplicitBatch = 0 /\ DefaultReserve >= SmallJobs
    BY <1>1, <1>9 DEF RoomAssumption
  <2>2. JobBlocks(cost) = 8 /\ batch <= 4096
    BY <1>1, <1>6, <1>9, <2>1 DEF JobBlocks, SegmentBlocks, Larger
  <2>3. batch * JobBlocks(cost) <= SmallJobs
    BY <1>6, <2>2 DEF SmallJobs
  <2>4. SmallJobs <= Share
    BY <1>1, <1>3, <1>4, <1>5, <1>6, <1>7, <2>1 DEF Usable, Larger, SmallJobs
  <2> QED  BY <1>2, <1>3, <1>6, <2>2, <2>3, <2>4 DEF PoolSize, SmallJobs
<1> QED  BY <1>1, <1>8, <1>9

-----------------------------------------------------------------------------
(* The memory of the device. *)

\* Streams that keep to their share keep to the device together, and leave a stream without
\* a pool its own share.
LEMMA HeldTogether ==
  ASSUME NEW pools, \A u \in Streams : Held(pools[u]) \in Nat /\ Held(pools[u]) <= Share
  PROVE  /\ PoolsHeld(pools) \in Nat /\ PoolsHeld(pools) <= Cardinality(Streams) * Share
         /\ \A s \in Streams :
              Held(pools[s]) = 0 => PoolsHeld(pools) <= (Cardinality(Streams) - 1) * Share
<1> DEFINE blocks == UNION {{u} \X (1..Held(pools[u])) : u \in Streams}
           n == Cardinality(Streams)
<1>1. n \in Nat \ {0} /\ Share \in Nat /\ IsFiniteSet(Streams)
  BY Shares, MiningAssumption
<1>2. IsFiniteSet(1..Share) /\ Cardinality(1..Share) = Share
  BY <1>1, FS_Interval
<1>3. ASSUME NEW S \in SUBSET Streams, blocks \subseteq S \X (1..Share)
      PROVE  Cardinality(blocks) \in Nat /\ Cardinality(blocks) <= Cardinality(S) * Share
  <2>1. IsFiniteSet(S)
    BY <1>1, FS_Subset
  <2>2. IsFiniteSet(S \X (1..Share)) /\ Cardinality(S \X (1..Share)) = Cardinality(S) * Share
    BY <1>2, <2>1, FS_Product
  <2>3. IsFiniteSet(blocks) /\ Cardinality(blocks) <= Cardinality(S \X (1..Share))
    BY <1>3, <2>2, FS_Subset
  <2> QED  BY <2>2, <2>3, FS_CardinalityType
<1>4. blocks \subseteq Streams \X (1..Share)
  BY <1>1
<1>5. PoolsHeld(pools) = Cardinality(blocks)
  BY DEF PoolsHeld
<1>6. ASSUME NEW s \in Streams, Held(pools[s]) = 0
      PROVE  Cardinality(blocks) <= (n - 1) * Share
  <2>1. blocks \subseteq (Streams \ {s}) \X (1..Share)
    BY <1>1, <1>6
  <2>2. Cardinality(Streams \ {s}) = n - 1
    BY <1>1, FS_RemoveElement
  <2> HIDE DEF blocks
  <2>3. Streams \ {s} \in SUBSET Streams
    OBVIOUS
  <2> QED  BY <1>3, <2>1, <2>2, <2>3
<1> HIDE DEF blocks
<1> QED  BY <1>3, <1>4, <1>5, <1>6

\* On a device with several streams a stream that released its pool plans the batch an idle
\* device would give it.
LEMMA PlanIsFair ==
  ASSUME NEW pools, \A u \in Streams : Held(pools[u]) \in Nat /\ Held(pools[u]) <= Share,
         NEW s \in Streams, Held(pools[s]) = 0, NEW free \in FreeMemory(pools),
         NEW cost \in Costs
  PROVE  /\ free \in Int /\ free <= DeviceMemory
         /\ PlanBatchSize(free, cost) # 0 /\ Cardinality(Streams) > 1
              => PlanBatchSize(free, cost) = PlanBatchSize(DeviceMemory, cost)
<1> DEFINE n == Cardinality(Streams)
           f == Smaller(free, Share)
<1>1. /\ n \in Nat \ {0} /\ Share \in Nat /\ Usable \in Nat /\ n * Share <= Usable
      /\ DeviceMemory \in Nat /\ DeviceHeadroom \in Nat /\ ExplicitBatch \in Nat
      /\ cost \in Nat \ {0}
  BY Shares, MiningAssumption DEF NoCost
<1>2. PoolsHeld(pools) \in Nat /\ PoolsHeld(pools) <= (n - 1) * Share
  BY HeldTogether
<1>3. PICK others \in {0, DeviceHeadroom} : free = DeviceMemory - PoolsHeld(pools) - others
  BY DEF FreeMemory
<1>4. free \in Int /\ free <= DeviceMemory
  BY <1>1, <1>2, <1>3
<1>5. ASSUME PlanBatchSize(free, cost) # 0, n > 1
      PROVE  PlanBatchSize(free, cost) = PlanBatchSize(DeviceMemory, cost)
  <2>1. f \in Int /\ f <= Share /\ f <= free
    BY <1>1, <1>4 DEF Smaller
  <2>2. PlanBatchSize(free, cost) = SelectBatchSize(f, cost, ExplicitBatch)
    BY <1>1, <1>5 DEF PlanBatchSize
  <2> HIDE DEF f
  <2>3. MemoryBatchLimit(f, cost) > 0
    <3>1. SelectBatchSize(f, cost, ExplicitBatch) \in Nat
      BY <1>1, <2>1, SelectTyped, Zenon
    <3>2. SelectBatchSize(f, cost, ExplicitBatch) <= MemoryBatchLimit(f, cost)
      BY <1>1, <2>1, SelectBounds
    <3>3. MemoryBatchLimit(f, cost) \in Nat
      BY <1>1, <2>1, LimitBounds
    <3> QED  BY <1>5, <2>2, <3>1, <3>2, <3>3
  <2>4. f > 0
    <3>1. f > EffectiveReserve(f) /\ EffectiveReserve(f) \in Nat
      BY <1>1, <2>1, <2>3, LimitBounds, ReserveBounds
    <3> QED  BY <2>1, <3>1
  <2>5. Share > 0
    BY <1>1, <2>1, <2>4
  <2>6. DeviceMemory - DeviceHeadroom >= n * Share
    <3>1. n * Share > 0
      BY <1>1, <2>5
    <3> DEFINE p == n * Share
    <3>2. p \in Int /\ p > 0 /\ p <= Usable
      BY <1>1, <3>1
    <3> HIDE DEF p
    <3>3. DeviceMemory - DeviceHeadroom >= p
      BY <1>1, <3>2 DEF Usable, Larger
    <3> QED  BY <3>3 DEF p
  <2>7. free >= Share
    <3> DEFINE p == n * Share  q == (n - 1) * Share  h == PoolsHeld(pools)
    <3>1. p = q + Share /\ p \in Int /\ q \in Int
      BY <1>1
    <3>2. h \in Nat /\ h <= q /\ DeviceMemory - DeviceHeadroom >= p
          /\ free = DeviceMemory - h - others
      BY <1>2, <1>3, <2>6
    <3> HIDE DEF p, q, h
    <3> QED  BY <1>1, <1>3, <3>1, <3>2
  <2>8. Smaller(free, Share) = Share /\ Smaller(DeviceMemory, Share) = Share
    BY <1>1, <1>4, <2>7 DEF Smaller
  <2> QED  BY <1>1, <1>5, <2>8 DEF PlanBatchSize
<1> QED  BY <1>4, <1>5

-----------------------------------------------------------------------------
(* The operations on a runner. *)

AnyCost == Costs \cup {NoCost}

LEMMA CostTypes ==
  /\ AnyCost \subseteq Nat /\ NoCost \in AnyCost /\ NoCost \notin Costs /\ Costs \subseteq AnyCost
  /\ \A c \in AnyCost : SegmentBlocks(c) \in Nat
  /\ Garbage \in Contents /\ NoPool \in Runners
<1>1. AnyCost \subseteq Nat /\ NoCost \in AnyCost /\ NoCost \notin Costs /\ Costs \subseteq AnyCost
  BY MiningAssumption DEF AnyCost, NoCost
<1>2. \A c \in Nat : SegmentBlocks(c) \in Nat
  BY DEF SegmentBlocks, Larger
<1>3. Garbage \in Contents
  BY DEF Garbage, Contents
<1>4. NoPool \in Runners
  BY <1>1, <1>3 DEF NoPool, Runners, AnyCost
<1> QED  BY <1>1, <1>2, <1>3, <1>4

\* An operation that leaves the pool as it is.
SameShape(q, r) == q.batch = r.batch /\ q.cost = r.cost /\ q.allocated = r.allocated

LEMMA RunnerOperations ==
  ASSUME NEW r \in Runners
  PROVE  /\ Aged(r) \in Runners /\ SameShape(Aged(r), r) /\ Aged(r).copying = r.copying
         /\ QueueRun(r) \in Runners /\ SameShape(QueueRun(r), r)
         /\ QueueRun(r).memory = FirstBlocks(r)
         /\ Finish(r) \in Runners /\ SameShape(Finish(r), r) /\ ~Finish(r).copying
         /\ Finish(r).out = r.memory
  <1>1. Aged(r) \in Runners /\ SameShape(Aged(r), r) /\ Aged(r).copying = r.copying
    BY CostTypes DEF Aged, Runners, SameShape
  <1>2. FirstBlocks(r) \in Contents
    BY DEF FirstBlocks, Runners, Contents
  <1>3. /\ QueueRun(r) \in Runners /\ SameShape(QueueRun(r), r)
        /\ QueueRun(r).memory = FirstBlocks(r)
    BY <1>2, CostTypes DEF QueueRun, Runners, SameShape, AnyCost
  <1>4. /\ Finish(r) \in Runners /\ SameShape(Finish(r), r) /\ ~Finish(r).copying
        /\ Finish(r).out = r.memory
    BY DEF Finish, Runners, SameShape
  <1> QED  BY <1>1, <1>3, <1>4

\* Both ways of staging give the run the first blocks of this salt at this cost.
LEMMA Staging ==
  ASSUME NEW r \in Runners, NEW salt \in Salts, NEW cost \in Costs
  PROVE  LET q == PrepareOnDevice(r, salt, cost)
             h == FillOnHost(r, salt, cost)
         IN  /\ q \in Runners /\ SameShape(q, r) /\ q.copying = r.copying
             /\ FirstBlocks(q) = [salt |-> salt, cost |-> cost]
             /\ h \in Runners /\ SameShape(h, r) /\ h.copying = r.copying
             /\ r.pending = NoCost => FirstBlocks(h) = [salt |-> salt, cost |-> cost]
<1> DEFINE q == PrepareOnDevice(r, salt, cost)
           h == FillOnHost(r, salt, cost)
           k == [salt |-> salt, cost |-> NoCost]
<1>1. q \in Runners /\ SameShape(q, r) /\ q.copying = r.copying /\ q.keys = k /\ q.pending = cost
  BY CostTypes DEF PrepareOnDevice, Runners, SameShape, Contents
<1>2. FirstBlocks(q) = [salt |-> salt, cost |-> cost]
  <2>1. FirstBlocks(q) = [k EXCEPT !.cost = cost]
    BY <1>1, CostTypes DEF FirstBlocks
  <2> QED  BY <2>1
<1>3. /\ h \in Runners /\ SameShape(h, r) /\ h.copying = r.copying
      /\ h.blocksIn = [salt |-> salt, cost |-> cost] /\ h.pending = r.pending
  BY DEF FillOnHost, Runners, SameShape, Contents
<1>4. r.pending = NoCost => FirstBlocks(h) = [salt |-> salt, cost |-> cost]
  BY <1>3 DEF FirstBlocks
<1> QED  BY <1>1, <1>2, <1>3, <1>4

\* init reuses a pool that is large enough or allocates one of exactly the batch.
LEMMA Initialised ==
  ASSUME NEW r \in Runners, NEW cost \in Costs, NEW batch \in Nat
  PROVE  /\ BackendInit(r, cost, batch) \in Runners
         /\ BackendInit(r, cost, batch).cost = cost
         /\ BackendInit(r, cost, batch).batch = batch
         /\ BackendInit(r, cost, batch).pending = NoCost
         /\ ~r.copying => ~BackendInit(r, cost, batch).copying
         /\ \/ BackendInit(r, cost, batch).allocated = SegmentBlocks(cost)
            \/ /\ BackendInit(r, cost, batch).allocated = r.allocated /\ r.batch = batch
               /\ SegmentBlocks(cost) <= r.allocated
<1> DEFINE q == BackendInit(r, cost, batch)
<1>1. SegmentBlocks(cost) \in Nat /\ cost \in AnyCost
  BY CostTypes
<1>2. CASE r # NoPool /\ CanReuse(r, cost, batch)
  <2>1. q = Reconfigure(r, cost, batch)
    BY <1>2 DEF BackendInit
  <2> HIDE DEF q
  <2>2. /\ q \in Runners /\ q.cost = cost /\ q.batch = batch /\ q.pending = NoCost
        /\ q.copying = r.copying /\ q.allocated = r.allocated
    BY <1>1, <2>1, CostTypes DEF Reconfigure, Runners, AnyCost
  <2>3. (~r.copying => ~q.copying) /\ r.batch = batch /\ SegmentBlocks(cost) <= r.allocated
    BY <1>2, <2>2 DEF CanReuse
  <2> QED  BY <2>2, <2>3 DEF q
<1>3. CASE ~(r # NoPool /\ CanReuse(r, cost, batch))
  <2>1. q = RunnerNew(cost, batch)
    BY <1>3 DEF BackendInit
  <2> HIDE DEF q
  <2>2. /\ q \in Runners /\ q.cost = cost /\ q.batch = batch /\ q.pending = NoCost
        /\ ~q.copying /\ q.allocated = SegmentBlocks(cost)
    BY <1>1, <2>1, CostTypes DEF RunnerNew, NoPool, Runners, AnyCost
  <2> QED  BY <2>2 DEF q
<1> QED  BY <1>2, <1>3


-----------------------------------------------------------------------------
(* The steps of the streams. *)

SeenCosts == NetworkCosts \cup {NoCost}

\* Stream s moves to stage p with difficulty d, unit u and runner r.
Moves(s, p, d, u, r) ==
  /\ pc' = [pc EXCEPT ![s] = p] /\ seen' = [seen EXCEPT ![s] = d]
  /\ unit' = [unit EXCEPT ![s] = u] /\ runner' = [runner EXCEPT ![s] = r]
  /\ UNCHANGED shared

LEMMA MoveKeeps ==
  ASSUME Genuine, NEW s \in Streams, NEW p \in Stages, NEW d \in SeenCosts, NEW u \in Units,
         NEW r \in Runners, Moves(s, p, d, u, r), CarriesAt(p, d, u, r), genuine'
  PROVE  Genuine'
<1>1. TypeOK'
  BY DEF Genuine, TypeOK, Moves, shared, SeenCosts
<1>2. ASSUME NEW v \in Streams PROVE Carries(v)'
  <2>1. CASE v = s
    <3>1. pc'[v] = p /\ seen'[v] = d /\ unit'[v] = u /\ runner'[v] = r
      BY <2>1 DEF Genuine, TypeOK, Moves
    <3> QED  BY <3>1 DEF Carries
  <2>2. CASE v # s
    <3>1. pc'[v] = pc[v] /\ seen'[v] = seen[v] /\ unit'[v] = unit[v] /\ runner'[v] = runner[v]
      BY <2>2 DEF Genuine, TypeOK, Moves
    <3> QED  BY <3>1 DEF Carries, Genuine
  <2> QED  BY <2>1, <2>2
<1> QED  BY <1>1, <1>2 DEF Genuine

LEMMA MoveFits ==
  ASSUME TypeOK, Safe, NEW s \in Streams, NEW p, NEW d, NEW u, NEW r,
         Moves(s, p, d, u, r), FitsAt(p, u, r)
  PROVE  Safe'
<1>1. ASSUME NEW v \in Streams PROVE Fits(v)'
  <2>1. CASE v = s
    <3>1. pc'[v] = p /\ unit'[v] = u /\ runner'[v] = r
      BY <2>1 DEF TypeOK, Moves
    <3> QED  BY <3>1 DEF Fits
  <2>2. CASE v # s
    <3>1. pc'[v] = pc[v] /\ unit'[v] = unit[v] /\ runner'[v] = runner[v]
      BY <2>2 DEF TypeOK, Moves
    <3> QED  BY <3>1 DEF Fits, Safe
  <2> QED  BY <2>1, <2>2
<1> QED  BY <1>1 DEF Safe

\* The parts of the state a step of s starts from.
LEMMA StreamTyped ==
  ASSUME Genuine, NEW s \in Streams
  PROVE  /\ pc[s] \in Stages /\ seen[s] \in SeenCosts /\ unit[s] \in Units
         /\ runner[s] \in Runners /\ Carries(s) /\ genuine
         /\ pc = [pc EXCEPT ![s] = pc[s]] /\ seen = [seen EXCEPT ![s] = seen[s]]
         /\ unit = [unit EXCEPT ![s] = unit[s]] /\ runner = [runner EXCEPT ![s] = runner[s]]
         /\ difficulty \in NetworkCosts /\ margin \in Margins /\ identity \in Salts
         /\ verified \in BOOLEAN
  BY DEF Genuine, TypeOK, SeenCosts

LEMMA UnitTypes ==
  /\ NoUnit \in Units /\ NoCost \in SeenCosts
  /\ \A u \in Units, c \in AnyCost : [NoUnit EXCEPT !.cost = c] \in Units
                                     /\ [NoUnit EXCEPT !.cost = c].cost = c
  /\ \A u \in Units, b \in Nat : /\ [u EXCEPT !.batch = b] \in Units
                                 /\ [u EXCEPT !.batch = b].cost = u.cost
                                 /\ [u EXCEPT !.batch = b].batch = b
  /\ \A u \in Units, x \in Salts \cup {Nobody} :
       /\ [u EXCEPT !.salt = x] \in Units /\ [u EXCEPT !.salt = x].salt = x
       /\ [u EXCEPT !.salt = x].cost = u.cost /\ [u EXCEPT !.salt = x].batch = u.batch
  BY CostTypes DEF Units, NoUnit, SeenCosts, AnyCost

\* Outside a batch nothing is asked of the buffers.
LEMMA Resting ==
  ASSUME NEW p \in {"outer", "backoff", "done"}, NEW d, NEW u, NEW r
  PROVE  /\ CarriesAt(p, d, u, r)
         /\ InsidePool(r) /\ Held(r) <= Share => FitsAt(p, u, r)
  BY DEF CarriesAt, FitsAt, SizedStages, BatchStages

LEMMA NoPoolFits == InsidePool(NoPool) /\ Held(NoPool) = 0 /\ Held(NoPool) <= Share
<1>1. NoPool.batch = 0 /\ NoPool.allocated = 0 /\ NoPool.cost = NoCost
  BY DEF NoPool
<1>2. JobBlocks(NoCost) = 8
  BY DEF JobBlocks, SegmentBlocks, Larger, NoCost
<1> QED  BY <1>1, <1>2, Shares DEF InsidePool, Held, PoolSize

\* A pool of the same shape fits where the old one did.
LEMMA SameShapeFits ==
  ASSUME NEW q, NEW r, SameShape(q, r), InsidePool(r), Held(r) <= Share
  PROVE  InsidePool(q) /\ Held(q) <= Share
  BY DEF SameShape, InsidePool, Held

\* The pool a batch begins with.
LEMMA InitFits ==
  ASSUME NEW r \in Runners, NEW cost \in Costs, NEW batch \in Nat, Held(r) <= Share,
         PoolSize(batch, cost) <= Share
  PROVE  InsidePool(BackendInit(r, cost, batch)) /\ Held(BackendInit(r, cost, batch)) <= Share
<1> DEFINE q == BackendInit(r, cost, batch)
<1> DEFINE k == SegmentBlocks(cost)
<1>1. k \in Nat /\ r.allocated \in Nat /\ r.batch \in Nat
  BY CostTypes DEF Runners
<1>2. q.cost = cost /\ q.batch = batch
      /\ (q.allocated = k \/ (q.allocated = r.allocated /\ r.batch = batch /\ k <= r.allocated))
  BY Initialised
<1> SUFFICES InsidePool(q) /\ Held(q) <= Share
  OBVIOUS
<1> HIDE DEF q
<1>3. PoolSize(q.batch, q.cost) = batch * (4 * k)
  BY <1>2 DEF PoolSize, JobBlocks
<1>4. CASE q.allocated = k
  <2>1. Held(q) = batch * (4 * k)
    <3> HIDE DEF k
    <3>1. Held(q) = batch * 4 * k
      BY <1>2, <1>4 DEF Held
    <3> QED  BY <1>1, <3>1
  <2>2. PoolSize(batch, cost) = batch * (4 * k)
    BY DEF PoolSize, JobBlocks
  <2>3. batch * (4 * k) \in Nat
    <3> HIDE DEF k
    <3> QED  BY <1>1
  <2> QED  BY <1>3, <2>1, <2>2, <2>3 DEF InsidePool
<1>5. CASE q.allocated = r.allocated /\ r.batch = batch /\ k <= r.allocated
  <2>1. Held(q) = Held(r)
    BY <1>2, <1>5 DEF Held
  <2>2. batch * (4 * k) <= batch * 4 * q.allocated
    <3> DEFINE a == q.allocated
    <3>1. a \in Nat /\ k <= a
      BY <1>1, <1>5
    <3> HIDE DEF a, k
    <3>2. k * (4 * batch) <= a * (4 * batch)
      BY <1>1, <3>1, TimesMonotonic
    <3>3. batch * (4 * k) <= batch * 4 * a
      BY <1>1, <3>1, <3>2
    <3> QED  BY <3>3 DEF a
  <2>3. Held(q) = batch * 4 * q.allocated
    BY <1>2 DEF Held
  <2> HIDE DEF k
  <2> QED  BY <1>3, <2>1, <2>2, <2>3 DEF InsidePool
<1> QED  BY <1>2, <1>4, <1>5
-----------------------------------------------------------------------------
(* Every step of a stream is a move that keeps both invariants. *)

Kept == Genuine' /\ (RoomAssumption /\ Safe => Safe')

LEMMA MoveKept ==
  ASSUME Genuine, NEW s \in Streams, NEW p \in Stages, NEW d \in SeenCosts, NEW u \in Units,
         NEW r \in Runners, Moves(s, p, d, u, r), CarriesAt(p, d, u, r), genuine',
         RoomAssumption /\ Safe => FitsAt(p, u, r)
  PROVE  Kept
<1>1. Genuine'
  BY MoveKeeps
<1>2. ASSUME RoomAssumption, Safe PROVE Safe'
  BY <1>2, MoveFits DEF Genuine
<1> QED  BY <1>1, <1>2 DEF Kept

\* A stream that rests keeps its pool or has none.
LEMMA RestKept ==
  ASSUME Genuine, NEW s \in Streams, NEW p \in {"outer", "backoff", "done"},
         NEW d \in SeenCosts, NEW u \in Units, NEW r \in Runners, Moves(s, p, d, u, r), genuine',
         r = NoPool \/ SameShape(r, runner[s])
  PROVE  Kept
<1>1. p \in Stages /\ CarriesAt(p, d, u, r)
  BY Resting DEF Stages
<1>2. ASSUME RoomAssumption, Safe PROVE FitsAt(p, u, r)
  <2>1. InsidePool(runner[s]) /\ Held(runner[s]) <= Share
    BY <1>2 DEF Safe, Fits, FitsAt
  <2>2. InsidePool(r) /\ Held(r) <= Share
    BY <2>1, NoPoolFits, SameShapeFits
  <2> QED  BY <2>2, Resting
<1> QED  BY <1>1, <1>2, MoveKept

LEMMA OuterKept ==
  ASSUME Genuine, NEW s \in Streams, Outer(s) PROVE Kept
<1> USE StreamTyped
<1>1. CASE running
  <2>1. Moves(s, "margin", difficulty, unit[s], runner[s]) /\ genuine'
    BY <1>1 DEF Outer, Moves, Goto
  <2>2. CarriesAt("margin", difficulty, unit[s], runner[s])
    BY DEF CarriesAt, SizedStages, BatchStages
  <2>3. ASSUME Safe PROVE FitsAt("margin", unit[s], runner[s])
    BY <2>3 DEF Safe, Fits, FitsAt, SizedStages
  <2>4. "margin" \in Stages /\ difficulty \in SeenCosts
    BY DEF Stages, SeenCosts
  <2> QED  BY <2>1, <2>2, <2>3, <2>4, MoveKept
<1>2. CASE ~running
  <2>1. Moves(s, "done", seen[s], unit[s], runner[s]) /\ genuine'
    BY <1>2 DEF Outer, Moves, Goto
  <2> QED  BY <2>1, RestKept DEF SameShape
<1> QED  BY <1>1, <1>2

LEMMA ReadMarginKept ==
  ASSUME Genuine, NEW s \in Streams, ReadMargin(s) PROVE Kept
<1> USE StreamTyped
<1> DEFINE c == Effective(seen[s], margin)
           u == [NoUnit EXCEPT !.cost = c]
<1>1. Moves(s, "plan", NoCost, u, runner[s]) /\ genuine' /\ pc[s] = "margin"
  BY DEF ReadMargin, Moves, Goto
<1>2. seen[s] \in NetworkCosts
  BY <1>1 DEF Carries, CarriesAt
<1>3. c \in Costs
  BY <1>2, MiningAssumption
<1>4. u \in Units /\ u.cost = c
  <2> HIDE DEF c
  <2> QED  BY <1>3, UnitTypes, CostTypes
<1> HIDE DEF c, u
<1>5. CarriesAt("plan", NoCost, u, runner[s])
  BY <1>3, <1>4 DEF CarriesAt, SizedStages, BatchStages
<1>6. ASSUME Safe PROVE FitsAt("plan", u, runner[s])
  BY <1>6 DEF Safe, Fits, FitsAt, SizedStages
<1>7. "plan" \in Stages /\ NoCost \in SeenCosts
  BY UnitTypes DEF Stages
<1> QED  BY <1>1, <1>4, <1>5, <1>6, <1>7, MoveKept

LEMMA HeldTyped ==
  ASSUME NEW r \in Runners PROVE Held(r) \in Nat
<1>1. r.batch \in Nat /\ r.allocated \in Nat
  BY DEF Runners
<1> QED  BY <1>1 DEF Held

\* What a measurement reports is a number, however large the pools are.
LEMMA PoolsCounted ==
  ASSUME NEW pools, \A u \in Streams : pools[u] \in Runners
  PROVE  PoolsHeld(pools) \in Nat
<1> DEFINE f == [u \in Streams |-> {u} \X (1..Held(pools[u]))]
           parts == {{u} \X (1..Held(pools[u])) : u \in Streams}
<1>1. ASSUME NEW u \in Streams PROVE IsFiniteSet({u} \X (1..Held(pools[u])))
  <2>1. Held(pools[u]) \in Nat
    BY HeldTyped
  <2>2. IsFiniteSet(1..Held(pools[u]))
    BY <2>1, FS_Interval
  <2>3. IsFiniteSet({u})
    BY FS_Singleton, Zenon
  <2> QED  BY <2>2, <2>3, FS_Product
<1>2. IsFiniteSet(parts)
  <2>1. f \in Surjection(Streams, parts)
    BY DEF Surjection
  <2> QED  BY <2>1, MiningAssumption, FS_Surjection
<1>3. IsFiniteSet(UNION parts)
  BY <1>1, <1>2, FS_UNION
<1> QED  BY <1>3, FS_CardinalityType DEF PoolsHeld

LEMMA PlanKept ==
  ASSUME Genuine, NEW s \in Streams, Plan(s) PROVE Kept
<1> USE StreamTyped
<1>1. /\ pc[s] = "plan" /\ runner' = [runner EXCEPT ![s] = NoPool] /\ genuine'
      /\ UNCHANGED <<shared, seen>>
  BY DEF Plan, Released
<1>2. PICK free \in FreeMemory(runner') :
        IF PlanBatchSize(free, unit[s].cost) = 0
        THEN Exit(s, "backoff")
        ELSE /\ unit' = [unit EXCEPT ![s].batch = PlanBatchSize(free, unit[s].cost)]
             /\ Goto(s, "loop")
  BY DEF Plan
<1> DEFINE c == unit[s].cost
           batch == PlanBatchSize(free, c)
           u == [unit[s] EXCEPT !.batch = batch]
<1>3. CASE batch = 0
  <2>1. Moves(s, "backoff", seen[s], NoUnit, NoPool)
    BY <1>1, <1>2, <1>3 DEF Moves, Exit, Goto
  <2> QED  BY <1>1, <2>1, RestKept, UnitTypes, CostTypes
<1>4. CASE batch # 0
  <2>1. Moves(s, "loop", seen[s], u, NoPool)
    BY <1>1, <1>2, <1>4 DEF Moves, Goto
  <2>2. c \in Costs
    BY <1>1 DEF Carries, CarriesAt
  <2>3. \A v \in Streams : runner'[v] \in Runners /\ (v # s => runner'[v] = runner[v])
    BY <1>1, CostTypes DEF Genuine, TypeOK
  <2>4. runner'[s] = NoPool
    BY <1>1 DEF Genuine, TypeOK
  <2>5. free \in Int
    <3>1. PoolsHeld(runner') \in Nat /\ DeviceMemory \in Nat /\ DeviceHeadroom \in Nat
      BY <2>3, PoolsCounted, MiningAssumption
    <3> QED  BY <3>1 DEF FreeMemory
  <2>6. batch \in Nat
    <3>1. c \in Nat \ {0} /\ ExplicitBatch \in Nat
      BY <2>2, MiningAssumption DEF NoCost
    <3>2. (IF Cardinality(Streams) <= 1 THEN free ELSE Smaller(free, Share)) \in Int
      BY <2>5, Shares DEF Smaller
    <3> HIDE DEF c
    <3> QED  BY <3>1, <3>2, SelectTyped, Zenon DEF PlanBatchSize
  <2>7. u \in Units /\ u.cost = c /\ u.batch = batch
    <3> HIDE DEF batch
    <3> QED  BY <2>6, UnitTypes
  <2> HIDE DEF u
  <2>8. CarriesAt("loop", seen[s], u, NoPool)
    BY <2>2, <2>7 DEF CarriesAt, SizedStages, BatchStages
  <2>9. ASSUME RoomAssumption, Safe PROVE FitsAt("loop", u, NoPool)
    <3>1. \A v \in Streams : Held(runner'[v]) \in Nat /\ Held(runner'[v]) <= Share
      <4>1. \A v \in Streams : Held(runner[v]) <= Share
        BY <2>9 DEF Safe, Fits, FitsAt
      <4> QED  BY <2>3, <2>4, <4>1, HeldTyped, NoPoolFits
    <3>2. Held(runner'[s]) = 0
      BY <2>4, NoPoolFits
    <3>3. /\ free <= DeviceMemory
          /\ Cardinality(Streams) > 1 => batch = PlanBatchSize(DeviceMemory, c)
      BY <1>4, <2>2, <3>1, <3>2, PlanIsFair
    <3>4. PoolSize(batch, c) <= Share
      BY <1>4, <2>2, <2>5, <2>9, <3>3, PlanFits
    <3>5. ~NoPool.copying
      BY DEF NoPool
    <3> HIDE DEF c, batch
    <3> QED  BY <2>7, <3>3, <3>4, <3>5, NoPoolFits DEF FitsAt, SizedStages
  <2>10. "loop" \in Stages /\ NoPool \in Runners
    BY CostTypes DEF Stages
  <2> QED  BY <1>1, <2>1, <2>7, <2>8, <2>9, <2>10, MoveKept
<1> QED  BY <1>3, <1>4

LEMMA PlanFailsKept ==
  ASSUME Genuine, NEW s \in Streams, PlanFails(s) PROVE Kept
<1>1. Moves(s, "backoff", seen[s], NoUnit, NoPool) /\ genuine'
  BY StreamTyped DEF PlanFails, Released, Moves, Exit, Goto
<1> QED  BY <1>1, RestKept, UnitTypes, CostTypes, StreamTyped

LEMMA LoopHeadKept ==
  ASSUME Genuine, NEW s \in Streams, LoopHead(s) PROVE Kept
<1> USE StreamTyped
<1>1. CASE running
  <2>1. Moves(s, "compare", difficulty, unit[s], runner[s]) /\ genuine' /\ pc[s] = "loop"
    BY <1>1 DEF LoopHead, Moves, Goto
  <2>2. CarriesAt("compare", difficulty, unit[s], runner[s])
    BY <2>1 DEF Carries, CarriesAt, SizedStages, BatchStages
  <2>3. ASSUME Safe PROVE FitsAt("compare", unit[s], runner[s])
    BY <2>1, <2>3 DEF Safe, Fits, FitsAt, SizedStages
  <2>4. "compare" \in Stages /\ difficulty \in SeenCosts
    BY DEF Stages, SeenCosts
  <2> QED  BY <2>1, <2>2, <2>3, <2>4, MoveKept
<1>2. CASE ~running
  <2>1. Moves(s, "outer", seen[s], NoUnit, runner[s]) /\ genuine'
    BY <1>2 DEF LoopHead, Moves, Goto, Exit
  <2> QED  BY <2>1, RestKept, UnitTypes DEF SameShape
<1> QED  BY <1>1, <1>2

LEMMA CompareKept ==
  ASSUME Genuine, NEW s \in Streams, Compare(s) PROVE Kept
<1> USE StreamTyped, UnitTypes
<1>1. CASE CostMoved(s)
  <2>1. Moves(s, "outer", NoCost, NoUnit, runner[s]) /\ genuine'
    BY <1>1 DEF Compare, Moves, Goto, Exit
  <2> QED  BY <2>1, RestKept DEF SameShape
<1>2. CASE ~CostMoved(s)
  <2>1. Moves(s, "begin", NoCost, unit[s], runner[s]) /\ genuine' /\ pc[s] = "compare"
    BY <1>2 DEF Compare, Moves, Goto
  <2>2. CarriesAt("begin", NoCost, unit[s], runner[s])
    BY <2>1 DEF Carries, CarriesAt, SizedStages, BatchStages
  <2>3. ASSUME Safe PROVE FitsAt("begin", unit[s], runner[s])
    BY <2>1, <2>3 DEF Safe, Fits, FitsAt, SizedStages
  <2>4. "begin" \in Stages
    BY DEF Stages
  <2> QED  BY <2>1, <2>2, <2>3, <2>4, MoveKept
<1> QED  BY <1>1, <1>2

LEMMA IdleKept ==
  ASSUME Genuine, NEW s \in Streams, Idle(s) PROVE Kept
<1> USE StreamTyped
<1>1. Moves(s, "loop", seen[s], unit[s], runner[s]) /\ genuine' /\ pc[s] = "begin"
  BY DEF Idle, Moves, Goto
<1>2. CarriesAt("loop", seen[s], unit[s], runner[s])
  BY <1>1 DEF Carries, CarriesAt, SizedStages, BatchStages
<1>3. ASSUME Safe PROVE FitsAt("loop", unit[s], runner[s])
  BY <1>1, <1>3 DEF Safe, Fits, FitsAt, SizedStages
<1>4. "loop" \in Stages
  BY DEF Stages
<1> QED  BY <1>1, <1>2, <1>3, <1>4, MoveKept

LEMMA BeginKept ==
  ASSUME Genuine, NEW s \in Streams, Begin(s) PROVE Kept
<1> USE StreamTyped
<1> DEFINE c == unit[s].cost
           b == unit[s].batch
           u == [unit[s] EXCEPT !.salt = identity]
           q == BackendInit(runner[s], c, b)
<1>1. Moves(s, "stage", seen[s], u, q) /\ genuine' /\ pc[s] = "begin"
  BY DEF Begin, Moves, Goto
<1>2. c \in Costs
  BY <1>1 DEF Carries, CarriesAt, SizedStages
<1>3. b \in Nat
  BY DEF Units
<1>4. u \in Units /\ u.cost = c /\ u.batch = b /\ u.salt \in Salts
  BY UnitTypes
<1> HIDE DEF c, b, u
<1>5. /\ q \in Runners /\ q.cost = c /\ q.pending = NoCost
      /\ ~runner[s].copying => ~q.copying
  <2>1. runner[s] \in Runners
    OBVIOUS
  <2> QED  BY <1>2, <1>3, <2>1, Initialised
<1>6. CarriesAt("stage", seen[s], u, q)
  <2> HIDE DEF q
  <2> QED  BY <1>2, <1>4, <1>5 DEF CarriesAt, SizedStages, BatchStages
<1>7. ASSUME Safe PROVE FitsAt("stage", u, q)
  <2>1. /\ Held(runner[s]) <= Share /\ ~runner[s].copying /\ PoolSize(b, c) <= Share
        /\ Cardinality(Streams) > 1 => b = PlanBatchSize(DeviceMemory, c)
    BY <1>1, <1>7 DEF Safe, Fits, FitsAt, SizedStages, b, c
  <2>2. InsidePool(q) /\ Held(q) <= Share
    BY <1>2, <1>3, <2>1, InitFits, Zenon
  <2> HIDE DEF q
  <2> QED  BY <1>4, <1>5, <2>1, <2>2 DEF FitsAt, SizedStages
<1>8. "stage" \in Stages
  BY DEF Stages
<1> HIDE DEF q
<1> QED  BY <1>1, <1>4, <1>5, <1>6, <1>7, <1>8, MoveKept

LEMMA InitFailsKept ==
  ASSUME Genuine, NEW s \in Streams, InitFails(s) PROVE Kept
<1>1. Moves(s, "backoff", seen[s], NoUnit, NoPool) /\ genuine'
  BY StreamTyped DEF InitFails, Released, Moves, Exit, Goto
<1> QED  BY <1>1, RestKept, UnitTypes, CostTypes, StreamTyped

LEMMA StageKept ==
  ASSUME Genuine, NEW s \in Streams, Stage(s) PROVE Kept
<1> USE StreamTyped
<1> DEFINE u == unit[s]
           r == runner[s]
           q == IF verified THEN PrepareOnDevice(r, u.salt, u.cost)
                            ELSE FillOnHost(r, u.salt, u.cost)
<1>1. Moves(s, "run", seen[s], u, q) /\ genuine' /\ pc[s] = "stage"
  BY DEF Stage, Moves, Goto
<1>2. u.cost \in Costs /\ u.salt \in Salts /\ r.cost = u.cost /\ r.pending = NoCost
  BY <1>1 DEF Carries, CarriesAt, SizedStages, BatchStages
<1>3. /\ q \in Runners /\ SameShape(q, r) /\ q.copying = r.copying
      /\ FirstBlocks(q) = [salt |-> u.salt, cost |-> u.cost]
  <2> HIDE DEF u, r
  <2>0. r \in Runners
    BY DEF r
  <2>1. LET d == PrepareOnDevice(r, u.salt, u.cost)
            h == FillOnHost(r, u.salt, u.cost)
        IN  /\ d \in Runners /\ SameShape(d, r) /\ d.copying = r.copying
            /\ FirstBlocks(d) = [salt |-> u.salt, cost |-> u.cost]
            /\ h \in Runners /\ SameShape(h, r) /\ h.copying = r.copying
            /\ r.pending = NoCost => FirstBlocks(h) = [salt |-> u.salt, cost |-> u.cost]
    BY <1>2, <2>0, Staging, Zenon
  <2> QED  BY <1>2, <2>1, Zenon
<1> HIDE DEF q
<1>4. CarriesAt("run", seen[s], u, q)
  BY <1>2, <1>3 DEF CarriesAt, SizedStages, BatchStages, SameShape
<1>5. ASSUME Safe PROVE FitsAt("run", u, q)
  <2>1. InsidePool(r) /\ Held(r) <= Share
    BY <1>5 DEF Safe, Fits, FitsAt
  <2>2. InsidePool(q) /\ Held(q) <= Share
    BY <1>3, <2>1, SameShapeFits
  <2> QED  BY <1>1, <1>5, <2>2 DEF Safe, Fits, FitsAt, SizedStages
<1>6. "run" \in Stages
  BY DEF Stages
<1> QED  BY <1>1, <1>3, <1>4, <1>5, <1>6, MoveKept

LEMMA RunKept ==
  ASSUME Genuine, NEW s \in Streams, Run(s) PROVE Kept
<1> USE StreamTyped
<1> DEFINE u == unit[s]
           q == QueueRun(runner[s])
<1>1. Moves(s, "finish", seen[s], u, q) /\ genuine' /\ pc[s] = "run"
  BY DEF Run, Moves, Goto
<1>2. /\ u.cost \in Costs /\ u.salt \in Salts /\ runner[s].cost = u.cost
      /\ FirstBlocks(runner[s]) = [salt |-> u.salt, cost |-> u.cost]
  BY <1>1 DEF Carries, CarriesAt, SizedStages, BatchStages
<1>3. q \in Runners /\ SameShape(q, runner[s]) /\ q.memory = FirstBlocks(runner[s])
  BY RunnerOperations, Zenon
<1> HIDE DEF q
<1>4. CarriesAt("finish", seen[s], u, q)
  BY <1>2, <1>3 DEF CarriesAt, SizedStages, BatchStages, SameShape
<1>5. ASSUME Safe PROVE FitsAt("finish", u, q)
  <2>1. InsidePool(runner[s]) /\ Held(runner[s]) <= Share
    BY <1>5 DEF Safe, Fits, FitsAt
  <2>2. InsidePool(q) /\ Held(q) <= Share
    BY <1>3, <2>1, SameShapeFits
  <2> QED  BY <1>1, <1>5, <2>2 DEF Safe, Fits, FitsAt, SizedStages
<1>6. "finish" \in Stages
  BY DEF Stages
<1> QED  BY <1>1, <1>3, <1>4, <1>5, <1>6, MoveKept

LEMMA BatchFailsKept ==
  ASSUME Genuine, NEW s \in Streams, BatchFails(s) PROVE Kept
<1> USE StreamTyped
<1> DEFINE r == runner[s]
           t == IF pc[s] = "run" THEN QueueRun(r) ELSE r
           q == Aged(t)
<1>1. Moves(s, "backoff", seen[s], NoUnit, q) /\ genuine'
  BY DEF BatchFails, AfterFailure, Exit, Moves, Goto
<1>2. t \in Runners /\ SameShape(t, r)
  <2>1. QueueRun(r) \in Runners /\ SameShape(QueueRun(r), r) /\ SameShape(r, r)
    BY RunnerOperations, Zenon DEF SameShape
  <2> QED  BY <2>1
<1>3. q \in Runners /\ SameShape(q, t)
  <2> HIDE DEF t
  <2> QED  BY <1>2, RunnerOperations, Zenon
<1>4. SameShape(q, r)
  <2> HIDE DEF t, q
  <2> QED  BY <1>2, <1>3 DEF SameShape
<1> HIDE DEF q
<1> QED  BY <1>1, <1>3, <1>4, RestKept, UnitTypes

LEMMA EndBatchKept ==
  ASSUME Genuine, NEW s \in Streams, EndBatch(s) PROVE Kept
<1> USE StreamTyped
<1> DEFINE r == runner[s]
           f == Finish(r)
           q == Aged(f)
           u == [unit[s] EXCEPT !.salt = Nobody]
<1>1. Moves(s, "loop", seen[s], u, q) /\ pc[s] = "finish"
  BY DEF EndBatch, Moves, Goto
<1>2. /\ unit[s].cost \in Costs /\ r.cost = unit[s].cost
      /\ r.memory = [salt |-> unit[s].salt, cost |-> unit[s].cost]
  BY <1>1 DEF Carries, CarriesAt, SizedStages, BatchStages
<1>3. f \in Runners /\ SameShape(f, r) /\ ~f.copying /\ f.out = r.memory
  BY RunnerOperations, Zenon
<1>4. q \in Runners /\ SameShape(q, f) /\ q.copying = f.copying
  <2> HIDE DEF f
  <2> QED  BY <1>3, RunnerOperations, Zenon
<1>5. genuine'
  <2>1. DigestIsOf(f, unit[s].salt, StampedCost(s))
    <3> HIDE DEF f
    <3> QED  BY <1>2, <1>3 DEF DigestIsOf, StampedCost, SameShape
  <2>2. genuine' = genuine \/ genuine' = (genuine /\ DigestIsOf(f, unit[s].salt, StampedCost(s)))
    BY DEF EndBatch
  <2>3. genuine
    OBVIOUS
  <2> QED  BY <2>1, <2>2, <2>3, Zenon
<1>6. u \in Units /\ u.cost = unit[s].cost /\ u.batch = unit[s].batch
  BY UnitTypes
<1> HIDE DEF u, f, q
<1>7. CarriesAt("loop", seen[s], u, q)
  BY <1>2, <1>6 DEF CarriesAt, SizedStages, BatchStages
<1>8. ASSUME Safe PROVE FitsAt("loop", u, q)
  <2>1. InsidePool(r) /\ Held(r) <= Share
    BY <1>8 DEF Safe, Fits, FitsAt
  <2>2. SameShape(q, r)
    BY <1>3, <1>4 DEF SameShape
  <2>3. InsidePool(q) /\ Held(q) <= Share
    BY <2>1, <2>2, SameShapeFits
  <2> QED  BY <1>1, <1>3, <1>4, <1>6, <1>8, <2>3 DEF Safe, Fits, FitsAt, SizedStages
<1>9. "loop" \in Stages
  BY DEF Stages
<1> QED  BY <1>1, <1>4, <1>5, <1>6, <1>7, <1>8, <1>9, MoveKept

LEMMA WakeUpKept ==
  ASSUME Genuine, NEW s \in Streams, WakeUp(s) PROVE Kept
<1>1. Moves(s, "outer", seen[s], unit[s], runner[s]) /\ genuine'
  BY StreamTyped DEF WakeUp, Moves, Goto
<1> QED  BY <1>1, RestKept, StreamTyped DEF SameShape

\* The other threads touch nothing a stream works with.
LEMMA EnvironmentKept ==
  ASSUME Genuine, Environment PROVE Kept
<1>1. UNCHANGED threads
  BY DEF Environment, SetDifficulty, SetMargin, SetPaused, SetIdentity, RequestStop
<1>2. UNCHANGED <<pc, seen, unit, runner, genuine>>
  BY <1>1 DEF threads
<1>3. TypeOK'
  <2>1. MaxMoves \in Nat
    BY MiningAssumption
  <2>2. /\ difficulty' \in NetworkCosts /\ margin' \in Margins
        /\ identity' \in Salts /\ moves' \in 0..MaxMoves
    BY <2>1 DEF Genuine, TypeOK, Environment, SetDifficulty, SetMargin, SetPaused, SetIdentity, RequestStop
  <2>3. {paused', running', verified'} \subseteq BOOLEAN
    BY <1>1, Zenon DEF Genuine, TypeOK, Environment, SetDifficulty, SetMargin, SetPaused, SetIdentity,
          RequestStop, threads
  <2> QED  BY <1>2, <2>2, <2>3 DEF Genuine, TypeOK
<1>4. Genuine' /\ (Safe => Safe')
  BY <1>2, <1>3 DEF Genuine, Safe, Carries, Fits
<1> QED  BY <1>4 DEF Kept

LEMMA NextKept ==
  ASSUME Genuine, [Next]_vars PROVE Kept
<1>1. ASSUME NEW s \in Streams, Step(s) PROVE Kept
  BY <1>1, OuterKept, ReadMarginKept, PlanKept, PlanFailsKept, LoopHeadKept, CompareKept, IdleKept,
     BeginKept, InitFailsKept, StageKept, RunKept, BatchFailsKept, EndBatchKept, WakeUpKept DEF Step
<1>2. CASE UNCHANGED vars
  <2>1. UNCHANGED <<difficulty, margin, paused, identity, running, moves, verified,
                    pc, seen, unit, runner, genuine>>
    BY <1>2 DEF vars, shared
  <2>2. Genuine' /\ (Safe => Safe')
    BY <2>1 DEF Genuine, TypeOK, Safe, Carries, Fits
  <2> QED  BY <2>2 DEF Kept
<1> QED  BY <1>1, <1>2, EnvironmentKept DEF Next

LEMMA InitKept ==
  ASSUME Init PROVE Genuine /\ Safe
<1>1. TypeOK /\ genuine
  <2>1. MaxMoves \in Nat
    BY MiningAssumption
  <2>2. 0 \in 0..MaxMoves
    BY <2>1
  <2>3. NoCost \in SeenCosts /\ NoUnit \in Units /\ NoPool \in Runners /\ "outer" \in Stages
    BY UnitTypes, CostTypes DEF Stages
  <2>4. /\ pc \in [Streams -> Stages] /\ seen \in [Streams -> SeenCosts]
        /\ unit \in [Streams -> Units] /\ runner \in [Streams -> Runners]
    BY <2>3 DEF Init
  <2>5. {paused, running, verified} \subseteq BOOLEAN /\ genuine
    BY Zenon DEF Init
  <2> QED  BY <2>2, <2>4, <2>5, MiningAssumption DEF Init, TypeOK, SeenCosts
<1>2. ASSUME NEW s \in Streams PROVE Carries(s) /\ Fits(s)
  <2>1. pc[s] = "outer" /\ runner[s] = NoPool
    BY DEF Init
  <2> QED  BY <2>1, Resting, NoPoolFits DEF Carries, Fits
<1> QED  BY <1>1, <1>2 DEF Genuine, Safe

-----------------------------------------------------------------------------
(* What holds of every run of the miner. *)

\* The mining threads keep their state well typed for any number of streams
\* (run_mining_on_device, MineUnit::run).
THEOREM MiningTypeCorrect == Spec => []TypeOK
<1>1. Init => Genuine
  BY InitKept
<1>2. Genuine /\ [Next]_vars => Genuine'
  BY NextKept DEF Kept
<1>3. Genuine => TypeOK
  BY DEF Genuine
<1> QED  BY <1>1, <1>2, <1>3, PTL DEF Spec

\* Whatever the other threads do to difficulty, margin and identity, and whatever fails on the
\* device, every find the sink gets carries the hash of its own batch at the cost and for the
\* address stamped on it (MineUnit::submit_matches).
THEOREM FindsAreGenuineTheorem == Spec => []FindsAreGenuine
<1>1. Init => Genuine
  BY InitKept
<1>2. Genuine /\ [Next]_vars => Genuine'
  BY NextKept DEF Kept
<1>3. Genuine => FindsAreGenuine
  BY DEF Genuine, FindsAreGenuine
<1> QED  BY <1>1, <1>2, <1>3, PTL DEF Spec

LEMMA SafeMeans ==
  ASSUME Genuine, Safe PROVE PoolsAreSafe
<1>1. \A s \in Streams : Held(runner[s]) \in Nat /\ Held(runner[s]) <= Share
  <2>1. \A s \in Streams : Held(runner[s]) <= Share
    BY DEF Safe, Fits, FitsAt
  <2>2. \A s \in Streams : runner[s] \in Runners
    BY DEF Genuine, TypeOK
  <2> QED  BY <2>1, <2>2, HeldTyped
<1>2. PoolsHeld(runner) <= Usable
  <2>1. PoolsHeld(runner) \in Nat /\ PoolsHeld(runner) <= Cardinality(Streams) * Share
    BY <1>1, HeldTogether
  <2> DEFINE p == Cardinality(Streams) * Share
  <2>2. p \in Int /\ p <= Usable /\ Usable \in Nat
    BY Shares
  <2>3. PoolsHeld(runner) <= p
    BY <2>1
  <2> HIDE DEF p
  <2> QED  BY <2>1, <2>2, <2>3
<1>3. \A s \in Streams : InsidePool(runner[s]) /\ (pc[s] = "stage" => ~runner[s].copying)
  BY DEF Safe, Fits, FitsAt
<1>4. NeverStarved
  BY DEF NeverStarved, Hashing, Safe, Fits, FitsAt, SizedStages
<1> QED  BY <1>2, <1>3, <1>4 DEF PoolsAreSafe

\* The pools of all streams fit the device less its headroom, every job stays inside its pool,
\* no staging buffer is refilled under a queued copy, and no stream is starved, on every device
\* with the room the code's constants reserve (MineUnit::run, plan_batch_size).
THEOREM PoolsAreSafeTheorem ==
  ASSUME RoomAssumption PROVE Spec => []PoolsAreSafe
<1>1. Init => Genuine /\ Safe
  BY InitKept
<1>2. Genuine /\ Safe /\ [Next]_vars => Genuine' /\ Safe'
  BY NextKept DEF Kept
<1>3. Genuine /\ Safe => PoolsAreSafe
  BY SafeMeans
<1> QED  BY <1>1, <1>2, <1>3, PTL DEF Spec
=============================================================================
