----------------------------- MODULE HashBatch ------------------------------
(***************************************************************************)
(* What a batch of keys becomes: keys and work (treeminer/src/mineunit.rs,  *)
(* tm-argon2/src/keygen.rs), the split of a batch over threads              *)
(* (tm-argon2/src/host.rs, tm-gpu/src/hash.rs), the matches of the GPU and  *)
(* the CPU backend (hash.rs, tm-argon2/src/cpu.rs) and the finds and        *)
(* attempt counts the mining loops make of them.                            *)
(***************************************************************************)
EXTENDS Integers, Sequences, SequencesExt, FiniteSets

CONSTANTS Hardware,             \* available_parallelism
          MinParallelFill,      \* MIN_PARALLEL_FIRST_BLOCK_ATTEMPTS
          MinParallelFinalize,  \* MIN_PARALLEL_FINALIZE_ATTEMPTS
          KeyLength,            \* KEY_LENGTH
          Burst,                \* nibbles in one random word, 16
          FeeCycle              \* DEVFEE_CYCLE

ASSUME HashBatchAssumption ==
    {Hardware, MinParallelFill, MinParallelFinalize, KeyLength, Burst, FeeCycle}
        \subseteq Nat \ {0}

Least(a, b) == IF a <= b THEN a ELSE b
CeilDiv(a, b) == (a + b - 1) \div b

-----------------------------------------------------------------------------
(* Work and keys.                                                           *)

\* select_work: whom batch number "index" of a cycle is mined for.
SelectWork(identity, index) ==
    CASE identity.prefix -> "user"
      [] ~identity.prefix /\ FeeCycle - index > identity.permillage -> "user"
      [] ~identity.prefix /\ FeeCycle - index <= identity.permillage \div 2
            /\ identity.eco -> "eco"
      [] OTHER -> "dev"

\* The batches of one cycle that are mined for "whom".
Share(identity, whom) ==
    Cardinality({i \in 0..(FeeCycle - 1) : SelectWork(identity, i) = whom})

\* next_random_key: the prefix, then bursts of nibbles until the key is full;
\* prefix characters are 0, a nibble is its place in its burst.  A prefix
\* that is too long is truncated.
NextRandomKey(prefixLength) ==
    LET Nibbles(n) == [i \in 1..n |-> i]
        Filled[left \in 0..KeyLength] ==
            IF left = 0 THEN <<>>
            ELSE Nibbles(Least(left, Burst)) \o Filled[left - Least(left, Burst)]
    IN  IF prefixLength >= KeyLength
        THEN [i \in 1..KeyLength |-> 0]
        ELSE [i \in 1..prefixLength |-> 0] \o Filled[KeyLength - prefixLength]

GenerateKeys(prefixLength, count) ==
    [i \in 1..count |-> NextRandomKey(prefixLength)]

\* prepare_input_blocks_on_device: whether the kernel supports the batch.
Supported(keys, batch, saltLength) ==
    /\ keys # <<>> /\ Len(keys) = batch /\ saltLength > 0
    /\ Len(keys[1]) > 0
    /\ \A i \in 1..Len(keys) : Len(keys[i]) = Len(keys[1])

-----------------------------------------------------------------------------
(* The split of a batch.                                                    *)

FirstBlockWorkerCount(attempts, cap) ==
    IF attempts < MinParallelFill \/ Hardware < 2 THEN 1
    ELSE LET workers == Least(attempts, Hardware)
         IN  IF cap > 0 THEN Least(workers, cap) ELSE workers

FinalizeWorkerCount(attempts) ==
    IF attempts < MinParallelFinalize \/ Hardware < 2 THEN 1
    ELSE Least(attempts, Hardware)

FirstBlockSelectedChunkSize(attempts, workers, dynamic) ==
    IF attempts = 0 \/ workers = 0 THEN 0
    ELSE IF dynamic > 0 /\ workers > 1 THEN Least(attempts, dynamic)
    ELSE CeilDiv(attempts, workers)

\* recommended_first_block_dynamic_chunk_size, for the device backend and
\* generated keys; 0 is an even split.
RecommendedDynamicChunkSize(auto, difficulty, attempts, workers) ==
    CASE ~auto \/ attempts < 1024 \/ workers <= 1 -> 0
      [] OTHER ->
            CASE difficulty = 1 -> 16
              [] difficulty = 8 -> IF attempts >= 2048 THEN 16 ELSE 32
              [] difficulty = 64 /\ attempts <= 2048 -> 16
              [] OTHER -> 0

\* slice::chunks: contiguous ranges, the last one possibly shorter.
Chunks(attempts, size) ==
    [k \in 1..CeilDiv(attempts, size) |->
        [first |-> (k - 1) * size, jobs |-> Least(size, attempts - (k - 1) * size)]]

\* fill_first_blocks_batch: the slots written, each with the key it is derived
\* from.  The queue hands every chunk to exactly one worker.
FillFirstBlocksBatch(attempts, cap, dynamic) ==
    LET workers == FirstBlockWorkerCount(attempts, cap)
        size == FirstBlockSelectedChunkSize(attempts, workers, dynamic)
        chunks == IF workers <= 1 THEN Chunks(attempts, attempts) ELSE Chunks(attempts, size)
    IN  FlattenSeq([k \in DOMAIN chunks |-> [j \in 1..chunks[k].jobs |->
            [slot |-> chunks[k].first + j - 1, key |-> chunks[k].first + j - 1]]])

-----------------------------------------------------------------------------
(* Matches.  A hash is what the rules tell apart: whether its digest has    *)
(* the target pattern or XUNI and a digit, and whether the PHC text around  *)
(* the digest has them.                                                     *)

Hashes == [target : BOOLEAN, xuni : BOOLEAN, phcTarget : BOOLEAN, phcXuni : BOOLEAN]
Match(i, pattern) == [at |-> i, pattern |-> pattern]
Patterns(target, xuni, i) ==
    (IF target THEN <<Match(i, "target")>> ELSE <<>>)
      \o (IF xuni THEN <<Match(i, "XUNI")>> ELSE <<>>)

\* append_matches of tm-gpu, on bare digests.
GpuAppendMatches(hash, allowXuni, i) == Patterns(hash.target, allowXuni /\ hash.xuni, i)

\* append_matches of tm-argon2, on PHC strings.
CpuAppendMatches(hash, allowXuni, i) ==
    Patterns(hash.target \/ hash.phcTarget, allowXuni /\ (hash.xuni \/ hash.phcXuni), i)

\* finalize_range over the jobs first .. first + jobs - 1.
FinalizeRange(batch, allowXuni, first, jobs) ==
    FlattenSeq([j \in 1..jobs |->
        GpuAppendMatches(batch[first + j], allowXuni, first + j - 1)])

\* finalize_batch: ranges in parallel, concatenated in range order.
FinalizeBatch(batch, allowXuni, workers) ==
    LET attempts == Len(batch)
        chunks == Chunks(attempts, IF workers <= 1 \/ attempts <= 1 THEN attempts
                                   ELSE CeilDiv(attempts, workers))
    IN  FlattenSeq([k \in DOMAIN chunks |->
            FinalizeRange(batch, allowXuni, chunks[k].first, chunks[k].jobs)])

\* run_batch of tm-argon2.
CpuRunBatch(batch, allowXuni) ==
    FlattenSeq([i \in DOMAIN batch |-> CpuAppendMatches(batch[i], allowXuni, i - 1)])

\* digest_matches: a match is real if the digest carries it.
DigestMatches(pattern, allowXuni, hash) ==
    IF pattern = "target" THEN hash.target ELSE allowXuni /\ hash.xuni

-----------------------------------------------------------------------------
(* Finds and attempts.  next: next_attempt_index; carried: the attempts     *)
(* since the last find.                                                     *)

Reach(s, i) ==
    IF i >= s.next
    THEN [s EXCEPT !.carried = @ + (i - s.next + 1), !.next = i + 1]
    ELSE s

Record(s, match) ==
    [s EXCEPT !.finds = Append(@, [at |-> match.at, pattern |-> match.pattern,
                                   attempts |-> s.carried]),
              !.carried = 0]

\* Mutant: the tail of the batch is not carried over.
DropsTail(s, attempts) == s

\* The end of submit_matches and of run_worker's loop body.
CarryTail(s, attempts) == [s EXCEPT !.carried = @ + (attempts - s.next)]

\* MineUnit::submit_matches
SubmitMatches(carried, matches, attempts) ==
    LET Hit(s, match) == Record(Reach(s, match.at), match)
    IN  CarryTail(FoldLeft(Hit, [next |-> 0, carried |-> carried, finds |-> <<>>],
                           matches), attempts)

\* The loop of run_worker: matches in the PHC envelope are passed over, their
\* attempts are not.
RecordCpuMatches(carried, batch, allowXuni) ==
    LET Hit(s, match) ==
            IF DigestMatches(match.pattern, allowXuni, batch[match.at + 1])
            THEN Record(Reach(s, match.at), match)
            ELSE Reach(s, match.at)
    IN  CarryTail(FoldLeft(Hit, [next |-> 0, carried |-> carried, finds |-> <<>>],
                           CpuRunBatch(batch, allowXuni)), Len(batch))
=============================================================================
