----------------------------- MODULE Argon2Lane -----------------------------
(***************************************************************************)
(* The walk of a GPU job over its lane (tm-kernel/src/lib.rs): the kernel   *)
(* that writes the first two blocks, and argon2_kernel_oneshot, which       *)
(* writes one block per step from the block before and a reference.         *)
(***************************************************************************)
EXTENDS Integers

CONSTANTS QwordsInBlock,    \* reference indices in an address block, 128 in the code
          WordRange         \* the values of a reference index, 2^32 in the code

ASSUME LaneAssumption ==
    /\ QwordsInBlock \in Nat /\ QwordsInBlock >= 2
    /\ WordRange \in Nat \ {0}

-----------------------------------------------------------------------------
(* The first two blocks of every job.                                       *)

\* argon2_first_blocks_kernel: the blocks of the pool the work-item fills,
\* each with the job whose key and the index that seeds it.
FirstBlocksKernel(group, item, threadsPerBlock, batch, segment) ==
    LET job == group * threadsPerBlock + item
    IN  IF job >= batch THEN {}
        ELSE {[at |-> job * 4 * segment + index, key |-> job, index |-> index] :
                 index \in {0, 1}}

\* launch_first_blocks: enough workgroups for the batch.
LaunchFirstBlocks(threadsPerBlock, batch, segment) ==
    UNION {FirstBlocksKernel(group, item, threadsPerBlock, batch, segment) :
              group \in 0..((batch + threadsPerBlock - 1) \div threadsPerBlock - 1),
              item \in 0..(threadsPerBlock - 1)}

-----------------------------------------------------------------------------
(* The lane.  A lane is about to write block "curr", the one at "offset" of *)
(* its slice.  input: the words of work-items 2 and 6; addr: the input the  *)
(* address block was made from; from: where the reference index of the      *)
(* block just written came from.                                            *)

\* A cost is a u32 of blocks, so a lane has fewer than WordRange of them and
\* neither the products nor the differences below wrap.
UMulHi(x, y) == (x * y) \div WordRange

\* compute_ref_pos
ComputeRefPos(segment, slice, offset, refIndex) ==
    LET area == slice * segment + offset - 1
    IN  area - 1 - UMulHi(area, UMulHi(refIndex, refIndex))

NoSource == [slice |-> -1, counter |-> -1, word |-> -1]

\* Mutant: slice 1 goes on with the counter of slice 0.
KeepsCounter(lane) == [lane EXCEPT !.input.slice = 1]

\* Between slices 0 and 1: work-items 2 and 6 change their input words.
EntersSliceOne(lane) == [lane EXCEPT !.input = [slice |-> 1, counter |-> 0]]

\* The ends of the loops over offset: on to the next slice.
Turned(lane) ==
    IF lane.offset < lane.segment THEN lane
    ELSE LET next == [lane EXCEPT !.slice = @ + 1, !.offset = 0]
         IN  IF next.slice = 1 THEN EntersSliceOne(next) ELSE next

\* argon2_kernel_oneshot up to its first loop.
LaneStart(segment) ==
    LET input == [slice |-> 0, counter |-> 1]
    IN  Turned([segment |-> segment, slice |-> 0, offset |-> 2, curr |-> 2,
                input |-> input, addr |-> input, from |-> NoSource])

\* argon2_step_indexed in slices 0 and 1, argon2_step_dependent in 2 and 3.
LaneStep(lane) ==
    LET indexed == lane.slice < 2
        refresh == indexed /\ lane.offset % QwordsInBlock = 0
        input == IF refresh THEN [lane.input EXCEPT !.counter = @ + 1] ELSE lane.input
        addr == IF refresh THEN input ELSE lane.addr
    IN  Turned([segment |-> lane.segment, slice |-> lane.slice,
                offset |-> lane.offset + 1, curr |-> lane.curr + 1,
                input |-> input, addr |-> addr,
                from |-> IF indexed
                         THEN [slice |-> addr.slice, counter |-> addr.counter,
                               word |-> lane.offset % QwordsInBlock]
                         ELSE [slice |-> 0, counter |-> 0, word |-> lane.curr - 1]])

\* Argon2id (RFC 9106, 3.4): in the first two slices the reference of a block
\* is word i mod QwordsInBlock of address block i div QwordsInBlock + 1 of its
\* slice, where i is its place in the slice; afterwards it is word 0 of the
\* block before.
Argon2id(segment, block) ==
    LET slice == block \div segment
        place == block % segment
    IN  IF slice < 2
        THEN [slice |-> slice, counter |-> place \div QwordsInBlock + 1,
              word |-> place % QwordsInBlock]
        ELSE [slice |-> 0, counter |-> 0, word |-> block - 1]
=============================================================================
