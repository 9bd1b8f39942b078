---------------------------- MODULE Argon2Kernel ----------------------------
(***************************************************************************)
(* The GPU kernels (tm-kernel/src/lib.rs) and their CPU twin                *)
(* (tm-argon2/src/host.rs) as data flow: which bytes a BLAKE2b state        *)
(* absorbs and which words the wavefront shuffles bring together (the walk   *)
(* over the lane is in Argon2Lane).  The mixing functions                   *)
(* themselves (additions, rotations, the BLAKE2b and Argon2 round           *)
(* functions) work in place on what is brought together and are left out.   *)
(***************************************************************************)
EXTENDS Integers, Sequences, SequencesExt, Bitwise

CONSTANTS BlockBytes,       \* BLAKE2B_BLOCK_BYTES
          OutBytes          \* BLAKE2B_OUT_BYTES

ASSUME KernelAssumption ==
    BlockBytes \in Nat \ {0} /\ OutBytes \in Nat \ {0} /\ OutBytes % 2 = 0

-----------------------------------------------------------------------------
(* BLAKE2b: a message is a sequence of bytes handed over in any chunks.     *)

\* The state: what was compressed, block by block with counter and final
\* flag; the byte counter; the buffered bytes.
Blake2bInit == [absorbed |-> <<>>, t |-> 0, buf |-> <<>>]

\* increment_counter and compress of one block.
Compress(s, block, inc, final) ==
    [s EXCEPT !.t = @ + inc,
              !.absorbed = Append(@, [block |-> block, t |-> s.t + inc,
                                      final |-> final])]

\* Mutant: a block is compressed as soon as it is full.
UpdateEagerly(s, input) ==
    LET all == s.buf \o input
        whole == Len(all) \div BlockBytes
        Absorb(u, k) == Compress(u, SubSeq(all, (k - 1) * BlockBytes + 1, k * BlockBytes),
                                 BlockBytes, FALSE)
    IN  [FoldLeft(Absorb, s, [k \in 1..whole |-> k])
            EXCEPT !.buf = SubSeq(all, whole * BlockBytes + 1, Len(all))]

\* Blake2b::update: a full buffer is only compressed once more input follows.
Update(s, input) ==
    IF Len(s.buf) + Len(input) <= BlockBytes
    THEN [s EXCEPT !.buf = @ \o input]
    ELSE LET left == BlockBytes - Len(s.buf)
             first == Compress(s, s.buf \o SubSeq(input, 1, left), BlockBytes, FALSE)
             rest == SubSeq(input, left + 1, Len(input))
             whole == (Len(rest) - 1) \div BlockBytes  \* while input_len > BLOCK
             Absorb(u, k) == Compress(u, SubSeq(rest, (k - 1) * BlockBytes + 1,
                                                k * BlockBytes), BlockBytes, FALSE)
         IN  [FoldLeft(Absorb, first, [k \in 1..whole |-> k])
                 EXCEPT !.buf = SubSeq(rest, whole * BlockBytes + 1, Len(rest))]

\* Blake2b::finalize pads with zeros and sets the flag.
Finalize(s) ==
    Compress(s, [i \in 1..BlockBytes |-> IF i <= Len(s.buf) THEN s.buf[i] ELSE 0],
             Len(s.buf), TRUE).absorbed

DeviceBlake2b(parts) == Finalize(FoldLeft(Update, Blake2bInit, parts))

\* The definition of BLAKE2b (RFC 7693), which the blake2 crate implements:
\* the message is cut into blocks, the last one padded and flagged.
Blake2b(message) ==
    LET n == Len(message)
        blocks == IF n = 0 THEN 1 ELSE (n + BlockBytes - 1) \div BlockBytes
        Byte(i) == IF i <= n THEN message[i] ELSE 0
    IN  [k \in 1..blocks |->
            [block |-> [i \in 1..BlockBytes |-> Byte((k - 1) * BlockBytes + i)],
             t |-> IF k < blocks THEN k * BlockBytes ELSE n,
             final |-> k = blocks]]

-----------------------------------------------------------------------------
(* H0 and the first two blocks.  The bytes of header field i are 10i+1 to   *)
(* 10i+4; of the password 1001 and up; of the salt 2001 and up.             *)

Field(i) == [b \in 1..4 |-> 10 * i + b]
Zeros(n) == [b \in 1..n |-> 0]
Password(n) == [b \in 1..n |-> 1000 + b]
Salt(n) == [b \in 1..n |-> 2000 + b]

\* lanes, output_len, memory_cost, time_cost, version, type, password_len
Header == FlattenSeq([i \in 1..7 |-> Field(i)])

\* initial_hash of the kernel; field 8 is the salt length.
InitialHash(key, salt) ==
    DeviceBlake2b(<<Header, Password(key), Field(8), Salt(salt), Zeros(4), Zeros(4)>>)

\* initial_hash of host.rs.
HostInitialHash(key, salt) ==
    Blake2b(FlattenSeq(<<Header, Password(key), Field(8), Salt(salt), Zeros(8)>>))

\* digest_long: the chained hashes, each with its output length and how much
\* of it is kept.  The loop runs while more than one hash is still wanted.
DigestLong(outLen) ==
    LET half == OutBytes \div 2
        Chain[toProduce \in 0..outLen] ==
            IF toProduce <= OutBytes
            THEN <<[length |-> toProduce, kept |-> toProduce]>>
            ELSE <<[length |-> OutBytes, kept |-> half]>> \o Chain[toProduce - half]
    IN  IF outLen <= OutBytes
        THEN <<[length |-> outLen, kept |-> outLen]>>
        ELSE <<[length |-> OutBytes, kept |-> half]>> \o Chain[outLen - half]

\* H' of RFC 9106: r = ceil(T/32) - 2 halves, then the rest.
HPrime(outLen) ==
    LET half == OutBytes \div 2
        r == (outLen + half - 1) \div half - 2
    IN  IF outLen <= OutBytes
        THEN <<[length |-> outLen, kept |-> outLen]>>
        ELSE [i \in 1..(r + 1) |->
                 IF i <= r THEN [length |-> OutBytes, kept |-> half]
                 ELSE [length |-> outLen - r * half, kept |-> outLen - r * half]]

-----------------------------------------------------------------------------
(* The block permutation.  A layout says which word of the block register   *)
(* 1..4 (a, b, c, d) of each work-item holds.                               *)

WorkItems == 0..31

\* BlockTh::load and store.
Loaded == [t \in WorkItems |-> <<t, 32 + t, 64 + t, 96 + t>>]

\* transpose: the register a work-item of each of the four groups sends as
\* x1, x2 and x3, and where what it receives goes (0 keeps its own).
Sends == <<<<2, 3, 4>>, <<1, 4, 3>>, <<4, 1, 2>>, <<3, 2, 1>>>>
Takes == <<<<0, 1, 2, 3>>, <<1, 0, 3, 2>>, <<2, 3, 0, 1>>, <<3, 2, 1, 0>>>>
Group(t) == 1 + ((t \div 4) % 4)
Transpose(layout) ==
    LET Received(t, k) == layout[t ^^ (4 * k)][Sends[Group(t ^^ (4 * k))][k]]
    IN  [t \in WorkItems |-> [r \in 1..4 |->
            LET k == Takes[Group(t)][r]
            IN  IF k = 0 THEN layout[t][r] ELSE Received(t, k)]]

\* The shuffles move registers b, c and d between work-items; a stays.
Moved(layout, srcB, mask, srcD) ==
    [t \in WorkItems |-> <<layout[t][1], layout[srcB[t]][2],
                           layout[t ^^ mask][3], layout[srcD[t]][4]>>]
Row(t, n) == (t & 28) | ((t + n) & 3)
Column(t, n) ==
    LET lo == (t & 1) | ((t & 16) \div 8)
    IN  ((((lo + n) & 2) * 8) | (t & 14)) | ((lo + n) & 1)

Row1 == [t \in WorkItems |-> Row(t, 1)]
Row3 == [t \in WorkItems |-> Row(t, 3)]
Column1 == [t \in WorkItems |-> Column(t, 1)]
Column3 == [t \in WorkItems |-> Column(t, 3)]
Shift1(layout) == Moved(layout, Row1, 2, Row3)
Unshift1(layout) == Moved(layout, Row3, 2, Row1)
Shift2(layout) == Moved(layout, Column1, 16, Column3)

Unshift2(layout) == Moved(layout, Column3, 16, Column1)

\* shuffle_block: the layouts at its four calls of g, and the one it leaves.
Layouts ==
    LET first == Transpose(Loaded)
        second == Shift1(first)
        third == Transpose(Unshift1(second))
        fourth == Shift2(third)
    IN  <<first, second, third, fourth, Unshift2(fourth)>>

\* Argon2's permutation P (RFC 9106, 3.6): on word v[n] of row or column i, a
\* round of four columns (j, j+4, j+8, j+12) and a round of four diagonals.
RowWord(i, n) == 16 * i + n
ColumnWord(i, n) == 2 * i + 16 * (n \div 2) + (n % 2)
Diagonal(j, shift) ==
    <<j, 4 + ((j + shift) % 4), 8 + ((j + 2 * shift) % 4), 12 + ((j + 3 * shift) % 4)>>
Quadruples(Word(_, _), shift) ==
    {[r \in 1..4 |-> Word(i, Diagonal(j, shift)[r])] : i \in 0..7, j \in 0..3}
=============================================================================
