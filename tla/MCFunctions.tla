---------------------------- MODULE MCFunctions -----------------------------
(***************************************************************************)
(* The parts of the miner that are functions, asked one question at a      *)
(* time: `asked' holds the name of the question and its arguments.  Every  *)
(* question of a family is asked from the first state.                     *)
(***************************************************************************)
EXTENDS Answers, HashBatch, Argon2Kernel

CONSTANT MaxBatch     \* bound on the hashes of a batch

-----------------------------------------------------------------------------
(* The questions.                                                           *)

\* One status per class the code distinguishes, with their neighbours.
Codes == {0, 200, 201, 302, 400, 401, 403, 407, 408, 409, 425, 429, 499, 500, 503}
MCResponses ==
  [status : Codes, blank : BOOLEAN, says : SUBSET Phrases, hint : {NoHint, 0, 1}]
MCDevices == 1..2

\* Days around year 0, 1900, the epoch, 2000, 2100 and 2400, seconds around
\* midnight, and instants in six model hours on both sides of the epoch.
MCDays == UNION {(c - 40)..(c + 40) : c \in {-719468, -25508, 0, 11016, 47541, 157113}}
MCSeconds == {d * 86400 + s : d \in {0, 1, 11015, 11016, 19782},
                              s \in {0, 59, 60, 3599, 3600, 86399}}
MCInstants == (-3 * PerHour)..(3 * PerHour)

Hash(t, x, pt, px) == [target |-> t, xuni |-> x, phcTarget |-> pt, phcXuni |-> px]
SomeHashes == {Hash(t, x, FALSE, FALSE) : t, x \in BOOLEAN}
                \cup {Hash(FALSE, FALSE, TRUE, FALSE), Hash(FALSE, FALSE, FALSE, TRUE)}

AskBatch ==
  \/ \E n \in 1..MaxBatch : \E b \in [1..n -> SomeHashes] :
       \E x \in BOOLEAN, carried \in {0, 2} : Ask(<<"batch", b, x, carried>>)
  \/ \E n \in 1..12, cap \in 0..5, dynamic \in 0..4 : Ask(<<"slots", n, cap, dynamic>>)
  \/ \E p \in 0..(KeyLength + 1), n \in 1..3 : Ask(<<"keys", p, n>>)
  \/ \E prefix, eco \in BOOLEAN, fee \in 0..FeeCycle :
       Ask(<<"cycle", [prefix |-> prefix, eco |-> eco, permillage |-> fee]>>)

AskKernel ==
  \/ \E n \in [1..3 -> 0..5] : Ask(<<"message", n>>)
  \/ \E k \in 0..12, s \in {8, 20} : Ask(<<"prehash", k, s>>)
  \/ \E n \in 1..60 : Ask(<<"long", n>>)
  \/ Ask(<<"shuffle">>)

MCSegments == {2, 3, 4, 5, 8, 9, 13}
MCGrids == [threads : 1..4, batch : 1..9, segment : 2..3]
MCPauses == 0..(Period + 1)

\* Commands whose lifetimes overlap in every way, one too long-lived, one from
\* the future, one for another rig, one with a broken signature.
Signed(n, from, until) ==
  [nonce |-> n, issued_at |-> from, expires_at |-> until,
   schema |-> TRUE, ours |-> TRUE, signed |-> TRUE]
Traffic ==
  {Signed(1, 0, 4), Signed(2, 0, 2), Signed(3, 1, 3), Signed(4, 0, 6), Signed(5, 4, 6),
   [Signed(6, 0, 3) EXCEPT !.ours = FALSE], [Signed(7, 0, 3) EXCEPT !.signed = FALSE],
   [Signed(8, 0, 3) EXCEPT !.schema = FALSE]}

\* A command line without flags, and an operator who is not there.
NoFlags ==
  [miner_addr |-> {}, total_dev_fee |-> {}, eco_dev_addr |-> {}, save_config |-> FALSE,
   test_fixed_diff |-> FALSE, platform_mode |-> FALSE, mqtt_broker |-> Empty,
   margin_mode |-> {}, margin |-> {}, margin_max |-> {}, dashboard_port |-> {},
   dashboard_bind |-> {}, journal_path |-> {}, gpu_streams |-> {}, cpu_workers |-> {},
   cpu_max_difficulty |-> {}, difficulty_quiesce_ms |-> {}, display |-> {}]
Away == [interactive |-> FALSE, account |-> <<>>, fee |-> <<>>, display |-> Empty]
Ours == [NoFile EXCEPT !.exists = TRUE, !.account = "A", !.fee = Numeral(5)]

SomeIdentities ==
  [cli : {[NoFlags EXCEPT !.miner_addr = addr, !.total_dev_fee = fee, !.eco_dev_addr = eco,
                          !.save_config = save, !.test_fixed_diff = test,
                          !.platform_mode = platform, !.mqtt_broker = broker] :
            addr \in {{}, {"A"}, {"bad"}}, fee \in {{}, {0}, {1001}},
            eco \in {{}, {"B"}, {"bad"}}, save, test, platform \in BOOLEAN,
            broker \in {Empty, "broker"}},
   file : {NoFile} \cup
          {[NoFile EXCEPT !.exists = TRUE, !.account = account, !.eco = eco, !.fee = fee,
                          !.mode = mode, !.journal = IF mode = Empty THEN Empty ELSE "queue"] :
             account, eco \in {Empty, "B", "bad"}, mode \in {Empty, "fixed"},
             fee \in {NoText, Junk, Numeral(5), Numeral(-1)}},
   operator : {[Away EXCEPT !.account = <<"bad">>],
               [Away EXCEPT !.account = <<"bad", "C">>,
                            !.fee = <<Junk, Numeral(1001), Numeral(9)>>]}]

SomeSettings ==
  [cli : {[NoFlags EXCEPT !.margin_mode = mode, !.margin = step, !.margin_max = step,
                          !.dashboard_port = port, !.dashboard_bind = bind] :
            mode \in {{}, {"auto"}, {"bogus"}, {Empty}}, step \in {{}, {-1}, {3}},
            port \in {{}, {0}, {80}}, bind \in {{}, {"local"}, {"bad"}}},
   file : {[Ours EXCEPT !.mode = mode, !.step = step, !.max = step, !.port = port,
                        !.bind = bind] :
             mode \in {Empty, "fixed", "bogus"},
             step \in {NoText, Junk, Numeral(-1), Numeral(4)},
             port \in {NoText, Junk, Numeral(0), Numeral(90)},
             bind \in {Empty, "local", "bad"}},
   operator : {Away}]

SomeNumbers ==
  [cli : {[NoFlags EXCEPT !.gpu_streams = streams, !.cpu_workers = workers,
                          !.cpu_max_difficulty = cpu, !.difficulty_quiesce_ms = quiesce,
                          !.display = display] :
            streams \in {{}, {0}, {2}, {3}}, workers \in {{}, {-1}, {4}, {5}},
            cpu \in {{}, {-1}, {MaxKib + 1}}, quiesce \in {{}, {-1}, {MaxQuiesce + 1}},
            display \in {{}, {"terminal"}, {"prompt"}, {"bogus"}}},
   file : {Ours},
   operator : {[Away EXCEPT !.interactive = tty, !.display = answer] :
                 tty \in BOOLEAN, answer \in {Empty, "2"}}]

MCLaunches == SomeIdentities \cup SomeSettings \cup SomeNumbers
MCDeviceLists ==
  [texts : SUBSET {Junk, Numeral(-1), Numeral(0), Numeral(2), Numeral(3)}, count : 1..3]

Next ==
  \/ AnswerNext
  \/ /\ asked[1] = "nothing"
     /\ AskBatch \/ AskKernel

Spec == AnswerInit /\ [][Next]_asked

-----------------------------------------------------------------------------
(* What the answers must be.                                                *)

Halved(identity) == IF identity.eco THEN identity.permillage \div 2 ELSE 0

\* Batches are accounted for to the last hash: a cycle gives the fees their exact
\* share; however a batch is cut, every slot is filled once, from its own key; the
\* matches do not depend on the number of finalizing threads; the CPU and the GPU
\* loop report the same finds for the same digests; and the attempts reported with
\* the finds and those carried over are the hashes done.
AccountsBalance ==
  /\ asked[1] = "cycle" =>
       LET id == asked[2]
           taken == IF id.prefix THEN 0 ELSE id.permillage
       IN  /\ Share(id, "user") = FeeCycle - taken
           /\ Share(id, "eco") = IF id.prefix THEN 0 ELSE Halved(id)
  /\ asked[1] = "slots" =>
       LET filled == FillFirstBlocksBatch(asked[2], asked[3], asked[4])
       IN  /\ Len(filled) = asked[2]
           /\ {filled[i] : i \in 1..Len(filled)}
                = {[slot |-> i, key |-> i] : i \in 0..(asked[2] - 1)}
  /\ asked[1] = "keys" => Supported(GenerateKeys(asked[2], asked[3]), asked[3], 20)
  /\ asked[1] = "batch" =>
       LET b == asked[2]
           matches == FinalizeBatch(b, asked[3], 1)
           gpu == SubmitMatches(asked[4], matches, Len(b))
           cpu == RecordCpuMatches(asked[4], b, asked[3])
           Reported(s) == FoldLeft(LAMBDA n, f : n + f.attempts, 0, s.finds)
       IN  /\ FinalizeBatch(b, asked[3], FinalizeWorkerCount(Len(b))) = matches
           /\ cpu.finds = gpu.finds
           /\ Reported(gpu) + gpu.carried = asked[4] + Len(b)
           /\ Reported(cpu) + cpu.carried = asked[4] + Len(b)

\* The kernels compute Argon2id, as far as data flow goes: the buffered BLAKE2b
\* absorbs the RFC's blocks however the input is cut, the prehash and H' are the
\* host's, and the wavefront shuffles bring together the words of the rows, columns and
\* diagonals and put every word back.
KernelIsArgon2id ==
  /\ asked[1] = "message" =>
       LET Byte(part, i) == 100 * part + i
           parts == [k \in 1..3 |-> [i \in 1..asked[2][k] |-> Byte(k, i)]]
       IN  DeviceBlake2b(parts) = Blake2b(FlattenSeq(parts))
  /\ asked[1] = "prehash" =>
       InitialHash(asked[2], asked[3]) = HostInitialHash(asked[2], asked[3])
  /\ asked[1] = "long" => DigestLong(asked[2]) = HPrime(asked[2])
  /\ asked[1] = "shuffle" =>
       LET Together(n) == {Layouts[n][t] : t \in WorkItems}
       IN  /\ Together(1) = Quadruples(RowWord, 0) /\ Together(2) = Quadruples(RowWord, 1)
           /\ Together(3) = Quadruples(ColumnWord, 0) /\ Together(4) = Quadruples(ColumnWord, 1)
           /\ Layouts[5] = Loaded
=============================================================================
