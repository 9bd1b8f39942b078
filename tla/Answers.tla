------------------------------ MODULE Answers -------------------------------
(***************************************************************************)
(* The parts of the miner that decide by a function of what they are told: *)
(* the classifier of /verify responses, the self-test's decision per       *)
(* device, the calendar and the XUNI window, and the configuration of a    *)
(* launch; and three that keep a state from one question to the next: the  *)
(* verifier of platform commands, the safety margin and the walk of a GPU  *)
(* job over its lane.  `asked' holds the name of a question and its        *)
(* arguments.                                                              *)
(***************************************************************************)
EXTENDS Classifier, SelfTest, CommandEnvelope, Calendar, LaunchConfig, MarginPolicy, Argon2Lane

CONSTANTS Responses,    \* the /verify responses that are classified
          Devices,      \* the devices that are probed
          Days,         \* day numbers, 0 is 1970-01-01
          Seconds,      \* Unix times in seconds
          Instants,     \* instants in the unit of PerHour
          Launches,     \* command lines, files and operators
          DeviceLists,  \* device selections and numbers of devices
          Segments,     \* segment lengths of a lane
          Grids,        \* launches of the first-blocks kernel
          Pauses,       \* times between two steps of the manager
          MaxTime,      \* bound on the seconds that pass for the verifier
          MaxObeyed,    \* bound on the commands it obeys
          MaxClock      \* bound on the manager's clock

\* A response's status is HTTP's, or TRANSPORT_ERROR; a segment has two blocks at least.
ASSUME AnswersAssumption ==
  /\ Responses \subseteq [status : Nat, blank : BOOLEAN, says : SUBSET Phrases,
                          hint : Nat \cup {NoHint}]
  /\ Days \subseteq Int /\ Seconds \subseteq Nat /\ Instants \subseteq Int
  /\ Launches \subseteq [cli : CommandLines, file : Files, operator : Operators]
  /\ DeviceLists \subseteq [texts : SUBSET Texts, count : Nat \ {0}]
  /\ Segments \subseteq Nat \ {0, 1}
  /\ Grids \subseteq [threads : Nat \ {0}, batch : Nat, segment : Nat \ {0, 1}]
  /\ Pauses \subseteq Nat

VARIABLE asked

AnswerInit == asked = <<"nothing">>

Ask(question) == asked' = question

AskClassify == \E r \in Responses, k \in {"Xen11", "Xuni"} : Ask(<<"response", r, k>>)

AskSelfTest ==
  \E reference \in BOOLEAN, h \in [Devices -> Healths] : Ask(<<"health", reference, h>>)

AskTime ==
  \/ \E d \in Days : Ask(<<"day", d>>)
  \/ \E s \in Seconds : Ask(<<"second", s>>)
  \/ \E t \in Instants : Ask(<<"window", t>>)

AskLaunch ==
  \/ \E l \in Launches : Ask(<<"launch", l.cli, l.file, l.operator>>)
  \/ \E l \in DeviceLists : Ask(<<"devices", l.texts, l.count>>)

AskFirstBlocks == \E g \in Grids : Ask(<<"first blocks", g>>)

AskLane == \E segment \in Segments : Ask(<<"lane", LaneStart(segment)>>)

\* argon2_kernel_oneshot writes its next block.
WriteBlock ==
  /\ asked[1] = "lane" /\ asked[2].slice < 4
  /\ asked' = <<"lane", LaneStep(asked[2])>>

AskMargin ==
  \E counted \in BOOLEAN, backlog \in 0..1 :
    Ask(<<"margin", Watched(NotWatched, Observation(0, FALSE, counted, backlog))>>)

\* The manager's next step.  It takes several failed requests to open the breaker, so
\* it is not Open before the clock has left 0.
ManagerStep ==
  /\ asked[1] = "margin" /\ asked[2].seen.now < MaxClock
  /\ \E pause \in Pauses, open, counted \in BOOLEAN, backlog \in 0..1 :
       LET now == asked[2].seen.now + pause
       IN  /\ open => now > 0
           /\ asked' = <<"margin", Watched(asked[2], Observation(now, open, counted, backlog))>>

AskVerifier == Ask(<<"verifier", NewVerifier>>)

\* The broker delivers a command, for the first time or again.
DeliverCommand ==
  /\ asked[1] = "verifier" /\ Len(asked[2].obeyed) < MaxObeyed
  /\ \E e \in Envelopes : asked' = <<"verifier", Deliver(asked[2], e)>>

Tick ==
  /\ asked[1] = "verifier" /\ asked[2].now < MaxTime
  /\ asked' = <<"verifier", SecondPasses(asked[2])>>

AnswerNext ==
  \/ /\ asked[1] = "nothing"
     /\ \/ AskClassify \/ AskSelfTest \/ AskTime \/ AskLaunch
        \/ AskFirstBlocks \/ AskLane \/ AskMargin \/ AskVerifier
  \/ WriteBlock
  \/ ManagerStep
  \/ DeliverCommand
  \/ Tick

AnswerSpec == AnswerInit /\ [][AnswerNext]_asked

-----------------------------------------------------------------------------
\* classify and submit_step read the same response twice, by different tests: an
\* answer goes back to Pending exactly when the breaker counts it as a transport
\* failure, or it is a 429.  A verdict on the find never comes from an outage, and an
\* outage is never hidden from the breaker.
PendingIsOutage ==
  asked[1] = "response" =>
    LET r == asked[2]
    IN  Classify(r, asked[3]).next_status = "Pending" <=> TransportFailure(r) \/ r.status = 429

\* Nothing is final on the word of one response: accepted answers wait for a lookup,
\* difficulty rejections carry the difficulty that would un-park them, and the
\* only final verdict needs a message that says so.
VerdictHasItsReason ==
  asked[1] = "response" =>
    LET r == asked[2]
        c == Classify(r, asked[3])
    IN  /\ c.next_status = "AcceptedUnconfirmed" <=> c.lookup
        /\ c.next_status = "ParkedDifficulty" <=> c.hint # NoHint
        /\ c.next_status = "PermanentlyInvalid" =>
             "terminal" \in r.says /\ ~("exists" \in r.says /\ r.status \in {400, 409})
        /\ c.next_status = "ParkedXuniWindow" => asked[3] = "Xuni"
        /\ c.next_status \notin {"Acked", "Dead", "Absent"}

\* selftest.rs: a device mines only on a path whose digest the CPU reproduced, a
\* device whose default path is right is not lost to the faults of the other
\* path or of another device, and the miner refuses to start only without any.
OnlyVerifiedPathsMine ==
  asked[1] = "health" =>
    LET h == asked[3]
        report == RunSelfTest(asked[2], h)
        mining == MiningDevices(report)
    IN  /\ \A d \in mining : asked[2] /\ Matches(h[d], report[d].gpuFirstBlocks)
        /\ \A d \in DOMAIN h : asked[2] /\ Matches(h[d], DefaultFirstBlocks) => d \in mining
        /\ IsFatal(asked[2], report) <=>
             asked[2] => \A d \in DOMAIN h : ~Matches(h[d], DefaultFirstBlocks)

\* check_and_insert: a command delivered again is obeyed again only if its nonce
\* was pushed out by `capacity' newer commands, or in the very second it expires.
TwiceOnlyAtTheEdge ==
  asked[1] = "verifier" =>
    LET obeyed == asked[2].obeyed
    IN  \A i, j \in 1..Len(obeyed) :
          i < j /\ obeyed[i].envelope = obeyed[j].envelope
            => obeyed[j].at = obeyed[j].envelope.expires_at \/ j - i > capacity

\* clocktime.rs against the Gregorian calendar and the window's definition:
\* consecutive day numbers are consecutive dates and come back as the same number,
\* what iso_utc writes parse_http_date_ms reads, and the window is open exactly
\* around the hour and shut at the end of the time it claims to have left, on
\* both sides of the epoch.
TimeIsExact ==
  /\ asked[1] = "day" =>
       /\ CivilFromDays(asked[2] + 1) = DayAfter(CivilFromDays(asked[2]))
       /\ DaysFromCivil(CivilFromDays(asked[2])) = asked[2]
  /\ asked[1] = "second" => ParseHttpDate(IsoUtc(asked[2])) = asked[2]
  /\ asked[1] = "window" =>
       LET IsOpen(t) == (t + OpenBefore) % PerHour < OpenBefore + OpenAfter
           w == XuniWindowAt(asked[2])
       IN  /\ w.open <=> IsOpen(asked[2])
           /\ w.open => /\ \A t \in 0..(w.untilClose - 1) : IsOpen(asked[2] + t)
                        /\ ~IsOpen(asked[2] + w.untilClose)

\* What a launch goes ahead with: a valid address, a fee and settings in range, and
\* a broker when it runs for a platform.
WellFormed(cli, r) ==
  /\ r.identity.account \in Addresses
  /\ r.identity.eco \in Addresses \cup {Empty}
  /\ r.identity.fee \in 0..MaxFee
  /\ r.settings.mode \in MarginModes
  /\ {r.settings.step, r.settings.max, r.settings.cpu_max} \subseteq 0..MaxKib
  /\ r.settings.bind \in Binds /\ r.settings.port \in 1..MaxPort
  /\ r.settings.journal # Empty
  /\ r.settings.streams \in 1..2 /\ WorkersValid(r.settings.workers)
  /\ r.settings.display \in {"logs", "terminal"}
  /\ cli.platform_mode => cli.mqtt_broker # Empty

\* resolve: whatever config.txt holds, whatever the flags say and whatever the
\* operator answers, a launch that goes ahead has a well-formed configuration and
\* leaves a file the next one starts from with nobody there to ask: the same command
\* line gives the same configuration, and after --saveConfig the saved identity is
\* used without the flags that gave it.
RelaunchIsStable ==
  /\ asked[1] = "devices" =>
       LET devices == ParseDeviceList(asked[2], asked[3])
       IN  devices # {} /\ devices \subseteq 0..(asked[3] - 1)
  /\ asked[1] = "launch" =>
       LET first == Resolve(asked[2], asked[3], asked[4])
           nobody == [asked[4] EXCEPT !.account = <<>>, !.fee = <<>>]
           bare == [asked[2] EXCEPT !.miner_addr = {}, !.total_dev_fee = {},
                                    !.eco_dev_addr = {}, !.test_fixed_diff = FALSE,
                                    !.save_config = FALSE]
           again == Resolve(IF asked[2].save_config THEN bare ELSE asked[2], first.file, nobody)
       IN  first.ok => /\ WellFormed(asked[2], first)
                       /\ again.ok /\ ~again.asked
                       /\ again.identity = first.identity
                       /\ ~asked[2].save_config => again.settings = first.settings

\* compute_margin and update_margin in auto mode: while the breaker stays Open, an
\* evaluation grants at least what the server's difficulty can have risen by the end
\* of the adjustment period, whatever the phase of its ticks, up to the
\* configured maximum; and a healthy, drained miner pays nothing.
HeadroomCoversRise ==
  asked[1] = "margin" /\ asked[2].fresh =>
    LET w == asked[2]
        ends == w.began + Period * (1 + (w.seen.now - w.began) \div Period)
    IN  /\ w.seen.open => \A phase \in 0..(Period - 1) :
             w.step.margin >= NoMoreThan(StepKib * RisesBetween(w.began, ends, phase),
                                         MaxMarginKib)
        /\ ~w.seen.open /\ w.seen.backlog = 0 => w.step.margin = 0

\* The first two blocks of every lane of a pool of `batch' jobs, each seeded for its job.
FirstTwo(batch, segment) ==
  {[at |-> j * 4 * segment + i, key |-> j, index |-> i] : j \in 0..(batch - 1), i \in {0, 1}}

\* argon2_first_blocks_kernel and argon2_kernel_oneshot: every job of the pool gets its
\* own first two blocks and nothing else is written; a lane takes every reference index
\* from the place Argon2id names, reads only blocks that are written and older than the
\* one before, whatever the index, and ends at the end of its four segments.
LaneIsArgon2id ==
  /\ asked[1] = "first blocks" =>
       LET g == asked[2]
       IN  LaunchFirstBlocks(g.threads, g.batch, g.segment) = FirstTwo(g.batch, g.segment)
  /\ asked[1] = "lane" =>
       LET lane == asked[2]
       IN  /\ lane.curr > 2 => lane.from = Argon2id(lane.segment, lane.curr - 1)
           /\ lane.slice < 4 =>
                /\ lane.curr < 4 * lane.segment
                /\ \A r \in 0..(WordRange - 1) :
                     ComputeRefPos(lane.segment, lane.slice, lane.offset, r) \in 0..(lane.curr - 2)
           /\ lane.slice = 4 => lane.curr = 4 * lane.segment
=============================================================================
