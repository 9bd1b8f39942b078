# TLA+ models of TreeMiner

TreeMiner finds Argon2 blocks that cannot be produced again on demand.  Most of
the program is about what surrounds the hashing: a find is captured durably,
submitted through outages, crashes and a server that may say "200" without
storing anything, and counted only when the server really has it; the difficulty
it must be hashed at moves meanwhile, a rented rig changes its owner between two
batches, and the process must stop without losing what is on its way.  This
directory models those parts as the Rust crates under `treeminer-rs/crates`
implement them.

## Inventory

| component | state | operations | talks to |
| --- | --- | --- | --- |
| circuit breaker (`tm-submit/breaker.rs`) | state, failure count, probe interval and deadline, HalfOpen admission, XUNI pressure | one method per event | owned by the drain thread |
| submission manager (`tm-submit/manager.rs`) | breaker, scheduler, last window seen, outage clock; shared: last difficulty, trend, clock offset, quiesce deadline | `run_step` (margin, probe, submit, confirm), `observe_difficulty`, `stop` | journal, transport, poller, callbacks |
| safety margin (`tm-submit/margin.rs`) | none | `compute_margin` | submission manager, mining units |
| classifier (`tm-submit/classifier.rs`) | none | `classify` | submission manager |
| drain scheduler (`tm-submit/drain.rs`) | submission rate | `select_next`, rate changes | submission manager |
| HTTP transport (`tm-submit/http.rs`) | none | submit, confirm, difficulty, health | the server |
| find journal (`tm-journal/journal.rs`) | SQLite table of finds, last difficulty | append, fetches, `record_attempt`, un-parks, recovery, counts | every thread, under one mutex |
| fallback sink (`tm-journal/fallback.rs`) | a JSONL file | append, `import_into` | find sink, boot |
| find sink (`treeminer/find.rs`) | none | `record`: verify, journal, else fallback, else fatal | mining threads |
| startup and supervision (`treeminer/run.rs`, `state.rs`) | threads, running, paused and fatal flags, exit code | `run`, `finish`, signal handlers | all |
| difficulty poller and cache (`treeminer/difficulty.rs`) | difficulty, failure streak, cache file | poll, load, store | manager, mining units, platform |
| window, calendar, clock (`tm-submit/clocktime.rs`, `treeminer/clock.rs`) | clock offset | pure arithmetic | manager, mining units |
| platform control (`tm-platform/manager.rs`, `lease.rs`, `coordinator.rs`, `treeminer/platform.rs`) | worker state, lease, mining context, command queue, pause | register, assign, release, pause, resume, shutdown, `set_config`, watchdog, stop | platform server, mining units |
| platform transport (`tm-platform/transport.rs`, `backoff.rs`) | connection, subscriptions, backoff | publish, subscribe, pump, shutdown | broker |
| command envelopes (`tm-platform/envelope.rs`) | nonce cache | `verify_envelope` | platform control |
| mining units (`treeminer/mineunit.rs`, `backend.rs`) | unit, its batch size and cost, attempts | plan, mine, rebuild on a change | find sink, device |
| CPU workers (`treeminer/cpuworker.rs`) | stop flag, gauges, first error | hash, idle above the ceiling, fail | find sink |
| GPU runtime (`tm-gpu/runner.rs`, `hash.rs`, `backend.rs`) | device pool, staging buffers, queued work | allocate, stage, launch, finish | mining units |
| kernels (`tm-kernel`, `tm-argon2/host.rs`) | none | Argon2id | GPU runtime, self-test |
| self-test (`treeminer/selftest.rs`) | report | probe, decide | startup |
| configuration (`treeminer/resolve.rs`, `appconfig.rs`, `config.rs`) | `config.txt` | resolve, prompt, save | startup |
| dashboard, TUI, statistics | snapshots | display | read only |
| C++ miner, Python platform server (`treeminer/`) | | | predecessor; the other side of `tm-platform` |

The hard behaviours: the drain thread, the poller and the mining threads share
the journal and interleave between any two of its calls; requests are lost,
answered late or answered falsely; the process dies anywhere and restarts on the
journal alone; the breaker must not lose its one HalfOpen admission on any path
through `submit_step`; the platform's dispatch thread and watchdog change one
lease, one context and one state under three locks; several writers share the
difficulty; streams share a device whose free memory each of them measures; and
teardown joins threads that may be paused, asleep or losing a find.
`PROJECT.json` lists these hazards, each at its line.

## Modules

| module | models |
| --- | --- |
| `CircuitBreaker` | every method of `CircuitBreaker` as an operator from a breaker to the breakers it may become |
| `OutageProbing` | the drain thread as the breaker sees it; servers fail and recover at will |
| `Classifier` | `classify`, over the facts it extracts from a response |
| `FindJournal` | each journal operation as a function from table to table |
| `DrainScheduler` | `select_next` |
| `SubmissionManager` | the composition: drain thread, poller, miner, server, crashes |
| `FindLifecycle` | the abstract specification: the statuses of one find and the moves between them |
| `FindCapture` | capture of finds, the fallback sink as a file, the import at boot |
| `MarginPolicy` | `compute_margin` and the state `update_margin` keeps |
| `DifficultySync` | poller, cache file, supervisor thread and `set_config`: three of the four writers of the difficulty (a 401's hint is left out) |
| `Calendar` | civil dates, HTTP dates, the XUNI window, the server clock |
| `PlatformManager` | lease state machine, dispatch, watchdog and main thread, command queue, pause callback |
| `CommandEnvelope` | the checks of a signed command and the nonce cache |
| `MqttLink` | pump thread, replayed subscriptions, reconnect backoff, shutdown |
| `BatchSizing`, `GpuBatch`, `MiningUnits` | how large a batch may be; a device pool and its launch sequence; the mining threads on them |
| `HashBatch` | fee cycle, keys, the split of a batch over threads, matches, attempts |
| `Argon2Lane` | the kernel of the first blocks and the walk of a job over its lane, against RFC 9106 |
| `Argon2Kernel` | the data flow inside the kernels, against RFC 9106's |
| `SelfTest` | which devices may mine, and on which path |
| `LaunchConfig` | `resolve` and the file it reads and writes |
| `Supervision` | `run` and `finish`, CPU workers, fatal durability, exit code |
| `MCSubmission`, `MCFindCapture`, `MCPlatform`, `MCMqttLink`, `MCMining`, `MCSupervision` | instances for TLC |
| `Answers` | the questions asked of `Classifier`, `SelfTest`, `CommandEnvelope`, `Calendar`, `LaunchConfig`, `MarginPolicy` and `Argon2Lane`, and what the answers must be |
| `MCFunctions` | `Answers` and the questions asked of `HashBatch` and `Argon2Kernel`, with their reference definitions |
| `CircuitBreakerProofs`, `OutageProbingProofs`, `SubmissionManagerProofs`, `FindCaptureProofs`, `PlatformManagerProofs`, `MiningUnitsProofs`, `SupervisionProofs`, `InputProofs` | theorems |

**Circuit breaker.**  `next_probe_at_ms` is only ever compared with the clock, so
the model keeps the time that is left, `next_probe_in`, and `Elapse` lets time
pass.  The jitter is a choice among the delays `schedule_probe` may compute.

**Submission manager.**  `pc` is where the drain thread is: `posting` (a
`/verify` in flight), `probing`, `observing` and `unparking` (the two halves of
`observe_difficulty`, which releases its lock in between), `confirming` (a
`/get_block` in flight), `recording` (an answer in hand that is not yet in the
journal), `relooking` (`confirm_step` within its batch), `halted` (after
`handle_fatal`).  `poller` is the same for the difficulty poller.  Between any
two of these points another thread, the server or a crash may act.  The deadline
of the quiesce is armed in the same step as the new difficulty becomes visible;
the code does so a moment after releasing the lock, and a submission that starts
in that moment is one that starts just before it in the model.  A row keeps its
status, its window count and whether its `next_attempt_at` has passed; payload
fields are constants.

**The server** is external and modelled from how the client meets it: it
checks the difficulty, then the XUNI window, then the UNIQUE key, and stores.  A
request may be lost, processed with its answer lost, or processed after the
client gave up (`late`).  `Events` chooses which disturbances a run includes;
after `CalmBegins` none happens any more.

**Find capture.**  One mining thread per find.  The sink is the sequence of
writes it holds; a write may be whole, without its newline, or partial.  A power
loss keeps the synced writes and any prefix of the rest, and may take a file
whose directory entry was never fsync'd.

**Difficulty.**  Every read and every write of `supervise` is a step of its own,
as are the sample, the store, the write of `difficulty.cache.tmp` and its rename.
A write may be torn, fail, or be cut off by a crash; the rename is atomic.

**Platform control.**  A handler is the sequence of calls it makes on the state,
the lease and the context, which three different locks guard.  `todo[t]` is what
thread `t` has still to call, so that the watchdog and the dispatch thread
interleave call by call.  `transition_to` runs the state-change callback after
it has released its lock, as in the code.  `stop` clears `running`, releases,
and joins every thread but its own.

**Transport.**  The MQTT library is a channel that only the pump's own polling
empties and whose unsent requests may or may not survive a lost connection.
`subscribe` is two steps (remember, ask), and the pump holds the list's lock
while it replays.

**Mining.**  A stream is planned, begins, stages, runs and finishes a batch; at
every call the backend may fail.  Buffers hold a content (the salt and the cost
they were derived from, or garbage), so a digest is right or wrong by where its
blocks came from.  Memory is counted in blocks of 1 KiB.

**Supervision.**  The main thread goes through the stages of `run` and `finish`;
each early return of the code is a transition.  Mining threads, the drain thread
and the platform are reduced to what the main thread waits for; CPU workers are
modelled but for the gauges they show.  `declare_fatal_durability_failure` is
three steps: reason, flag, stop.  The platform is two services, the manager and
the supervisor: a signed remote shutdown sets `asked` (`shutdown_requested`) and
stops the manager on its own dispatch thread, and the supervisor carries it into
the miner later.

**Functions.**  Pure code is an operator, and `Answers` and `MCFunctions` ask it
questions: a state holds one question, and the properties compare the answer with
a reference definition.  `CommandEnvelope` (commands delivered while time passes),
`MarginPolicy` (the manager's steps, each seeing a clock, a breaker and a journal
that may not be readable) and `Argon2Lane` (one block after the other) keep a
state from call to call; it is part of their question, and each call is an
action.  `Answers` takes what may be asked (`Responses`, `Days`, `Launches`,
`Segments`...) as constants: the run gives them small sets, the theorems hold for
all.

## Runs

| run | shows |
| --- | --- |
| `outage_probing` | HalfOpen latch, probe distance, opening only on a streak, escalation, recovery |
| `functions` | classifier (both readings of a response agree), calendar, batch accounting, kernels, self-test, replay cache, launch configuration, margin |
| `submission_safety` | two XEN11 finds, crashes, journal failures, lost and late requests, lying 200s, moving difficulty; the refinement of `FindLifecycle` |
| `submission_xuni` | a XUNI ahead of a XEN11 and of an unsubmittable find, a fetch limit of one: the window budget, and the XEN11 drains |
| `submission_drains` | liveness after crashes, lost and lying answers, a busy server, journal failures and moves of the difficulty end |
| `find_capture` | durable finds survive crashes, failing imports and torn writes |
| `platform_commands` | any three commands, the watchdog and a stop from outside: context follows lease and the watchdog cuts no lease short unless a command met its tick, the rig settles, an accepted shutdown is obeyed, stop returns and its last word is Idle |
| `platform_bounded_time` | an assignment and an accepted register_ack: TLC finds `LeaseEnds` violated (see Findings) |
| `mqtt_link` | two outages of the broker while topics are subscribed, and a shutdown at any point |
| `difficulty_sync` | poller, supervisor and `set_config` write the difficulty, with failing polls, torn writes and a crash |
| `mining` | two streams of one device, two moves of difficulty or margin, any number of pauses, identities and failures |
| `supervision` | one GPU, two CPU workers, three configurations, a lost find on any thread, signals and remote shutdowns at any point |

**Bounds.**  `Finds` has one to three members: one is in the drain's hands, one
can be moved by the poller or fill a fetch limit, one is new.  Two difficulties
make rises and falls.  `failure_threshold = 1` and unit delays in the submission
runs let the breaker open on any failure; the arithmetic of thresholds and
delays is what `outage_probing` (threshold 3, cap 12, so that the doubling
overshoots it and the jitter is non-zero) and the theorems are for.
`xuni_max_windows = 1` reaches exhaustion in one window.  A queue of two
overflows with three commands, and three commands with a lease of one tick are
enough to take a lease, end it and take another while the watchdog is between two
calls of one tick.  `max_delay = 3` lies between two doublings, and two
outages reach it with a backoff that was reset in between.  Costs 8, 12 and 16
give three different segment lengths and batch sizes in a device of 100 blocks;
two moves are enough for a torn read of difficulty and margin.  Difficulties 4,
8 and 16 lie below, in and above the range of the CPU workers.  The pure
modules take small word, block and hour lengths, chosen so that every carry,
partial block and boundary occurs; the calendar is asked at real days around
the years 0, 1900, 1970, 2000, 2100 and 2400.  `WordRange = 64` is larger than
the longest lane asked about, as 2^32 is in the code, where the cost is a `u32`.

**Fairness.**  Weak fairness of each thread of the process: they loop for as
long as it lives (`thread_loop`, `spawn_difficulty_poller`, `run_loop`,
`pump_loop`, `run_mining_on_device`), every request has a timeout
(`SUBMIT_TIMEOUT_MS`, `GET_TIMEOUT_MS`), a batch is finite and deadlines pass.
`DifficultySync` also assumes that a write which is retried at every poll is
not torn for ever (strong fairness), `MqttLink` that an outage of the broker
ends.  Nothing is assumed of miners finding blocks, of the window, of the
difficulty, of commands, of crashes, or of late requests.  The liveness
properties of the submission layer assume that disturbances end (`calm`), those
of the other modules that their number is bounded (`Max...`), never that they
do not happen.  Runs whose behaviours end (a stopped miner, a bounded number of
commands) do not check for deadlock; their liveness properties say where they
must end.

## What the models show

Properties are stated as the code keeps them.  Where a comment or a document
says more, the stronger statement has a counterexample in the model:

* `breaker.rs` 7-10: probes are "capped at ~5 s while an eligible XUNI exists".
  `set_xuni_pressure` is called by `submit_step` only, and `run_step` does not
  reach it while the breaker is Open; a XUNI that becomes eligible during an
  outage waits for a probe at the normal cap.
* `README.md` 23-24: "401-difficulty finds auto-resubmit when difficulty
  allows".  `submit_step` holds a 401; before it is in the journal the poller
  observes a fall and un-parks, and the row is still `Pending`.  Then
  `record_attempt` writes `ParkedDifficulty`, and every later poll sees the value
  it saw before, so nothing un-parks the find until the difficulty falls again
  or the process restarts.  `Drains` leaves out the find in the drain's hands.
* `fallback.rs` 24-26: a torn tail "costs exactly one record".  `append`
  continues whatever the file ends with, so a record written behind a torn tail
  shares its line and is lost with it: the set `behind` of `DurableSurvives`.
* `fallback.rs` 63-64: append is "fsync'd to stable storage before returning".
  Only the append that created the file fsyncs its directory; a second thread's
  append can return first: the set `nameless` of `DurableSurvives`.
* `classifier.rs` 251-255: "The classifier only consults this table for a
  conclusive 4xx".  It is consulted for every status without a rule of its own,
  a 201 or 302 included; `VerdictHasItsReason` asks for the phrase only.
* `end_lease` names no lease: a handler and the watchdog both end whatever lease
  is there.  Between the watchdog's look (`manager.rs` 744) and its `end_lease`
  (747) the dispatch thread can handle a release and a new assignment, or a pause,
  a resume and an assignment, and the watchdog then ends the new lease early, or
  leaves the context at a lease that is gone.  The history variable `crossed` says
  that a command other than an assignment was obeyed during a tick, or that a tick
  began in the middle of a handler; without it `ContextFollowsLease` and
  `LeaseRunsItsTime` have these counterexamples.  What they show is that nothing
  else breaks them: no order of commands away from a tick, and no assignment at all.
* `watchdog_tick` ends a lease only in state Mining.  An accepted register_ack
  (`manager.rs` 460-466), a refused one, or a pause obeyed after the lease ran out
  takes the rig out of Mining and leaves the lease to the next command (Findings).
* The state-change callback runs after `transition_to` has released its lock, so two
  threads' callbacks can run in the other order than their transitions; the rig can
  be Available with mining paused.  `Settles` speaks of the state.
* `treeminer/src/platform.rs` 315: stop is to "release any lease".  A handler
  that is between its calls when `stop` looks can start a lease after it.
* `treeminer/src/platform.rs` 317-318: stop is called "after the mining threads have
  joined, so a find in flight is still reported".  A signed remote shutdown stops the
  manager at once, on its dispatch thread (`manager.rs` 578-584); the supervisor asks
  the miner to stop at its next tick, and until the mining threads are joined
  `find_observer` (166-168) drops their finds' reports.  The finds themselves are
  journaled.  `ConsumersOutliveProducers` therefore asks for the manager only while
  `asked` is false; without that the invariant has this counterexample.
* `PORT.md` 315: "A platform `pause` stops hashing."  A register_ack with an
  error puts a rig without a secret into Error, and there a pause is not obeyed.
* `envelope.rs` 37-38: "a repeat within its validity window is rejected".  In the
  second `now = expires_at` the envelope is still valid and its nonce already
  purged, so it is accepted again: the exception in `TwiceOnlyAtTheEdge`.
* `announce` goes Available whether or not the registration left; a rig whose
  link is down at that moment stays unregistered until an Error.
* `treeminer/src/platform.rs` 294-296: "A signed `set_config` wins for one tick".
  If the poller stores and the supervisor reports between the command and the
  tick, the command is overwritten without ever reaching the miner.  The setters
  of one `set_config` are called one by one, and a batch that begins in between
  reads one new field and one old.
* `AppConfig::save` writes from a manager that has not loaded the file:
  `--saveConfig` drops the journal path, the margin and the dashboard keys, and
  with `--testFixedDiff` it saves the null address.  `RelaunchIsStable` asks for
  the same settings only without it.
* `update_margin` counts an outage only while the breaker is Open.  A `/difficulty`
  probe that succeeds makes it HalfOpen and the clock starts again, although
  `/verify` may still be down; the margin also lags by up to one evaluation
  interval.  `HeadroomCoversRise` speaks of evaluations within one Open period.
* `attempts` and `batch_index` are fields of a unit and start again when a
  change of difficulty rebuilds it; a batch below cost 8 needs more memory than
  its estimate, because a segment has at least two blocks.

## Findings

`platform_bounded_time` is the one run that must fail.  `LeaseEnds` is what
`tm-platform/src/lib.rs` 4-5 says of the rig, which "accepts leases that redirect its
mining at a consumer's address for a bounded time", and what `tests/lease.rs` 140-141
says of the watchdog, which "turns an expired lease back into an available rig, and
[...] puts mining back on the operator's own address".  The counterexample has two
commands: an assignment, obeyed to the end (state Mining), and an accepted
register_ack, which goes to Available whatever the state.  From then on
`watchdog_tick` never looks at the lease; the lease runs out, the mining context stays
the consumer's, and batches go on for it.  A later assignment is accepted by the
state and refused by `start_lease`, and the rig goes through Error back to
Available; only a release, or the end of the process, ends the lease.  The run
needs no race and no failure, and every thread is treated fairly.

## Proofs

Eight modules, all checked by `tlapm`; nothing in them depends on the instances
of the runs.  Every inductive invariant was an invariant of a TLC run before it
was proved.

**Assumptions on constants.**  They are the `ASSUME`s of the modules, which TLC
evaluates for every instance: `BreakerConfigAssumption` (positive threshold, base
and caps, base below the cap, jitter between 0 and 1), `JournalAssumption` (row
ids are naturals; kinds and costs are functions on them), `ManagerAssumption`
(difficulties and limits are positive, the window budget is a natural),
`CaptureAssumption`, `PlatformAssumption`, `ThreadsAssumption` and
`CostsAssumption` (threads have different names, workers are finite, costs are
naturals), `MiningAssumption` (streams are finite and not none, costs positive,
and closed under adding a margin), `BatchSizingAssumption`, `EnvelopeAssumption`,
`AnswersAssumption` (the types of what is asked: an HTTP status is a natural, or 0
for a transport error; a segment has two blocks at least, as `segment_blocks`
rounds; a grid has a work-item), `CalendarAssumption` (the window is shorter than
the hour), `MarginAssumption` (the adjustment period is not zero, as
`compute_margin` divides by it), `LaneAssumption` (an address block has two words
at least), `ConfigAssumption` (the defaults are in range), `SyncAssumption` and
`LinkAssumption` (the backoff begins above zero and at or below its maximum).
`Finds`, `Envelopes`, `Responses`, `Devices`, `Difficulties`, `Days`, `Launches`
and the costs need not be finite.

**Hypotheses of theorems.**  One theorem has one of its own.

* `RoomAssumption`, of `PoolsAreSafeTheorem`: either several streams share the
  device, or it is a HIP device whose reserve covers the headroom; and jobs below
  eight blocks, whose pools are larger than their estimate, fit into the default
  reserve at the tuned batch sizes (4096 jobs of 8 KiB, 32 MiB).  The constants of
  the code satisfy it with room to spare: `HIP_RESERVE_FLOOR_BYTES` is 1 GiB,
  `DEVICE_HEADROOM_BYTES` 512 MiB, `DEFAULT_MEMORY_RESERVE_BYTES` 100 MiB.  What it
  leaves out is real: on CUDA a single stream is sized without the headroom, and an
  explicit `--batchSize` at a cost below 8 may be larger than its estimate says.

**`CircuitBreakerProofs`.**  One lemma per method: what it does to the state, the
failure count, the interval, the deadline and the admission.  Later proofs cite
these and never expand a method.

**`OutageProbingProofs`.**  Type correctness, `HalfOpenLatch`, `ProbeStaysNear`,
`OpensOnlyOnStreak` and `OutageNeverShortensInterval` for every configuration.
None is inductive alone: `BreakerInv` adds which request may be in flight in
which state of the breaker, and that `consecutive_failures` is the length of the
streak the history variable counts, in a Closed breaker.

**`SubmissionManagerProofs`.**  For any finds, difficulties, limits and breaker
configuration, and with every disturbance of `AllEvents`:

| theorem | states |
| --- | --- |
| `SubmissionTypeCorrect` | `TypeOK` |
| `AckedIsStoredTheorem` | a find is Acked only with a row on the server |
| `InHandUndisturbedTheorem` | nobody moves a row between its fetch and its record |
| `AdmissionReturnedTheorem` | every path gives the HalfOpen admission back |
| `XuniBudgetTheorem` | no XUNI outlives, or dies before, its budget of windows |
| `ImplementsLifecycle` | the submission layer implements `FindLifecycle` |

The inductive invariant is `SafetyInv`.  To the properties it adds `InHand`, what
each thread holds by where it is (a record when an answer is pending, a
difficulty when one is to be observed, a batch exactly while it is looked up),
and `BreakerFits` (an attempt is never in hand under an Open breaker, a probe
only under one, and a Closed breaker is below its threshold): without the second
an inconclusive answer could meet a breaker that opened in between and the
admission would not come back.  The argument goes through one lemma,
`TableStep`: whichever action is taken, every row makes one of the few moves of
`RowMoves`.  That lemma needs `InHandUndisturbed`, because `record_attempt`
overwrites the status whatever it is by then; from `RowMoves`, `AckedIsStored`,
`XuniBudget` and the refinement follow without looking at an action again.
`BreakerStep`, `ThreadStep`, `HandStep` and `FlagsStep` do the rest, one case per
action.

**`FindCaptureProofs`.**  `DurableSurvivesTheorem`, `ArchivedWhenImportedTheorem`
and type correctness, for any number of finds, crashes and imports.  That a
durable find is in the journal or importable is not inductive, because whether a
line is importable depends on what was written before it on the same line and on
how much of the file a power loss leaves.  The invariant says of each thread what
its stage implies: a find at `journaled` has a row (`JournaledHasRow`); one at
`fallback` has exactly one write in the sink (`WrittenOnce`, `RecordIsThere`),
whole and on its own line unless the find is in `behind` (`RecordIsWhole`), inside
the synced prefix (`FallbackIsKept`) of a file that has a durable name unless the
find is in `nameless` (`EntryProtects`).  `PassedIsImported` carries the import:
every line it has passed has a row, which is what makes `ArchivedWhenImported`
hold at the rename; `BootIsQuiet` says that nobody appends meanwhile.

**`PlatformManagerProofs`.**  `ContextFollowsLease` speaks of quiet moments only, so
the invariant `OneAtATime` says what is true between the calls: while the manager
runs and no command has crossed a tick, either the watchdog has nothing to do with
the lease and the dispatch thread takes it (`Taking`), gives it back (`GivingBack`)
or leaves it alone (`Dispatching`), or the watchdog is ending it in Mining or
Completed and the dispatch thread has only callbacks to run (`Watching`).  Each
phase is named by what is left of a thread's calls and relates lease, context and
state.  An assignment keeps it because the rig is Available in no state of
`Watching`.  Both lease theorems follow, for every set of commands.
`StopHasTheLastWord` is the safety part of
`ShutdownObeyed` (`IdleAtTheEnd`) and allows every command: `StopIsLast` says that
once `running` is false exactly one thread runs `stop`, and that after its join
nobody is left who could change the state.  The rest is lemmas about sequences of
calls: what remains of one after its head is taken.

**`MiningUnitsProofs`.**  Every step of a stream is a move of that stream alone
(`Moves`), so an invariant about all streams is kept if what the stream carries at
its new stage is right (`MoveKept`), one lemma per action.  `Genuine` says which
content lies in which buffer at each stage: the salt and cost of the unit in the
first blocks before the run, in the pool before the finish, and nothing pending
when staging begins, without which a host-filled batch could run on the previous
device-prepared keys.  `Safe` bounds each pool by its share and says that nothing
is copying when a batch begins; that a failed batch leaves its copy queued is
harmless because the next unit releases the pool before it measures.  Below it are
the lemmas on batch sizes: a batch's jobs fit what is free beyond the reserve
(`LimitBounds`), hence the share (`PlanFits`); streams within their shares leave
the others theirs (`HeldTogether`), so a stream plans what it would on an idle
device (`PlanIsFair`).

**`SupervisionProofs`.**  `ConsumersOutliveProducersTheorem`,
`ExitCodeTellsDurabilityTheorem` and type correctness for any number of devices
and workers.  `ThreadsFollowMain` and `ServicesFollowMain` say, for each stage of
`run` and `finish`, which threads and services can be up (the platform manager as
long as no remote shutdown was asked for); `LossIsTold` that a lost
find has its reason, then its flag, in the order the code sets them, before the
verdict reads them; `GaugeCounts` that the gauge of active workers is their number.

**`InputProofs`.**  What the miner makes of what it is told: eight theorems on
`Answers`, two on `DifficultySync`, two on `MqttLink` and one on `HashBatch`.
`WellAsked` is the invariant of `Answers`: a question has its type, and one that
is a state has the invariant of that state (`Remembers`, `Watching` or `OnLane`).

* The classifier's and the self-test's theorems are case analyses over every
  response and any number of devices.
* `TwiceOnlyAtTheEdgeTheorem` needs `Remembers`: the nonce cache is a suffix of the
  commands obeyed, and a command it no longer holds has expired or was followed by
  `capacity` others.
* `TimeIsExactTheorem` holds for every day, before and after the epoch, every
  second since it and every length of the window.  The conversion is taken apart
  as the code computes it: an era is 400 years of 146097 days; `YearOf` and
  `MonthOf` are right because their quotients lie between the two `YearStart`s and
  `MonthStart`s around the day, which is linear arithmetic once every division is
  replaced by the inequalities that define it (`Divide`); the day after a date is
  then one of four cases (within a month, a year, an era, or into the next).
* `RelaunchIsStableTheorem` follows `resolve` section by section: what the
  identity, each setting and the file are after a launch that went ahead, and that
  each of them is read again as itself with nobody to ask.
* `HeadroomCoversRiseTheorem` needs `Watching`: the outage clock runs exactly while
  the breaker was last seen Open, and from the step that first saw it so.  The
  second half is that the ticks between that moment and the end of the running
  period are at most the periods begun, whatever the phase.
* `LaneIsArgon2idTheorem` needs `OnLane`: where the lane stands is its slice and
  place; in the first two slices the input counter is the number of the address
  block that covers the place before it, and past the first place of a slice the
  address block was made from that input.  With it the reference of every block is
  the one RFC 9106 names, and `compute_ref_pos` stays below the block before for
  every index.  That the first blocks are written once is the fact that group and
  item number the jobs (`GroupsCover`).
* `RestartKeepsDifficultyTheorem` needs `InHand`: the file the poller is about to
  rename is whole and holds its sample, which is the server's.
* `DialsInTimeTheorem` and `PumpEndsForGood` are what `SubscriptionsHold` and
  `ShutdownReturns` say without fairness, for every backoff and any number of
  outages.  `LinkInv` says why: what is left of a sleep and the time the broker has
  been back add up to at most `max`, because a sleep begins only where that time is
  zero; and the flag is up only over a session, which a pump that ended has not.
* `FeeSharesTheorem` is the part of `AccountsBalance` about `select_work`, for every
  length of the cycle: the batches of each beneficiary are an interval of it.

Left to TLC, because TLAPS does not do fairness: `Recovery`, `Drains`, `Settles`,
the leads-to of `ShutdownObeyed`, `SubscriptionsHold` and
`ShutdownReturns`, `Agree`, `UnitsFollowDifficulty` and `ShutdownCompletes`.
Because they need induction over data or bitwise definitions: the rest of
`AccountsBalance`, which is about folds over the matches of a batch and the split
of its slots, and `KernelIsArgon2id`, which is about the words a work-item
exchanges by `xor` of its index and about buffers cut at any place.

## Not modelled

* The pacing rate, metrics, callbacks and logging of the submission manager; the
  text of messages; the SQL schema's observability columns.  One of the callbacks,
  the difficulty hint of a 401 (`run.rs` 493-505), is a fourth writer of the
  difficulty; the next poll corrects what it wrote, as it does `set_config`.
* Heartbeats, metrics and reports of finds of the platform (`reporter.rs` beyond the
  registration, `on_block_found`, which attributes a find to the lease of the
  moment), the secret file, JSON decoding and HMAC.
* Of the transport: a ConnAck that refuses (`transport.rs` 386-391), which only puts
  the flag down; and the request channel is larger than what a replay asks for within
  the bounds, so a subscription dropped at a full channel does not occur.
* The hashrate and pause gauges of the CPU workers.
* The arithmetic of the BLAKE2b and Argon2 rounds, the HIP bindings and the build
  script: bit-exact code that test vectors check.
* Dashboard, terminal, console, statistics and the `hash` command line: they
  read the miner's state and change none of it.
* The C++ miner, which the Rust crates replace, and the Python platform server,
  another program whose messages the models treat as inputs.

## Plan

1. (done) breaker and drain thread, journal, classifier, composition with the
   poller, the server and crashes, abstract lifecycle; find capture.
2. (done) margin, difficulty cache and its writers, calendar and window;
   platform control, envelopes and transport; mining units, device pools,
   batches and kernels; self-test, configuration, supervision.
3. (done) theorems: durability of `FindCapture`; leases and stop of
   `PlatformManager`; genuine finds and safe pools for any number of streams;
   supervision for any number of threads; classifier, self-test, nonce cache and
   difficulty cache for every input.
4. (done) theorems: the calendar on every day and the window for every length,
   every launch, the safety margin over any outage, the lane of a GPU job, the
   reconnect bound of `MqttLink`, the fee's share of a cycle.

What would come next is outside the provers' reach as it stands: the fold of
`HashBatch` as a loop with an invariant, and the words of `Argon2Kernel` with the
permutation stated without `xor`.
