---------------------------- MODULE Supervision ----------------------------
(***************************************************************************)
(* The life of the process: run() and finish() of treeminer/src/run.rs on   *)
(* the main thread, from device enumeration to the exit code, with the      *)
(* threads it starts and joins, the fatal durability declaration of         *)
(* state.rs, and the CPU sidecar group of cpuworker.rs.                     *)
(*                                                                         *)
(* A GPU mining thread, the difficulty poller, the submission drain thread  *)
(* and the platform are reduced here to what the main thread waits for;     *)
(* MiningUnits, DifficultySync, SubmissionManager and PlatformManager model *)
(* them.                                                                    *)
(***************************************************************************)
EXTENDS Naturals, FiniteSets

CONSTANTS Configs,        \* resolved options: what is to be started
          Devices,        \* the selected GPUs
          Workers,        \* the CPU workers
          Drain,          \* the drain thread
          NetworkCosts,   \* difficulties of the network
          MinCpuCost,     \* MIN_ARGON2_CPU_DIFFICULTY
          MaxCpuCost,     \* --cpuMaxDifficulty
          InitialDifficulty,
          MaxMoves,       \* bound on changes of the difficulty
          MaxLosses       \* bound on finds that can be persisted nowhere

ASSUME ConfigsAssumption ==
    Configs \subseteq [execute : BOOLEAN, fixed : BOOLEAN, platform : BOOLEAN,
                       terminal : BOOLEAN]

ASSUME ThreadsAssumption ==
    /\ Devices \cap Workers = {} /\ Drain \notin Devices \cup Workers
    /\ IsFiniteSet(Workers)

ASSUME CostsAssumption ==
    /\ NetworkCosts \subseteq Nat /\ InitialDifficulty \in NetworkCosts
    /\ {MinCpuCost, MaxCpuCost, MaxMoves, MaxLosses} \subseteq Nat

VARIABLES
    config,     \* the resolved options
    stage,      \* the main thread
    code,       \* the exit code, Unset before the exit
    running,    \* Shutdown
    asked,      \* PlatformManager::shutdown_requested
    paused,     \* MiningState::mining_paused
    difficulty, moves,
    fatal,      \* fatal_durability
    reason,     \* fatal_reason is not empty
    lost,       \* how many finds could be persisted nowhere
    pc,         \* GPU threads, CPU workers and the drain thread
    seen,       \* the difficulty a CPU worker hashes at
    cpu,        \* the CPU group's stop flag and its count of active workers
    services    \* poller, dashboard, terminal; the platform's manager and supervisor

Unset == 3
EXIT_OK == 0
EXIT_FAILURE == 1
EXIT_DURABILITY == 2

Threads == Devices \cup Workers \cup {Drain}
Declaring == {"reason", "flag", "stop"}
ThreadStages == {"none", "top", "gate", "hash", "exit", "done"} \cup Declaring
Alive(t) == pc[t] \notin {"none", "done"}

main == <<stage, code, config>>
state == <<running, asked, paused, difficulty, moves, fatal, reason, lost>>
vars == <<main, state, pc, seen, cpu, services>>

\* The order of run() and of finish().
Stages == {"start", "devices", "selftest", "platform", "journal", "submitter",
           "poller", "display", "cpu", "gpu", "runtime", "dashboard", "report",
           "stopDashboard", "finish", "joinCpu", "joinGpu",
           "joinPoller", "stopTerminal", "stopPlatform", "stopManager",
           "verdict", "exited"}

Services == {"poller", "dashboard", "terminal", "platform", "supervisor"}

TypeOK ==
    /\ config \in Configs
    /\ stage \in Stages /\ code \in 0..Unset
    /\ {running, asked, paused, fatal, reason} \subseteq BOOLEAN /\ lost \in 0..MaxLosses
    /\ difficulty \in NetworkCosts /\ moves \in 0..MaxMoves
    /\ pc \in [Threads -> ThreadStages]
    /\ seen \in [Workers -> NetworkCosts \cup {0}]
    /\ cpu \in [stop : BOOLEAN, active : 0..Cardinality(Workers)]
    /\ services \subseteq Services

Init ==
    /\ config \in Configs
    /\ stage = "start" /\ code = Unset
    /\ running = TRUE /\ asked = FALSE /\ paused = FALSE
    /\ difficulty = InitialDifficulty /\ moves = 0
    /\ fatal = FALSE /\ reason = FALSE /\ lost = 0
    /\ pc = [t \in Threads |-> "none"]
    /\ seen = [w \in Workers |-> 0]
    /\ cpu = [stop |-> FALSE, active |-> 0]
    /\ services = {}

-----------------------------------------------------------------------------
(* The main thread.                                                         *)

Proceed(from, to) == stage = from /\ stage' = to
Return(from, exit) == stage = from /\ stage' = "exited" /\ code' = exit
UnchangedMain == UNCHANGED <<code, config>>

\* Monitor mode, no device, a fatal self-test: nothing has been started.
GiveUpEarly ==
    /\ \/ Return("start", EXIT_OK) /\ ~config.execute
       \/ Return("devices", EXIT_FAILURE)
       \/ Return("selftest", EXIT_FAILURE)
    /\ UNCHANGED <<config, state, pc, seen, cpu, services>>

PrepareDevices ==
    /\ \/ Proceed("start", "devices") /\ config.execute
       \/ Proceed("devices", "selftest")
       \/ Proceed("selftest", "platform")
    /\ UnchangedMain /\ UNCHANGED <<state, pc, seen, cpu, services>>

\* start_if_enabled: platform mode needs its credentials.  PlatformRuntime::start
\* starts the manager's threads and the supervisor.
StartPlatform ==
    /\ \/ /\ Proceed("platform", "journal")
          /\ services' = IF config.platform THEN services \cup {"platform", "supervisor"}
                       ELSE services
          /\ UNCHANGED code
       \/ /\ Return("platform", EXIT_FAILURE) /\ config.platform
          /\ UNCHANGED services
    /\ UNCHANGED <<config, state, pc, seen, cpu>>

\* FindJournal::open and open_journal_banner; recovery errors are only logged.
OpenJournal ==
    /\ \/ Proceed("journal", "submitter") /\ UNCHANGED code
       \/ Return("journal", EXIT_FAILURE)
    /\ UNCHANGED <<config, state, pc, seen, cpu, services>>

\* build_submitter; a fixed test difficulty submits nothing.
StartSubmitter ==
    /\ \/ /\ Proceed("submitter", "poller")
          /\ pc' = IF config.fixed THEN pc ELSE [pc EXCEPT ![Drain] = "top"]
          /\ UNCHANGED code
       \/ Return("submitter", EXIT_FAILURE) /\ ~config.fixed /\ UNCHANGED pc
    /\ UNCHANGED <<config, state, seen, cpu, services>>

\* spawn_difficulty_poller and start_display.
StartHelper ==
    /\ \/ /\ Proceed("poller", "display")
          /\ services' = IF config.fixed THEN services ELSE services \cup {"poller"}
       \/ /\ Proceed("display", "cpu")
          /\ services' = IF config.terminal THEN services \cup {"terminal"} ELSE services
    /\ UnchangedMain /\ UNCHANGED <<state, pc, seen, cpu>>

\* start_cpu_workers; every worker counts itself active when it runs.
StartCpu ==
    /\ Proceed("cpu", "gpu")
    /\ pc' = [t \in Threads |-> IF t \in Workers THEN "top" ELSE pc[t]]
    /\ cpu' = [cpu EXCEPT !.active = Cardinality(Workers)]
    /\ UnchangedMain /\ UNCHANGED <<state, seen, services>>

\* spawn_mining_threads: a device that failed the self-test or cannot be opened
\* again gets none, and with none at all the miner stops.
StartGpu ==
    /\ Proceed("gpu", "runtime")
    /\ \E opened \in SUBSET Devices :
         /\ pc' = [t \in Threads |-> IF t \in opened THEN "hash" ELSE pc[t]]
         /\ running' = (running /\ opened # {})
    /\ UnchangedMain
    /\ UNCHANGED <<asked, paused, difficulty, moves, fatal, reason, lost, seen, cpu, services>>

\* The tokio runtime and the dashboard.
StartRuntime ==
    /\ Proceed("runtime", "dashboard")
    /\ UnchangedMain /\ UNCHANGED <<state, pc, seen, cpu, services>>

RuntimeFails ==
    /\ Proceed("runtime", "finish")
    /\ running' = FALSE
    /\ UnchangedMain
    /\ UNCHANGED <<asked, paused, difficulty, moves, fatal, reason, lost,
                   pc, seen, cpu, services>>

StartDashboard ==
    /\ Proceed("dashboard", "report")
    /\ \E served \in {{}, {"dashboard"}} :
         services' = services \cup served
    /\ UnchangedMain /\ UNCHANGED <<state, pc, seen, cpu>>

\* report_loop ends and the HTTP server is stopped.  The telemetry thread that
\* report_loop joins only sleeps in slices that see the stop, like the poller.
EndReport ==
    /\ \/ Proceed("report", "stopDashboard") /\ ~running /\ UNCHANGED services
       \/ Proceed("stopDashboard", "finish")
          /\ services' = services \ {"dashboard"}
    /\ UnchangedMain /\ UNCHANGED <<state, pc, seen, cpu>>

\* finish: request_stop, clear the pause, stop the CPU group.
BeginFinish ==
    /\ Proceed("finish", "joinCpu")
    /\ running' = FALSE /\ paused' = FALSE
    /\ cpu' = [cpu EXCEPT !.stop = TRUE]
    /\ UnchangedMain
    /\ UNCHANGED <<asked, difficulty, moves, fatal, reason, lost, pc, seen, services>>

\* PlatformRuntime::stop: the manager is stopped, unless a remote shutdown did it,
\* and the supervisor is joined.
StopPlatform ==
    /\ Proceed("stopPlatform", "stopManager")
    /\ "supervisor" \notin services
    /\ services' = services \ {"platform"}

\* Mutant: the platform goes first, the CPU workers last.
PlatformFirst ==
    /\ \/ Proceed("joinCpu", "joinGpu") /\ UNCHANGED services
       \/ Proceed("joinGpu", "joinPoller")
          /\ (\A d \in Devices : ~Alive(d)) /\ UNCHANGED services
       \/ Proceed("joinPoller", "stopTerminal")
          /\ "poller" \notin services /\ UNCHANGED services
       \/ Proceed("stopTerminal", "stopPlatform")
          /\ services' = services \ {"terminal"}
       \/ StopPlatform
    /\ UnchangedMain /\ UNCHANGED <<state, pc, seen, cpu>>

\* The joins of finish, in its order; then the terminal and the platform.
Join ==
    /\ \/ Proceed("joinCpu", "joinGpu")
          /\ (\A w \in Workers : ~Alive(w)) /\ UNCHANGED services
       \/ Proceed("joinGpu", "joinPoller")
          /\ (\A d \in Devices : ~Alive(d)) /\ UNCHANGED services
       \/ Proceed("joinPoller", "stopTerminal")
          /\ "poller" \notin services /\ UNCHANGED services
       \/ Proceed("stopTerminal", "stopPlatform")
          /\ services' = services \ {"terminal"}
       \/ StopPlatform
    /\ UnchangedMain /\ UNCHANGED <<state, pc, seen, cpu>>

\* Mutant: the manager is told to stop but not waited for.
StopWithoutJoin ==
    /\ Proceed("stopManager", "verdict")
    /\ UnchangedMain /\ UNCHANGED <<state, pc, seen, cpu, services>>

\* SubmissionManager::stop joins the drain thread.
StopManager ==
    /\ Proceed("stopManager", "verdict")
    /\ ~Alive(Drain)
    /\ UnchangedMain /\ UNCHANGED <<state, pc, seen, cpu, services>>

ExitVerdict ==
    /\ Return("verdict", IF fatal THEN EXIT_DURABILITY ELSE EXIT_OK)
    /\ UNCHANGED <<config, state, pc, seen, cpu, services>>

Main ==
    \/ GiveUpEarly \/ PrepareDevices \/ StartPlatform \/ OpenJournal
    \/ StartSubmitter \/ StartHelper \/ StartCpu \/ StartGpu \/ StartRuntime
    \/ RuntimeFails \/ StartDashboard \/ EndReport \/ BeginFinish \/ Join
    \/ StopManager \/ ExitVerdict

-----------------------------------------------------------------------------
(* declare_fatal_durability_failure, step by step: the reason is published  *)
(* before the flag, and the flag before the stop.  It runs on the thread    *)
(* that lost a find, or on the drain thread when the journal is unusable.   *)

Goto(t, next) == pc' = [pc EXCEPT ![t] = next]
Declares(t) == lost < MaxLosses /\ lost' = lost + 1 /\ Goto(t, "reason")

PublishReason(t) ==
    /\ pc[t] = "reason" /\ reason' = TRUE /\ Goto(t, "flag")
    /\ UNCHANGED <<fatal, running>>
RaiseFlag(t) ==
    /\ pc[t] = "flag" /\ fatal' = TRUE /\ Goto(t, "stop")
    /\ UNCHANGED <<reason, running>>
ThenStop(t) ==
    /\ pc[t] = "stop" /\ running' = FALSE
    /\ Goto(t, CASE t \in Workers -> "top" [] t \in Devices -> "hash" [] OTHER -> "exit")
    /\ UNCHANGED <<fatal, reason>>

Declare(t) ==
    /\ PublishReason(t) \/ RaiseFlag(t) \/ ThenStop(t)
    /\ UNCHANGED <<main, asked, paused, difficulty, moves, lost, seen, cpu, services>>

-----------------------------------------------------------------------------
(* The CPU sidecar: run_worker.                                             *)

\* The loop condition, then the bare network difficulty without the margin.
WorkerTop(w) ==
    /\ pc[w] = "top"
    /\ IF cpu.stop \/ ~running
       THEN Goto(w, "exit") /\ UNCHANGED seen
       ELSE Goto(w, "gate") /\ seen' = [seen EXCEPT ![w] = difficulty]
    /\ UNCHANGED <<main, state, cpu, services>>

\* record_error stops the whole group; its message is left out.
RecordError == [cpu EXCEPT !.stop = TRUE]

\* Below Argon2's floor the group fails; above the ceiling, or while mining is
\* paused, the worker idles.  The gauges it shows meanwhile are left out.
WorkerGate(w) ==
    /\ pc[w] = "gate"
    /\ \/ /\ seen[w] < MinCpuCost
          /\ cpu' = RecordError /\ Goto(w, "exit")
       \/ /\ seen[w] > MaxCpuCost
          /\ Goto(w, "top") /\ UNCHANGED cpu
       \/ /\ seen[w] \in MinCpuCost..MaxCpuCost
          /\ Goto(w, IF paused THEN "top" ELSE "hash") /\ UNCHANGED cpu
    /\ seen' = [seen EXCEPT ![w] = 0]
    /\ UNCHANGED <<main, state, services>>

\* A batch: it fails, it finds nothing or records its finds, or a find can be
\* persisted nowhere.
WorkerHash(w) ==
    /\ pc[w] = "hash"
    /\ \/ cpu' = RecordError /\ Goto(w, "exit") /\ UNCHANGED lost
       \/ Goto(w, "top") /\ UNCHANGED <<cpu, lost>>
       \/ Declares(w) /\ UNCHANGED cpu
    /\ UNCHANGED <<main, running, asked, paused, difficulty, moves, fatal, reason,
                   seen, services>>

\* The tail of run_worker.
WorkerExit(w) ==
    /\ pc[w] = "exit"
    /\ cpu' = [cpu EXCEPT !.active = @ - 1]
    /\ Goto(w, "done")
    /\ UNCHANGED <<main, state, seen, services>>

Worker(w) ==
    WorkerTop(w) \/ WorkerGate(w) \/ WorkerHash(w) \/ WorkerExit(w) \/ Declare(w)

-----------------------------------------------------------------------------
(* The other threads.                                                       *)

\* A find of a mining thread's batch is lost, or the drain thread finds the
\* journal unusable.
LosesFind(t) ==
    /\ \/ t \in Devices /\ pc[t] = "hash"
       \/ t = Drain /\ pc[t] = "top"
    /\ Declares(t)
    /\ UNCHANGED <<main, running, asked, paused, difficulty, moves, fatal, reason,
                   seen, cpu, services>>

\* A mining thread leaves when it sees the stop; the drain thread when
\* SubmissionManager::stop is called, or after its fatal error.
Ends(t) ==
    /\ \/ t \in Devices /\ pc[t] = "hash" /\ ~running
       \/ t = Drain /\ pc[t] = "top" /\ stage = "stopManager"
       \/ t = Drain /\ pc[t] = "exit"
    /\ Goto(t, "done")
    /\ UNCHANGED <<main, state, seen, cpu, services>>

Producer(t) == Ends(t) \/ Declare(t)

\* Mutant: the poller thread sits out a pause.
SitsOutPause(s) == s \in services /\ ~running /\ ~paused

\* sleep_while: the poller sees the stop between slices.
SeesStop(s) == s \in services /\ ~running

HelperEnds(s) ==
    /\ SeesStop(s)
    /\ services' = services \ {s}
    /\ UNCHANGED <<main, state, pc, seen, cpu>>

\* The poller, the supervisor or a hint of the submitter moves the difficulty.
DifficultyMoves ==
    /\ moves < MaxMoves
    /\ services \cap {"poller", "supervisor"} # {} \/ Alive(Drain)
    /\ moves' = moves + 1
    /\ difficulty' \in NetworkCosts \ {difficulty}
    /\ UNCHANGED <<main, running, asked, paused, fatal, reason, lost, pc, seen, cpu, services>>

\* The platform pauses and resumes, even while finish() is joining.
PlatformPauses ==
    /\ "platform" \in services
    /\ paused' = ~paused
    /\ UNCHANGED <<main, running, asked, difficulty, moves, fatal, reason, lost,
                   pc, seen, cpu, services>>

\* SIGINT or SIGTERM, once the handlers are installed.
Signal ==
    /\ running /\ stage \in {"dashboard", "report"}
    /\ running' = FALSE
    /\ UNCHANGED <<main, asked, paused, difficulty, moves, fatal, reason, lost,
                   pc, seen, cpu, services>>

\* A signed remote shutdown, on the manager's dispatch thread: it leaves word for the
\* supervisor, and then stops the manager, while the miner still runs.
RemoteShutdown ==
    /\ "platform" \in services /\ ~asked
    /\ asked' = TRUE
    /\ UNCHANGED <<main, running, paused, difficulty, moves, fatal, reason, lost,
                   pc, seen, cpu, services>>

ManagerStops ==
    /\ "platform" \in services /\ asked
    /\ services' = services \ {"platform"}
    /\ UNCHANGED <<main, state, pc, seen, cpu>>

\* supervise: it carries a remote shutdown into the miner, and ends with the miner.
Supervise ==
    /\ "supervisor" \in services /\ (asked \/ ~running)
    /\ running' = FALSE
    /\ services' = services \ {"supervisor"}
    /\ UNCHANGED <<main, asked, paused, difficulty, moves, fatal, reason, lost,
                   pc, seen, cpu>>

Others ==
    DifficultyMoves \/ PlatformPauses \/ Signal \/ RemoteShutdown \/ ManagerStops \/ Supervise

Exited == stage = "exited" /\ UNCHANGED vars

Next ==
    \/ /\ stage # "exited"
       /\ \/ Main \/ Others
          \/ \E w \in Workers : Worker(w)
          \/ \E t \in Devices \cup {Drain} : LosesFind(t) \/ Producer(t)
          \/ HelperEnds("poller")
    \/ Exited

Spec == Init /\ [][Next]_vars

\* Every thread of the process is scheduled; what a batch or a start-up call
\* returns, which finds are lost and what the outside does is left open.
FairSpec ==
    /\ Spec
    /\ WF_vars(stage # "exited" /\ Main)
    /\ \A w \in Workers : WF_vars(stage # "exited" /\ Worker(w))
    /\ \A t \in Devices \cup {Drain} : WF_vars(stage # "exited" /\ Producer(t))
    /\ WF_vars(stage # "exited" /\ HelperEnds("poller"))
    /\ WF_vars(stage # "exited" /\ ManagerStops)
    /\ WF_vars(stage # "exited" /\ Supervise)

-----------------------------------------------------------------------------
\* While anything can still record a find, the submitter that is told of it is up,
\* and so is the platform manager that reports it, unless the platform itself ordered
\* the shutdown: then the manager stops first, and find_observer reports nothing of
\* the mining threads that are still to be joined, in spite of what PlatformRuntime::
\* stop says of a find in flight.  When the submitter is stopped no service is left
\* (the order of run() and finish()).
ConsumersOutliveProducers ==
    stage # "exited" =>
        /\ (\E t \in Workers \cup Devices : Alive(t)) /\ config.platform /\ ~asked =>
               "platform" \in services
        /\ stage \in {"stopManager", "verdict"} =>
               /\ \A t \in Workers \cup Devices : ~Alive(t)
               /\ services = {}

\* The exit code tells the supervisor of a lost find, whichever thread lost
\* it and however late in the teardown, and a reason stands behind it.
ExitCodeTellsDurability ==
    stage = "exited" =>
        /\ code = EXIT_DURABILITY <=> lost > 0
        /\ code = EXIT_DURABILITY => reason

\* Once the miner is asked to stop, by a thread, a signal or the platform and at
\* whatever point of the start-up or the run, the process ends: a remote shutdown
\* reaches the miner although the manager that took it is gone by then, and no join
\* waits for a thread that idles, even when the platform pauses mining again during
\* the teardown.
ShutdownCompletes == (~running \/ asked) ~> stage = "exited"
=============================================================================
