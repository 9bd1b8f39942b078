------------------------- MODULE SupervisionProofs -------------------------
(***************************************************************************)
(* Safety of the process's life for any number of devices, CPU workers,     *)
(* lost finds and changes of difficulty.                                    *)
(***************************************************************************)
EXTENDS Supervision, FiniteSetTheorems, TLAPS

\* The type invariant without the gauge of active workers, which has to be
\* counted (GaugeCounts).
Typed ==
    /\ config \in Configs
    /\ stage \in Stages /\ code \in 0..Unset
    /\ running \in BOOLEAN /\ asked \in BOOLEAN /\ paused \in BOOLEAN
    /\ fatal \in BOOLEAN /\ reason \in BOOLEAN /\ lost \in 0..MaxLosses
    /\ difficulty \in NetworkCosts /\ moves \in 0..MaxMoves
    /\ pc \in [Threads -> ThreadStages]
    /\ seen \in [Workers -> NetworkCosts \cup {0}]
    /\ cpu \in [stop : BOOLEAN, active : Int]
    /\ services \subseteq Services

\* run() has started nothing that could lose a find.
BeforeThreads == {"start", "devices", "selftest", "platform", "journal", "submitter"}
BeforeCpu == BeforeThreads \cup {"poller", "display", "cpu"}
BeforeGpu == BeforeCpu \cup {"gpu"}
BeforeDashboard == BeforeGpu \cup {"runtime", "dashboard"}

\* finish() from its first join on, from its second, and so on.
AfterCpu == {"joinGpu", "joinPoller", "stopTerminal", "stopPlatform", "stopManager",
             "verdict"}
AfterGpu == AfterCpu \ {"joinGpu"}
AfterPoller == AfterGpu \ {"joinPoller"}
AfterTerminal == AfterPoller \ {"stopTerminal"}
AfterPlatform == AfterTerminal \ {"stopPlatform"}

\* Which threads live while the main thread is at which stage.
ThreadsFollowMain ==
    /\ stage \in BeforeThreads => pc[Drain] = "none"
    /\ stage \in BeforeCpu => \A w \in Workers : pc[w] = "none"
    /\ stage \in BeforeGpu => \A d \in Devices : pc[d] = "none"
    /\ stage \in AfterCpu => \A w \in Workers : ~Alive(w)
    /\ stage \in AfterGpu => \A d \in Devices : ~Alive(d)
    /\ stage = "verdict" => ~Alive(Drain)

\* Which services run while the main thread is at which stage.
ServicesFollowMain ==
    /\ stage \in BeforeThreads \ {"journal", "submitter"} => services = {}
    /\ stage \in BeforeDashboard \cup {"finish", "joinCpu"} \cup AfterCpu =>
           "dashboard" \notin services
    /\ config.platform /\ ~asked /\ stage \notin AfterPlatform \cup {"exited"}
           /\ stage \notin BeforeThreads \ {"journal", "submitter"} =>
           "platform" \in services
    /\ stage \in AfterPoller => "poller" \notin services
    /\ stage \in AfterTerminal => "terminal" \notin services
    /\ stage \in AfterPlatform => services \cap {"platform", "supervisor"} = {}

\* A lost find is known to the process, or to a thread that is about to tell.
LossIsTold ==
    /\ lost > 0 => fatal \/ \E t \in Threads : pc[t] \in {"reason", "flag"}
    /\ fatal => lost > 0 /\ reason
    /\ \A t \in Threads : pc[t] \in Declaring => lost > 0
    /\ \A t \in Threads : pc[t] = "flag" => reason
    /\ stage \in BeforeThreads => lost = 0

\* The gauge of active workers counts the workers that run.
GaugeCounts == cpu.active = Cardinality({w \in Workers : Alive(w)})

IInv ==
    /\ Typed /\ ThreadsFollowMain /\ ServicesFollowMain /\ LossIsTold
    /\ ExitCodeTellsDurability

-----------------------------------------------------------------------------
USE ThreadsAssumption, CostsAssumption, ConfigsAssumption
USE DEF Stages, Threads, ThreadStages, Services, BeforeThreads, BeforeCpu, BeforeGpu,
        BeforeDashboard, AfterCpu, AfterGpu, AfterPoller, AfterTerminal, AfterPlatform,
        Unset, EXIT_DURABILITY, EXIT_OK, EXIT_FAILURE, Declaring

LEMMA InitIInv == Init => IInv
<1> SUFFICES ASSUME Init PROVE IInv
  OBVIOUS
<1> USE DEF Init
<1>1. Typed
  <2>1. code \in 0..Unset /\ lost \in 0..MaxLosses /\ moves \in 0..MaxMoves
    OBVIOUS
  <2>2. cpu \in [stop : BOOLEAN, active : Int]
    OBVIOUS
  <2>3. pc \in [Threads -> ThreadStages] /\ seen \in [Workers -> NetworkCosts \cup {0}]
    OBVIOUS
  <2> QED  BY <2>1, <2>2, <2>3 DEF Typed
<1>2. ThreadsFollowMain
  BY DEF ThreadsFollowMain
<1>3. ServicesFollowMain
  BY DEF ServicesFollowMain
<1>4. LossIsTold
  BY DEF LossIsTold
<1>5. ExitCodeTellsDurability
  BY DEF ExitCodeTellsDurability
<1> QED  BY <1>1, <1>2, <1>3, <1>4, <1>5 DEF IInv

\* The main thread's steps.
LEMMA MainIInv == IInv /\ stage # "exited" /\ Main => IInv'
<1> SUFFICES ASSUME IInv, stage # "exited", Main  PROVE IInv'
  OBVIOUS
<1> USE DEF IInv, Proceed, Return, UnchangedMain, state, main
<1>1. CASE GiveUpEarly
  BY <1>1 DEF GiveUpEarly, Typed, ThreadsFollowMain, ServicesFollowMain, LossIsTold,
     ExitCodeTellsDurability, Alive
<1>2. CASE PrepareDevices
  BY <1>2 DEF PrepareDevices, Typed, ThreadsFollowMain, ServicesFollowMain, LossIsTold,
     ExitCodeTellsDurability, Alive
<1>3. CASE StartPlatform
  <2> USE <1>3 DEF StartPlatform
  <2>1. Typed'
    <3>1. services' \subseteq Services
      BY DEF Typed
    <3>2. code' \in 0..Unset /\ stage' \in Stages
      BY DEF Typed
    <3> QED  BY <3>1, <3>2 DEF Typed
  <2>2. ThreadsFollowMain'
    BY DEF Typed, ThreadsFollowMain, Alive
  <2>3. ServicesFollowMain'
    BY DEF Typed, ServicesFollowMain
  <2>4. LossIsTold'
    BY DEF Typed, LossIsTold
  <2>5. ExitCodeTellsDurability'
    BY DEF Typed, LossIsTold, ExitCodeTellsDurability
  <2> QED  BY <2>1, <2>2, <2>3, <2>4, <2>5
<1>4. CASE OpenJournal
  BY <1>4 DEF OpenJournal, Typed, ThreadsFollowMain, ServicesFollowMain, LossIsTold,
     ExitCodeTellsDurability, Alive
<1>5. CASE StartSubmitter
  BY <1>5 DEF StartSubmitter, Typed, ThreadsFollowMain, ServicesFollowMain, LossIsTold,
     ExitCodeTellsDurability, Alive
<1>6. CASE StartHelper
  <2> USE <1>6 DEF StartHelper
  <2>1. Typed'
    BY DEF Typed
  <2>2. ThreadsFollowMain'
    BY DEF Typed, ThreadsFollowMain, Alive
  <2>3. ServicesFollowMain'
    BY DEF Typed, ServicesFollowMain
  <2>4. LossIsTold'
    BY DEF Typed, LossIsTold
  <2>5. ExitCodeTellsDurability'
    BY DEF ExitCodeTellsDurability
  <2> QED  BY <2>1, <2>2, <2>3, <2>4, <2>5
<1>7. CASE StartCpu
  <2> USE <1>7 DEF StartCpu
  <2>1. Typed'
    <3>1. Cardinality(Workers) \in Int
      BY FS_CardinalityType
    <3>2. cpu' \in [stop : BOOLEAN, active : Int]
      BY <3>1 DEF Typed
    <3>3. pc' \in [Threads -> ThreadStages]
      BY DEF Typed
    <3> QED  BY <3>2, <3>3 DEF Typed
  <2>2. ThreadsFollowMain'
    BY DEF Typed, ThreadsFollowMain, Alive
  <2>3. ServicesFollowMain'
    BY DEF Typed, ServicesFollowMain
  <2>4. LossIsTold'
    BY DEF Typed, LossIsTold, ThreadsFollowMain
  <2>5. ExitCodeTellsDurability'
    BY DEF ExitCodeTellsDurability
  <2> QED  BY <2>1, <2>2, <2>3, <2>4, <2>5
<1>8. CASE StartGpu
  BY <1>8 DEF StartGpu, Typed, ThreadsFollowMain, ServicesFollowMain, LossIsTold,
     ExitCodeTellsDurability, Alive
<1>9. CASE StartRuntime
  BY <1>9 DEF StartRuntime, Typed, ThreadsFollowMain, ServicesFollowMain, LossIsTold,
     ExitCodeTellsDurability, Alive
<1>10. CASE RuntimeFails
  BY <1>10 DEF RuntimeFails, Typed, ThreadsFollowMain, ServicesFollowMain, LossIsTold,
     ExitCodeTellsDurability, Alive
<1>11. CASE StartDashboard
  <2> USE <1>11 DEF StartDashboard
  <2>1. Typed'
    BY DEF Typed
  <2>2. ThreadsFollowMain'
    BY DEF Typed, ThreadsFollowMain, Alive
  <2>3. ServicesFollowMain'
    BY DEF Typed, ServicesFollowMain
  <2>4. LossIsTold'
    BY DEF Typed, LossIsTold
  <2>5. ExitCodeTellsDurability'
    BY DEF ExitCodeTellsDurability
  <2> QED  BY <2>1, <2>2, <2>3, <2>4, <2>5
<1>12. CASE EndReport
  <2> USE <1>12 DEF EndReport
  <2>1. Typed'
    BY DEF Typed
  <2>2. ThreadsFollowMain'
    BY DEF Typed, ThreadsFollowMain, Alive
  <2>3. ServicesFollowMain'
    BY DEF Typed, ServicesFollowMain
  <2>4. LossIsTold'
    BY DEF Typed, LossIsTold
  <2>5. ExitCodeTellsDurability'
    BY DEF ExitCodeTellsDurability
  <2> QED  BY <2>1, <2>2, <2>3, <2>4, <2>5
<1>13. CASE BeginFinish
  <2> USE <1>13 DEF BeginFinish
  <2>1. Typed'
    BY DEF Typed
  <2>2. ThreadsFollowMain'
    BY DEF Typed, ThreadsFollowMain, Alive
  <2>3. ServicesFollowMain'
    BY DEF Typed, ServicesFollowMain
  <2>4. LossIsTold'
    BY DEF Typed, LossIsTold
  <2>5. ExitCodeTellsDurability'
    BY DEF ExitCodeTellsDurability
  <2> QED  BY <2>1, <2>2, <2>3, <2>4, <2>5
<1>14. CASE Join
  <2> USE <1>14 DEF Join, StopPlatform
  <2>1. Typed'
    BY DEF Typed
  <2>2. ThreadsFollowMain'
    BY DEF Typed, ThreadsFollowMain, Alive
  <2>3. ServicesFollowMain'
    BY DEF Typed, ServicesFollowMain
  <2>4. LossIsTold'
    BY DEF Typed, LossIsTold
  <2>5. ExitCodeTellsDurability'
    BY DEF ExitCodeTellsDurability
  <2> QED  BY <2>1, <2>2, <2>3, <2>4, <2>5
<1>15. CASE StopManager
  <2> USE <1>15 DEF StopManager
  <2>1. Typed'
    BY DEF Typed
  <2>2. ThreadsFollowMain'
    BY DEF Typed, ThreadsFollowMain, Alive
  <2>3. ServicesFollowMain'
    BY DEF Typed, ServicesFollowMain
  <2>4. LossIsTold'
    BY DEF Typed, LossIsTold
  <2>5. ExitCodeTellsDurability'
    BY DEF ExitCodeTellsDurability
  <2> QED  BY <2>1, <2>2, <2>3, <2>4, <2>5
<1>16. CASE ExitVerdict
  BY <1>16 DEF ExitVerdict, Typed, ThreadsFollowMain, ServicesFollowMain, LossIsTold,
     ExitCodeTellsDurability, Alive
<1> QED  BY <1>1, <1>2, <1>3, <1>4, <1>5, <1>6, <1>7, <1>8, <1>9, <1>10, <1>11, <1>12, <1>13, <1>14, <1>15, <1>16 DEF Main

\* A step of a thread t changes the entry of t alone, and t was alive: a thread that
\* has not been started or is done takes no step.
ThreadMoves(t) ==
    /\ UNCHANGED <<main, asked, services>> /\ stage # "exited"
    /\ t \in Threads /\ Alive(t)
    /\ \E next \in ThreadStages \ {"none"} : pc' = [pc EXCEPT ![t] = next]

LEMMA ThreadKeepsOrder ==
  ASSUME Typed, ThreadsFollowMain, ServicesFollowMain, NEW t, ThreadMoves(t)
  PROVE  ThreadsFollowMain' /\ ServicesFollowMain' /\ ExitCodeTellsDurability'
<1> PICK next \in ThreadStages \ {"none"} : pc' = [pc EXCEPT ![t] = next]
  BY DEF ThreadMoves
<1>1. UNCHANGED <<stage, code, config, asked, services>> /\ stage # "exited"
  BY DEF ThreadMoves, main
<1>2. \A u \in Threads : u # t => pc'[u] = pc[u]
  BY DEF ThreadMoves, Typed
<1>3. pc[t] \notin {"none", "done"} /\ t \in Threads
  BY DEF ThreadMoves, Alive
<1>4. ThreadsFollowMain'
  BY <1>1, <1>2, <1>3 DEF ThreadsFollowMain, Alive
<1>5. ServicesFollowMain'
  BY <1>1 DEF ServicesFollowMain
<1> QED  BY <1>1, <1>4, <1>5 DEF ExitCodeTellsDurability

\* declare_fatal_durability_failure publishes the reason before the flag.
LEMMA DeclareIInv ==
  ASSUME IInv, stage # "exited", NEW t \in Threads, Declare(t)
  PROVE  IInv'
<1> USE DEF IInv, Declare, Goto, main
<1>1. CASE PublishReason(t)
  <2> USE <1>1 DEF PublishReason
  <2>1. Typed'
    BY DEF Typed
  <2>2. ThreadMoves(t)
    BY DEF ThreadMoves, Alive
  <2>3. LossIsTold'
    BY DEF Typed, LossIsTold
  <2> QED  BY <2>1, <2>2, <2>3, ThreadKeepsOrder
<1>2. CASE RaiseFlag(t)
  <2> USE <1>2 DEF RaiseFlag
  <2>1. Typed'
    BY DEF Typed
  <2>2. ThreadMoves(t)
    BY DEF ThreadMoves, Alive
  <2>3. LossIsTold'
    BY DEF Typed, LossIsTold
  <2> QED  BY <2>1, <2>2, <2>3, ThreadKeepsOrder
<1>3. CASE ThenStop(t)
  <2> USE <1>3 DEF ThenStop
  <2> DEFINE next == CASE t \in Workers -> "top" [] t \in Devices -> "hash" [] OTHER -> "exit"
  <2>1. next \in {"top", "hash", "exit"} /\ pc' = [pc EXCEPT ![t] = next]
    OBVIOUS
  <2> HIDE DEF next
  <2>2. Typed'
    BY <2>1 DEF Typed
  <2>3. ThreadMoves(t)
    BY <2>1 DEF ThreadMoves, Alive
  <2>4. LossIsTold'
    BY <2>1 DEF Typed, LossIsTold
  <2> QED  BY <2>2, <2>3, <2>4, ThreadKeepsOrder
<1> QED  BY <1>1, <1>2, <1>3

\* A find is counted as lost when its thread sets out to declare it.
LEMMA LosesIInv ==
  ASSUME IInv, stage # "exited", NEW t \in Threads, Alive(t), pc[t] \notin Declaring, Declares(t),
         UNCHANGED <<main, running, asked, paused, difficulty, moves, fatal, reason, seen, services>>,
         cpu' \in [stop : BOOLEAN, active : Int]
  PROVE  IInv'
<1> USE DEF IInv, Declares, Goto, main
<1>1. Typed'
  BY DEF Typed
<1>2. ThreadMoves(t)
  BY DEF ThreadMoves
<1>3. stage \notin BeforeThreads
  BY DEF ThreadsFollowMain, Alive
<1>4. LossIsTold'
  BY <1>3 DEF Typed, LossIsTold
<1> QED  BY <1>1, <1>2, <1>4, ThreadKeepsOrder

\* The other steps of a thread declare nothing and lose nothing.
LEMMA QuietIInv ==
  ASSUME IInv, stage # "exited", NEW t \in Threads, Alive(t), pc[t] \notin Declaring,
         NEW next \in {"top", "gate", "hash", "exit", "done"}, Goto(t, next),
         UNCHANGED <<main, state, services>>,
         seen' \in [Workers -> NetworkCosts \cup {0}],
         cpu' \in [stop : BOOLEAN, active : Int]
  PROVE  IInv'
<1> USE DEF IInv, Goto, main, state
<1>1. Typed'
  BY DEF Typed
<1>2. ThreadMoves(t)
  BY DEF ThreadMoves
<1>3. LossIsTold'
  BY DEF Typed, LossIsTold
<1> QED  BY <1>1, <1>2, <1>3, ThreadKeepsOrder

LEMMA WorkerIInv ==
  ASSUME IInv, stage # "exited", NEW w \in Workers, Worker(w)
  PROVE  IInv'
<1> DEFINE Cpus == [stop : BOOLEAN, active : Int]
<1>1. w \in Threads /\ cpu \in Cpus /\ seen \in [Workers -> NetworkCosts \cup {0}]
  BY DEF IInv, Typed
<1>2. CASE WorkerTop(w)
  <2>1. PICK next \in {"exit", "gate"} : Goto(w, next)
    BY <1>2 DEF WorkerTop
  <2>2. seen' \in [Workers -> NetworkCosts \cup {0}]
    BY <1>1, <1>2 DEF WorkerTop, IInv, Typed
  <2> QED  BY <1>1, <1>2, <2>1, <2>2, QuietIInv DEF WorkerTop, Alive
<1>3. CASE WorkerGate(w)
  <2>1. PICK next \in {"exit", "top", "hash"} : Goto(w, next)
    BY <1>3 DEF WorkerGate
  <2>2. seen' \in [Workers -> NetworkCosts \cup {0}]
    BY <1>1, <1>3 DEF WorkerGate
  <2>3. cpu' \in Cpus
    <3>1. [cpu EXCEPT !.stop = TRUE] \in Cpus
      BY <1>1
    <3> QED  BY <1>1, <1>3, <3>1 DEF WorkerGate, RecordError
  <2>4. pc[w] = "gate" /\ UNCHANGED <<main, state, services>>
    BY <1>3 DEF WorkerGate
  <2>5. Alive(w) /\ pc[w] \notin Declaring
    BY <2>4 DEF Alive
  <2> QED  BY <1>1, <2>1, <2>2, <2>3, <2>4, <2>5, QuietIInv
<1>4. CASE WorkerHash(w)
  <2>1. cpu' \in Cpus
    <3>1. [cpu EXCEPT !.stop = TRUE] \in Cpus
      BY <1>1
    <3> QED  BY <1>1, <1>4, <3>1 DEF WorkerHash, RecordError
  <2>2. CASE UNCHANGED lost /\ \E next \in {"exit", "top"} : Goto(w, next)
    BY <1>1, <1>4, <2>1, <2>2, QuietIInv DEF WorkerHash, Alive, state
  <2>3. CASE Declares(w)
    BY <1>1, <1>4, <2>1, <2>3, LosesIInv DEF WorkerHash, Alive
  <2> QED  BY <1>4, <2>2, <2>3 DEF WorkerHash
<1>5. CASE WorkerExit(w)
  <2>1. cpu' \in Cpus
    <3>1. \A n \in Int : [cpu EXCEPT !.active = n] \in Cpus
      BY <1>1
    <3>2. cpu.active - 1 \in Int
      BY <1>1
    <3> QED  BY <1>5, <3>1, <3>2 DEF WorkerExit
  <2> QED  BY <1>1, <1>5, <2>1, QuietIInv DEF WorkerExit, Alive
<1>6. CASE Declare(w)
  BY <1>1, <1>6, DeclareIInv
<1> QED  BY <1>2, <1>3, <1>4, <1>5, <1>6 DEF Worker

LEMMA ProducerIInv ==
  ASSUME IInv, stage # "exited", NEW t \in Devices \cup {Drain}, LosesFind(t) \/ Producer(t)
  PROVE  IInv'
<1>1. t \in Threads /\ seen \in [Workers -> NetworkCosts \cup {0}]
      /\ cpu \in [stop : BOOLEAN, active : Int]
  BY DEF IInv, Typed
<1>2. CASE LosesFind(t)
  BY <1>1, <1>2, LosesIInv DEF LosesFind, Alive
<1>3. CASE Ends(t)
  BY <1>1, <1>3, QuietIInv DEF Ends, Alive
<1>4. CASE Declare(t)
  BY <1>1, <1>4, DeclareIInv
<1> QED  BY <1>2, <1>3, <1>4 DEF Producer

\* The poller ends; the outside moves the difficulty, pauses or stops.
LEMMA OutsideIInv ==
  ASSUME IInv, stage # "exited", Others \/ HelperEnds("poller")
  PROVE  IInv'
<1> USE DEF IInv, main, state
<1>1. CASE HelperEnds("poller")
  BY <1>1 DEF HelperEnds, Typed, ThreadsFollowMain, ServicesFollowMain, LossIsTold,
              ExitCodeTellsDurability, Alive
<1>2. CASE DifficultyMoves
  BY <1>2 DEF DifficultyMoves, Typed, ThreadsFollowMain, ServicesFollowMain, LossIsTold,
              ExitCodeTellsDurability, Alive
<1>3. CASE PlatformPauses
  BY <1>3 DEF PlatformPauses, Typed, ThreadsFollowMain, ServicesFollowMain, LossIsTold,
              ExitCodeTellsDurability, Alive
<1>4. CASE Signal
  <2>1. running' \in BOOLEAN
        /\ UNCHANGED <<main, asked, paused, difficulty, moves, fatal, reason, lost, pc, seen, cpu, services>>
    BY <1>4 DEF Signal
  <2> QED  BY <2>1 DEF Typed, ThreadsFollowMain, ServicesFollowMain, LossIsTold,
                      ExitCodeTellsDurability, Alive
<1>5. CASE RemoteShutdown
  <2>1. asked' = TRUE
        /\ UNCHANGED <<main, running, paused, difficulty, moves, fatal, reason, lost, pc, seen, cpu, services>>
    BY <1>5 DEF RemoteShutdown
  <2> QED  BY <2>1 DEF Typed, ThreadsFollowMain, ServicesFollowMain, LossIsTold,
                      ExitCodeTellsDurability, Alive
<1>6. CASE ManagerStops
  <2>1. asked /\ services' = services \ {"platform"} /\ UNCHANGED <<main, state, pc, seen, cpu>>
    BY <1>6 DEF ManagerStops
  <2> QED  BY <2>1 DEF Typed, ThreadsFollowMain, ServicesFollowMain, LossIsTold,
                      ExitCodeTellsDurability, Alive
<1>7. CASE Supervise
  <2>1. running' \in BOOLEAN /\ services' = services \ {"supervisor"}
        /\ UNCHANGED <<main, asked, paused, difficulty, moves, fatal, reason, lost, pc, seen, cpu>>
    BY <1>7 DEF Supervise
  <2> QED  BY <2>1 DEF Typed, ThreadsFollowMain, ServicesFollowMain, LossIsTold,
                      ExitCodeTellsDurability, Alive
<1> QED  BY <1>1, <1>2, <1>3, <1>4, <1>5, <1>6, <1>7 DEF Others

LEMMA StepIInv == IInv /\ [Next]_vars => IInv'
<1> SUFFICES ASSUME IInv, [Next]_vars PROVE IInv'
  OBVIOUS
<1>1. CASE UNCHANGED vars
  BY <1>1 DEF vars, main, state, IInv, Typed, ThreadsFollowMain, ServicesFollowMain,
              LossIsTold, ExitCodeTellsDurability, Alive
<1>2. CASE stage # "exited" /\ Main
  BY <1>2, MainIInv
<1>3. CASE stage # "exited" /\ (Others \/ HelperEnds("poller"))
  BY <1>3, OutsideIInv
<1>4. CASE stage # "exited" /\ \E w \in Workers : Worker(w)
  BY <1>4, WorkerIInv
<1>5. CASE stage # "exited" /\ \E t \in Devices \cup {Drain} : LosesFind(t) \/ Producer(t)
  BY <1>5, ProducerIInv
<1> QED  BY <1>1, <1>2, <1>3, <1>4, <1>5 DEF Next, Exited

LEMMA SpecIInv == Spec => []IInv
  BY InitIInv, StepIInv, PTL DEF Spec

\* While anything can still record a find, the platform manager that reports it runs,
\* unless the platform itself ordered the shutdown; when the submitter is stopped, no
\* producer is left and every service is down, after a remote shutdown too.  For any
\* number of devices and CPU workers (the order of run() and finish() of run.rs).
THEOREM ConsumersOutliveProducersTheorem == Spec => []ConsumersOutliveProducers
<1>1. IInv => ConsumersOutliveProducers
  <2> SUFFICES ASSUME IInv, stage # "exited" PROVE ConsumersOutliveProducers
    BY DEF ConsumersOutliveProducers
  <2>1. (\E t \in Workers \cup Devices : Alive(t)) /\ config.platform /\ ~asked =>
            "platform" \in services
    <3> SUFFICES ASSUME \E t \in Workers \cup Devices : Alive(t), config.platform, ~asked
                 PROVE  "platform" \in services
      OBVIOUS
    <3>1. stage \notin BeforeCpu /\ stage \notin AfterGpu
      BY DEF IInv, ThreadsFollowMain, Alive
    <3> QED  BY <3>1 DEF IInv, ServicesFollowMain
  <2>2. stage \in {"stopManager", "verdict"} =>
            /\ \A t \in Workers \cup Devices : ~Alive(t)
            /\ services = {}
    BY DEF IInv, Typed, ThreadsFollowMain, ServicesFollowMain
  <2> QED  BY <2>1, <2>2 DEF ConsumersOutliveProducers
<1> QED  BY <1>1, SpecIInv, PTL

\* The exit code is EXIT_DURABILITY exactly when a find was lost, on whatever thread
\* and however late, and a reason is published with it (state.rs, the end of run()).
THEOREM ExitCodeTellsDurabilityTheorem == Spec => []ExitCodeTellsDurability
<1>1. IInv => ExitCodeTellsDurability
  BY DEF IInv
<1> QED  BY <1>1, SpecIInv, PTL

-----------------------------------------------------------------------------
(* The gauge of active workers.                                             *)

ActiveWorkers == {w \in Workers : Alive(w)}

LEMMA ActiveIsFinite ==
  /\ IsFiniteSet(ActiveWorkers) /\ Cardinality(ActiveWorkers) \in Nat
  /\ Cardinality(ActiveWorkers) <= Cardinality(Workers)
  BY FS_Subset, FS_CardinalityType DEF ActiveWorkers

\* All workers start together, one exits at a time, and nothing else moves the gauge or
\* makes a worker start or end.
LEMMA GaugeMoves ==
  ASSUME IInv, [Next]_vars
  PROVE  \/ cpu'.active = cpu.active /\ ActiveWorkers' = ActiveWorkers
         \/ cpu'.active = Cardinality(Workers) /\ ActiveWorkers' = Workers
         \/ \E w \in ActiveWorkers : /\ cpu'.active = cpu.active - 1
                                     /\ ActiveWorkers' = ActiveWorkers \ {w}
<1> DEFINE Same == cpu'.active = cpu.active /\ ActiveWorkers' = ActiveWorkers
<1> USE DEF ActiveWorkers, Alive, Goto
<1>0. /\ pc \in [Threads -> ThreadStages] /\ Workers \subseteq Threads
      /\ cpu \in [stop : BOOLEAN, active : Int]
  BY DEF IInv, Typed
<1>1. CASE UNCHANGED <<pc, cpu>>
  BY <1>1
<1>2. CASE Main
  <2>1. CASE StartCpu
    BY <1>0, <2>1 DEF StartCpu
  <2>2. CASE StartGpu
    <3>1. \A w \in Workers : pc'[w] = pc[w]
      BY <2>2 DEF StartGpu
    <3> QED  BY <2>2, <3>1 DEF StartGpu
  <2>3. CASE StartSubmitter
    <3>1. \A w \in Workers : pc'[w] = pc[w]
      BY <1>0, <2>3 DEF StartSubmitter
    <3> QED  BY <2>3, <3>1 DEF StartSubmitter
  <2>4. CASE BeginFinish
    BY <1>0, <2>4 DEF BeginFinish
  <2> QED  BY <1>1, <1>2, <2>1, <2>2, <2>3, <2>4
           DEF Main, GiveUpEarly, PrepareDevices, StartPlatform, OpenJournal, StartHelper,
               StartRuntime, RuntimeFails, StartDashboard, EndReport, Join, StopPlatform, StopManager,
               ExitVerdict
<1>3. ASSUME NEW w \in Workers, Worker(w)
      PROVE  Same \/ \E x \in ActiveWorkers : /\ cpu'.active = cpu.active - 1
                                              /\ ActiveWorkers' = ActiveWorkers \ {x}
  <2>1. CASE WorkerTop(w)
    BY <1>0, <2>1 DEF WorkerTop
  <2>2. CASE WorkerGate(w)
    <3>1. cpu'.active = cpu.active
      BY <1>0, <2>2 DEF WorkerGate, RecordError
    <3>2. ActiveWorkers' = ActiveWorkers
      BY <1>0, <2>2 DEF WorkerGate
    <3> QED  BY <3>1, <3>2
  <2>3. CASE WorkerHash(w)
    <3>1. cpu'.active = cpu.active
      BY <1>0, <2>3 DEF WorkerHash, RecordError
    <3>2. ActiveWorkers' = ActiveWorkers
      BY <1>0, <2>3 DEF WorkerHash, Declares
    <3> QED  BY <3>1, <3>2
  <2>4. CASE WorkerExit(w)
    <3>1. cpu'.active = cpu.active - 1
      BY <1>0, <2>4 DEF WorkerExit
    <3>2. w \in ActiveWorkers /\ ActiveWorkers' = ActiveWorkers \ {w}
      BY <1>0, <2>4 DEF WorkerExit
    <3> QED  BY <3>1, <3>2
  <2>5. CASE Declare(w)
    BY <1>0, <2>5 DEF Declare, PublishReason, RaiseFlag, ThenStop
  <2> QED  BY <1>3, <2>1, <2>2, <2>3, <2>4, <2>5 DEF Worker
<1>4. ASSUME NEW t \in Devices \cup {Drain}, LosesFind(t) \/ Producer(t)
      PROVE  Same
  <2>1. UNCHANGED cpu /\ \E next : pc' = [pc EXCEPT ![t] = next]
    BY <1>4 DEF LosesFind, Declares, Producer, Ends, Declare, PublishReason, RaiseFlag, ThenStop
  <2>2. \A w \in Workers : pc'[w] = pc[w]
    BY <1>0, <2>1
  <2> QED  BY <2>1, <2>2
<1>5. CASE Others \/ HelperEnds("poller")
  BY <1>1, <1>5 DEF Others, HelperEnds, DifficultyMoves, PlatformPauses, Signal,
                    RemoteShutdown, ManagerStops, Supervise
<1> QED  BY <1>1, <1>2, <1>3, <1>4, <1>5 DEF Next, Exited, vars

LEMMA GaugeStep == IInv /\ GaugeCounts /\ [Next]_vars => GaugeCounts'
<1> SUFFICES ASSUME IInv, GaugeCounts, [Next]_vars PROVE GaugeCounts'
  OBVIOUS
<1>1. cpu.active = Cardinality(ActiveWorkers)
  BY DEF GaugeCounts, ActiveWorkers
<1>2. \A w \in ActiveWorkers :
        Cardinality(ActiveWorkers \ {w}) = Cardinality(ActiveWorkers) - 1
  BY ActiveIsFinite, FS_RemoveElement
<1>3. cpu'.active = Cardinality(ActiveWorkers')
  BY <1>1, <1>2, GaugeMoves
<1> QED  BY <1>3 DEF GaugeCounts, ActiveWorkers

\* The state of the process keeps its types; the gauge of active workers stays within
\* the number of workers, because it counts those that run (cpuworker.rs).
THEOREM SupervisionTypeCorrect == Spec => []TypeOK
<1>1. Init => GaugeCounts
  <2>1. Init => ActiveWorkers = {} /\ cpu.active = 0
    BY DEF Init, ActiveWorkers, Alive
  <2> QED  BY <2>1, FS_EmptySet DEF GaugeCounts, ActiveWorkers
<1>2. IInv /\ GaugeCounts => TypeOK
  <2> SUFFICES ASSUME IInv, GaugeCounts PROVE TypeOK
    OBVIOUS
  <2>1. cpu.active \in 0..Cardinality(Workers)
    BY ActiveIsFinite, FS_CardinalityType DEF GaugeCounts, ActiveWorkers
  <2>2. cpu \in [stop : BOOLEAN, active : 0..Cardinality(Workers)]
    BY <2>1 DEF IInv, Typed
  <2> QED  BY <2>2 DEF IInv, Typed, TypeOK
<1> QED  BY <1>1, <1>2, SpecIInv, GaugeStep, PTL DEF Spec
=============================================================================
