--------------------------- MODULE DifficultySync ---------------------------
(***************************************************************************)
(* The network difficulty on its way to the miner: the poller and its      *)
(* on-disk cache (treeminer/src/difficulty.rs), the signed set_config      *)
(* (tm-platform/src/manager.rs) and the supervisor thread that keeps the   *)
(* coordinator's value and the miner's in step (treeminer/src/platform.rs).*)
(* The same set_config also changes the address and the key prefix, one    *)
(* setter at a time.                                                       *)
(***************************************************************************)
EXTENDS Integers, Sequences

CONSTANTS Difficulties,   \* the values the server and the platform may name
          FALLBACK_DIFFICULTY,
          POOL_DOWN_FAILURE_THRESHOLD,
          MaxChanges,     \* bound on the server's changes of difficulty
          MaxConfigs,     \* bound on set_config commands
          MaxCrashes,     \* bound on crashes
          MaxFailures     \* bound on polls that fail

ASSUME SyncAssumption ==
  /\ Difficulties \subseteq Nat \ {0} /\ FALLBACK_DIFFICULTY \in Nat \ {0}
  /\ POOL_DOWN_FAILURE_THRESHOLD \in Nat \ {0}
  /\ MaxChanges \in Nat /\ MaxConfigs \in Nat /\ MaxCrashes \in Nat /\ MaxFailures \in Nat

Absent == 0     \* no such file
Torn == -1      \* a write that has not completed

VARIABLES network,      \* the server's difficulty
          difficulty,   \* DifficultyShared.difficulty, what batches are built from
          endpoint_down, failures,   \* the poller's health
          cache, tmp,   \* difficulty.cache and its .tmp: a value, Absent or Torn
          poller,       \* the poller: "idle", "sampled", "writing", "renaming", "restoring"
          sample,       \* its sample
          coordinator,  \* MiningCoordinator.difficulty
          last_remote, sup, remote, live,  \* supervise: its locals and where it is
          applying,     \* set_config: the setters still to be called
          identity,     \* MiningCoordinator.identity: which command set each field
          ordered,      \* the difficulty set_config carries
          changes, configs, crashes

server == <<network, changes>>
poll == <<endpoint_down, failures, cache, tmp, poller, sample>>
supervisor == <<last_remote, sup, remote, live>>
command == <<applying, identity, ordered, configs>>
vars == <<server, difficulty, poll, coordinator, supervisor, command, crashes>>

Init ==
  /\ network \in Difficulties /\ changes = 0
  /\ difficulty = FALLBACK_DIFFICULTY          \* no cache: seed_initial_difficulty
  /\ endpoint_down = FALSE /\ failures = 0
  /\ cache = Absent /\ tmp = Absent /\ poller = "idle" /\ sample = 0
  /\ coordinator = FALLBACK_DIFFICULTY /\ last_remote = FALLBACK_DIFFICULTY
  /\ sup = "top" /\ remote = 0 /\ live = 0
  /\ applying = <<>> /\ identity = [address |-> 0, prefix |-> 0]
  /\ ordered = 0 /\ configs = 0 /\ crashes = 0

ServerChanges ==
  /\ changes < MaxChanges
  /\ network' \in Difficulties \ {network}
  /\ changes' = changes + 1
  /\ UNCHANGED <<difficulty, poll, coordinator, supervisor, command, crashes>>

-----------------------------------------------------------------------------
(* poll_once *)
Sampled ==
  /\ poller = "idle"
  /\ sample' = network /\ poller' = "sampled"
  /\ UNCHANGED <<server, difficulty, endpoint_down, failures, cache, tmp, coordinator,
                 supervisor, command, crashes>>

IsDownAfter(n) == n = POOL_DOWN_FAILURE_THRESHOLD

PollFails ==
  /\ poller = "idle" /\ failures < MaxFailures
  /\ failures' = failures + 1
  /\ endpoint_down' = (endpoint_down \/ IsDownAfter(failures + 1))
  /\ UNCHANGED <<server, difficulty, cache, tmp, poller, sample, coordinator, supervisor,
                 command, crashes>>

\* set_difficulty, then the observer (SubmissionManager models what it does).
SampleStored ==
  /\ poller = "sampled"
  /\ difficulty' = sample
  /\ poller' = "writing"
  /\ UNCHANGED <<server, endpoint_down, failures, cache, tmp, sample, coordinator,
                 supervisor, command, crashes>>

\* Mutant of persist_difficulty: writes the cache in place.
WritesInPlace ==
  /\ poller = "writing"
  /\ \/ cache' = Torn /\ UNCHANGED poller
     \/ cache' = sample /\ poller' = "restoring"
     \/ poller' = "restoring" /\ UNCHANGED cache
  /\ UNCHANGED <<server, difficulty, endpoint_down, failures, tmp, sample, coordinator,
                 supervisor, command, crashes>>

\* persist_difficulty: the write to .tmp is not atomic, and may fail.
WritesTmp ==
  /\ poller = "writing"
  /\ \/ tmp' = Torn /\ UNCHANGED poller
     \/ tmp' = sample /\ poller' = "renaming"
     \/ tmp' = Absent /\ poller' = "restoring"
  /\ UNCHANGED <<server, difficulty, endpoint_down, failures, cache, sample, coordinator,
                 supervisor, command, crashes>>

\* The rename is atomic, and may fail.
RenamesTmp ==
  /\ poller = "renaming"
  /\ cache' \in {tmp, cache}
  /\ tmp' = Absent /\ poller' = "restoring"
  /\ UNCHANGED <<server, difficulty, endpoint_down, failures, sample, coordinator,
                 supervisor, command, crashes>>

\* The end of a successful poll: the failure streak is over.
Restored ==
  /\ poller = "restoring"
  /\ failures' = 0 /\ endpoint_down' = FALSE
  /\ poller' = "idle"
  /\ UNCHANGED <<server, difficulty, cache, tmp, sample, coordinator, supervisor, command, crashes>>

-----------------------------------------------------------------------------
(* supervise: one tick, read by read and write by write. *)
ReadsRemote ==
  /\ sup = "top"
  /\ remote' = coordinator
  /\ sup' = IF coordinator # last_remote THEN "remote" ELSE "live"
  /\ UNCHANGED <<server, difficulty, poll, coordinator, last_remote, live, command, crashes>>

\* Mutant: forgets what it carried over, and carries it over again.
CarriesForgetfully ==
  /\ sup = "remote"
  /\ difficulty' = remote /\ sup' = "top"
  /\ UNCHANGED <<server, poll, coordinator, last_remote, remote, live, command, crashes>>

CarriesRemote ==
  /\ sup = "remote"
  /\ difficulty' = remote /\ last_remote' = remote /\ sup' = "top"
  /\ UNCHANGED <<server, poll, coordinator, remote, live, command, crashes>>

ReadsLive ==
  /\ sup = "live"
  /\ live' = difficulty
  /\ sup' = IF difficulty # remote THEN "report" ELSE "top"
  /\ UNCHANGED <<server, difficulty, poll, coordinator, last_remote, remote, command, crashes>>

ReportsLive ==
  /\ sup = "report"
  /\ coordinator' = live /\ last_remote' = live /\ sup' = "top"
  /\ UNCHANGED <<server, difficulty, poll, remote, live, command, crashes>>

-----------------------------------------------------------------------------
(* handle_set_config, once every field has passed its validation. *)
SetConfig(d) ==
  /\ configs < MaxConfigs /\ applying = <<>>
  /\ configs' = configs + 1
  /\ ordered' = d
  /\ applying' = <<"difficulty", "address", "prefix">>
  /\ UNCHANGED <<server, difficulty, poll, coordinator, supervisor, identity, crashes>>

Apply ==
  /\ applying # <<>>
  /\ IF Head(applying) = "difficulty"
     THEN coordinator' = ordered /\ UNCHANGED identity
     ELSE identity' = [identity EXCEPT ![Head(applying)] = configs] /\ UNCHANGED coordinator
  /\ applying' = Tail(applying)
  /\ UNCHANGED <<server, difficulty, poll, supervisor, ordered, configs, crashes>>

\* load_cached_difficulty
LoadCached == cache

\* The process dies and starts again: seed_initial_difficulty, everything else anew.
Crash ==
  /\ crashes < MaxCrashes
  /\ crashes' = crashes + 1
  /\ LET seed == IF LoadCached = Absent THEN FALLBACK_DIFFICULTY ELSE LoadCached
     IN  difficulty' = seed /\ coordinator' = seed /\ last_remote' = seed
  /\ endpoint_down' = FALSE /\ failures' = 0 /\ poller' = "idle" /\ sample' = 0
  /\ sup' = "top" /\ remote' = 0 /\ live' = 0
  /\ applying' = <<>> /\ identity' = [address |-> 0, prefix |-> 0]
  /\ ordered' = 0
  /\ UNCHANGED <<server, cache, tmp, configs>>

Poller == Sampled \/ PollFails \/ SampleStored \/ WritesTmp \/ RenamesTmp \/ Restored
Supervise == ReadsRemote \/ CarriesRemote \/ ReadsLive \/ ReportsLive

Next ==
  \/ ServerChanges \/ Poller \/ Supervise
  \/ \E d \in Difficulties : SetConfig(d)
  \/ Apply \/ Crash

\* Both threads loop for as long as the miner runs, and a write is not torn for
\* ever.  Polls that fail are bounded by MaxFailures in a row.
Fairness ==
  /\ WF_vars(Sampled) /\ WF_vars(SampleStored) /\ WF_vars(RenamesTmp) /\ WF_vars(Restored)
  /\ SF_vars(WritesTmp /\ poller' # poller)
  /\ WF_vars(Supervise) /\ WF_vars(Apply)

Spec == Init /\ [][Next]_vars
FairSpec == Spec /\ Fairness

-----------------------------------------------------------------------------
Values == Difficulties \cup {FALLBACK_DIFFICULTY}

\* Also: a difficulty is never made up, whatever a crash does to a write.
TypeOK ==
  /\ network \in Difficulties /\ difficulty \in Values /\ coordinator \in Values
  /\ cache \in Values \cup {Absent} /\ tmp \in Values \cup {Absent, Torn}
  /\ failures \in 0..MaxFailures
  /\ endpoint_down \in BOOLEAN /\ sup \in {"top", "remote", "live", "report"}
  /\ poller \in {"idle", "sampled", "writing", "renaming", "restoring"}

\* persist_difficulty, load_cached_difficulty: once a poll has been persisted, the
\* cache holds a whole difficulty that the server named, through failing, torn and
\* interrupted writes, and a restart mines at it and never at the fallback.
RestartKeepsDifficulty ==
  [][cache # Absent =>
       /\ cache' \in Difficulties
       /\ crashes' # crashes => difficulty' = cache]_vars

\* supervise: once the server and the platform leave the difficulty alone, the
\* miner, the coordinator and the server agree for good.
Agree == <>[](difficulty = network /\ coordinator = network)
=============================================================================
