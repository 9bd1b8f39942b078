----------------------- MODULE PlatformManagerProofs -----------------------
(***************************************************************************)
(* What the platform's commands, the watchdog and the shutdown do to each  *)
(* other, for any number of commands and leases.  A thread is between two  *)
(* calls of a handler most of the time, so the invariants say which calls  *)
(* it may still have to make in which state of the rig.                    *)
(***************************************************************************)
EXTENDS PlatformManager, SequenceTheorems, TLAPS

\* Calls that touch neither the lease nor the context.
Callbacks == {Callback(o, s) : o \in States, s \in States}
Harmless == {CheckError, Reconnect, Stop} \cup {To(s) : s \in States} \cup Callbacks

\* handle_assign_task is under way, or a handler that ends the lease.
Taking ==
  \/ /\ Follows
     /\ \E l \in LeaseIds :
          \/ todo["dispatch"] \in {<<To("Leased"), StartLease(l), ToContext>>,
                                   <<StartLease(l), ToContext>>}
          \/ \E o \in States :
               todo["dispatch"] = <<Callback(o, "Leased"), StartLease(l), ToContext>>
  \/ /\ lease # NoLease
     /\ todo["dispatch"] \in {<<ToContext>>, <<SetContext(lease.id), To("Mining")>>}

GivingBack ==
  \E s \in States :
    \/ /\ Follows
       /\ \/ todo["dispatch"] \in {<<To("Completed"), EndLease, SelfMine, To(s)>>,
                                   <<EndLease, SelfMine, To(s)>>}
          \/ \E o \in States :
               todo["dispatch"] = <<Callback(o, "Completed"), EndLease, SelfMine, To(s)>>
    \/ lease = NoLease /\ todo["dispatch"] = <<SelfMine, To(s)>>

\* The watchdog keeps its hands off the lease; the dispatch thread does what it likes.
Dispatching ==
  /\ todo["watchdog"] \in Seq(Harmless)
  /\ \/ Follows /\ todo["dispatch"] \in Seq(Harmless)
     \/ Taking \/ GivingBack

\* The watchdog looks at the lease and ends it when it ran out; the dispatch thread has
\* no more than callbacks to make.
Watching ==
  /\ todo["dispatch"] \in Seq(Callbacks)
  /\ \/ /\ state = "Mining" /\ Follows
        /\ \/ todo["watchdog"] = <<IfExpired, CheckError>>
           \/ /\ lease.left = 0
              /\ todo["watchdog"] = <<To("Completed"), EndLease, SelfMine, To("Available"), CheckError>>
     \/ /\ state = "Completed" /\ Follows /\ lease.left = 0
        /\ todo["watchdog"] \in
             {<<Callback("Mining", "Completed"), EndLease, SelfMine, To("Available"), CheckError>>,
              <<EndLease, SelfMine, To("Available"), CheckError>>}
     \/ /\ state = "Completed" /\ lease = NoLease
        /\ todo["watchdog"] = <<SelfMine, To("Available"), CheckError>>

\* Until a command crosses a tick, or somebody stops the manager, one thread at a time
\* handles the lease.
OneAtATime ==
  running /\ ~crossed => /\ todo["main"] \in {<<>>, <<Stop>>}
                         /\ Dispatching \/ Watching

-----------------------------------------------------------------------------
\* What stop has left to do before it has joined the other threads.
BeforeJoin ==
  {<<ReleaseIfActive, Join, To("Idle")>>, <<EndLease, SelfMine, Join, To("Idle")>>,
   <<SelfMine, Join, To("Idle")>>, <<Join, To("Idle")>>}

\* Thread t runs stop.  Once it has joined the others nobody is left to change the state
\* after it.
Stopper(t) ==
  /\ t = "dispatch" => todo["main"] \in {<<>>, <<Stop>>}
  /\ \/ todo[t] \in BeforeJoin
     \/ /\ \A u \in {"dispatch", "watchdog"} \ {t} : todo[u] = <<>>
        /\ \/ todo[t] = <<To("Idle")>>
           \/ state = "Idle" /\ todo[t] \in {<<>>} \cup {<<Callback(o, "Idle")>> : o \in States}

StopIsLast ==
  /\ todo["watchdog"] \in Seq(Calls \ {Stop})
  /\ running => todo["main"] \in {<<>>, <<Stop>>}
  /\ ~running => \E t \in {"dispatch", "main"} : Stopper(t)

-----------------------------------------------------------------------------
(* Sequences of calls. *)

LEMMA Tail1 ==
  \A a : /\ Head(<<a>>) = a /\ Tail(<<a>>) = <<>>
         /\ <<a>> # <<>>
  OBVIOUS

LEMMA Tail2 ==
  \A a, b : /\ Head(<<a, b>>) = a /\ Tail(<<a, b>>) = <<b>>
            /\ <<a, b>> # <<>>
  OBVIOUS

LEMMA Tail3 ==
  \A a, b, c : /\ Head(<<a, b, c>>) = a /\ Tail(<<a, b, c>>) = <<b, c>>
               /\ <<a, b, c>> # <<>>
  OBVIOUS

LEMMA Tail4 ==
  \A a, b, c, d : /\ Head(<<a, b, c, d>>) = a /\ Tail(<<a, b, c, d>>) = <<b, c, d>>
                  /\ <<a, b, c, d>> # <<>>
  OBVIOUS

LEMMA Tail5 ==
  \A a, b, c, d, e : /\ Head(<<a, b, c, d, e>>) = a /\ Tail(<<a, b, c, d, e>>) = <<b, c, d, e>>
                     /\ <<a, b, c, d, e>> # <<>>
  OBVIOUS

LEMMA TupleOf2 ==
  ASSUME NEW S, NEW s \in Seq(S), Len(s) = 2, NEW a \in S, NEW b \in S,
         s[1] = a, s[2] = b
  PROVE  s = <<a, b>>
<1>1. <<a, b>> \in Seq(S) /\ Len(<<a, b>>) = 2
  OBVIOUS
<1>2. \A i \in 1..2 : s[i] = <<a, b>>[i]
  OBVIOUS
<1> QED  BY <1>1, <1>2, SeqEqual

LEMMA TupleOf3 ==
  ASSUME NEW S, NEW s \in Seq(S), Len(s) = 3, NEW a \in S, NEW b \in S, NEW c \in S,
         s[1] = a, s[2] = b, s[3] = c
  PROVE  s = <<a, b, c>>
<1>1. <<a, b, c>> \in Seq(S) /\ Len(<<a, b, c>>) = 3
  OBVIOUS
<1>2. \A i \in 1..3 : s[i] = <<a, b, c>>[i]
  OBVIOUS
<1> QED  BY <1>1, <1>2, SeqEqual

LEMMA TupleOf4 ==
  ASSUME NEW S, NEW s \in Seq(S), Len(s) = 4, NEW a \in S, NEW b \in S, NEW c \in S, NEW d \in S,
         s[1] = a, s[2] = b, s[3] = c, s[4] = d
  PROVE  s = <<a, b, c, d>>
<1>1. <<a, b, c, d>> \in Seq(S) /\ Len(<<a, b, c, d>>) = 4
  OBVIOUS
<1>2. \A i \in 1..4 : s[i] = <<a, b, c, d>>[i]
  OBVIOUS
<1> QED  BY <1>1, <1>2, SeqEqual

LEMMA TupleOf5 ==
  ASSUME NEW S, NEW s \in Seq(S), Len(s) = 5, NEW a \in S, NEW b \in S, NEW c \in S, NEW d \in S, NEW e \in S,
         s[1] = a, s[2] = b, s[3] = c, s[4] = d, s[5] = e
  PROVE  s = <<a, b, c, d, e>>
<1>1. <<a, b, c, d, e>> \in Seq(S) /\ Len(<<a, b, c, d, e>>) = 5
  OBVIOUS
<1>2. \A i \in 1..5 : s[i] = <<a, b, c, d, e>>[i]
  OBVIOUS
<1> QED  BY <1>1, <1>2, SeqEqual

LEMMA Join11 ==
  \A a, b : <<a>> \o <<b>> = <<a, b>>
<1> TAKE a, b
<1> DEFINE S == {a, b}  l == <<a>>  r == <<b>>  t == l \o r
<1>1. l \in Seq(S) /\ Len(l) = 1 /\ l[1] = a
  OBVIOUS
<1>2. r \in Seq(S) /\ Len(r) = 1 /\ r[1] = b
  OBVIOUS
<1>0. a \in S /\ b \in S
  OBVIOUS
<1> HIDE DEF l, r, S
<1>3. t \in Seq(S) /\ Len(t) = 2
      /\ \A i \in 1..2 : t[i] = IF i <= 1 THEN l[i] ELSE r[i - 1]
  <2>1. /\ t \in Seq(S) /\ Len(t) = Len(l) + Len(r)
        /\ \A i \in 1..(Len(l) + Len(r)) : t[i] = IF i <= Len(l) THEN l[i] ELSE r[i - Len(l)]
    BY <1>1, <1>2, ConcatProperties
  <2> QED  BY <1>1, <1>2, <2>1
<1>4. t[1] = a /\ t[2] = b
  BY <1>1, <1>2, <1>3
<1>5. t = <<a, b>>
  <2> HIDE DEF t
  <2> QED  BY <1>0, <1>3, <1>4, TupleOf2
<1> QED  BY <1>5 DEF l, r

LEMMA Join12 ==
  \A a, b, c : <<a>> \o <<b, c>> = <<a, b, c>>
<1> TAKE a, b, c
<1> DEFINE S == {a, b, c}  l == <<a>>  r == <<b, c>>  t == l \o r
<1>1. l \in Seq(S) /\ Len(l) = 1 /\ l[1] = a
  OBVIOUS
<1>2. r \in Seq(S) /\ Len(r) = 2 /\ r[1] = b /\ r[2] = c
  OBVIOUS
<1>0. a \in S /\ b \in S /\ c \in S
  OBVIOUS
<1> HIDE DEF l, r, S
<1>3. t \in Seq(S) /\ Len(t) = 3
      /\ \A i \in 1..3 : t[i] = IF i <= 1 THEN l[i] ELSE r[i - 1]
  <2>1. /\ t \in Seq(S) /\ Len(t) = Len(l) + Len(r)
        /\ \A i \in 1..(Len(l) + Len(r)) : t[i] = IF i <= Len(l) THEN l[i] ELSE r[i - Len(l)]
    BY <1>1, <1>2, ConcatProperties
  <2> QED  BY <1>1, <1>2, <2>1
<1>4. t[1] = a /\ t[2] = b /\ t[3] = c
  BY <1>1, <1>2, <1>3
<1>5. t = <<a, b, c>>
  <2> HIDE DEF t
  <2> QED  BY <1>0, <1>3, <1>4, TupleOf3
<1> QED  BY <1>5 DEF l, r

LEMMA Join21 ==
  \A a, b, c : <<a, b>> \o <<c>> = <<a, b, c>>
<1> TAKE a, b, c
<1> DEFINE S == {a, b, c}  l == <<a, b>>  r == <<c>>  t == l \o r
<1>1. l \in Seq(S) /\ Len(l) = 2 /\ l[1] = a /\ l[2] = b
  OBVIOUS
<1>2. r \in Seq(S) /\ Len(r) = 1 /\ r[1] = c
  OBVIOUS
<1>0. a \in S /\ b \in S /\ c \in S
  OBVIOUS
<1> HIDE DEF l, r, S
<1>3. t \in Seq(S) /\ Len(t) = 3
      /\ \A i \in 1..3 : t[i] = IF i <= 2 THEN l[i] ELSE r[i - 2]
  <2>1. /\ t \in Seq(S) /\ Len(t) = Len(l) + Len(r)
        /\ \A i \in 1..(Len(l) + Len(r)) : t[i] = IF i <= Len(l) THEN l[i] ELSE r[i - Len(l)]
    BY <1>1, <1>2, ConcatProperties
  <2> QED  BY <1>1, <1>2, <2>1
<1>4. t[1] = a /\ t[2] = b /\ t[3] = c
  BY <1>1, <1>2, <1>3
<1>5. t = <<a, b, c>>
  <2> HIDE DEF t
  <2> QED  BY <1>0, <1>3, <1>4, TupleOf3
<1> QED  BY <1>5 DEF l, r

LEMMA Join13 ==
  \A a, b, c, d : <<a>> \o <<b, c, d>> = <<a, b, c, d>>
<1> TAKE a, b, c, d
<1> DEFINE S == {a, b, c, d}  l == <<a>>  r == <<b, c, d>>  t == l \o r
<1>1. l \in Seq(S) /\ Len(l) = 1 /\ l[1] = a
  OBVIOUS
<1>2. r \in Seq(S) /\ Len(r) = 3 /\ r[1] = b /\ r[2] = c /\ r[3] = d
  OBVIOUS
<1>0. a \in S /\ b \in S /\ c \in S /\ d \in S
  OBVIOUS
<1> HIDE DEF l, r, S
<1>3. t \in Seq(S) /\ Len(t) = 4
      /\ \A i \in 1..4 : t[i] = IF i <= 1 THEN l[i] ELSE r[i - 1]
  <2>1. /\ t \in Seq(S) /\ Len(t) = Len(l) + Len(r)
        /\ \A i \in 1..(Len(l) + Len(r)) : t[i] = IF i <= Len(l) THEN l[i] ELSE r[i - Len(l)]
    BY <1>1, <1>2, ConcatProperties
  <2> QED  BY <1>1, <1>2, <2>1
<1>4. t[1] = a /\ t[2] = b /\ t[3] = c /\ t[4] = d
  BY <1>1, <1>2, <1>3
<1>5. t = <<a, b, c, d>>
  <2> HIDE DEF t
  <2> QED  BY <1>0, <1>3, <1>4, TupleOf4
<1> QED  BY <1>5 DEF l, r

LEMMA Join22 ==
  \A a, b, c, d : <<a, b>> \o <<c, d>> = <<a, b, c, d>>
<1> TAKE a, b, c, d
<1> DEFINE S == {a, b, c, d}  l == <<a, b>>  r == <<c, d>>  t == l \o r
<1>1. l \in Seq(S) /\ Len(l) = 2 /\ l[1] = a /\ l[2] = b
  OBVIOUS
<1>2. r \in Seq(S) /\ Len(r) = 2 /\ r[1] = c /\ r[2] = d
  OBVIOUS
<1>0. a \in S /\ b \in S /\ c \in S /\ d \in S
  OBVIOUS
<1> HIDE DEF l, r, S
<1>3. t \in Seq(S) /\ Len(t) = 4
      /\ \A i \in 1..4 : t[i] = IF i <= 2 THEN l[i] ELSE r[i - 2]
  <2>1. /\ t \in Seq(S) /\ Len(t) = Len(l) + Len(r)
        /\ \A i \in 1..(Len(l) + Len(r)) : t[i] = IF i <= Len(l) THEN l[i] ELSE r[i - Len(l)]
    BY <1>1, <1>2, ConcatProperties
  <2> QED  BY <1>1, <1>2, <2>1
<1>4. t[1] = a /\ t[2] = b /\ t[3] = c /\ t[4] = d
  BY <1>1, <1>2, <1>3
<1>5. t = <<a, b, c, d>>
  <2> HIDE DEF t
  <2> QED  BY <1>0, <1>3, <1>4, TupleOf4
<1> QED  BY <1>5 DEF l, r

LEMMA Join14 ==
  \A a, b, c, d, e : <<a>> \o <<b, c, d, e>> = <<a, b, c, d, e>>
<1> TAKE a, b, c, d, e
<1> DEFINE S == {a, b, c, d, e}  l == <<a>>  r == <<b, c, d, e>>  t == l \o r
<1>1. l \in Seq(S) /\ Len(l) = 1 /\ l[1] = a
  OBVIOUS
<1>2. r \in Seq(S) /\ Len(r) = 4 /\ r[1] = b /\ r[2] = c /\ r[3] = d /\ r[4] = e
  OBVIOUS
<1>0. a \in S /\ b \in S /\ c \in S /\ d \in S /\ e \in S
  OBVIOUS
<1> HIDE DEF l, r, S
<1>3. t \in Seq(S) /\ Len(t) = 5
      /\ \A i \in 1..5 : t[i] = IF i <= 1 THEN l[i] ELSE r[i - 1]
  <2>1. /\ t \in Seq(S) /\ Len(t) = Len(l) + Len(r)
        /\ \A i \in 1..(Len(l) + Len(r)) : t[i] = IF i <= Len(l) THEN l[i] ELSE r[i - Len(l)]
    BY <1>1, <1>2, ConcatProperties
  <2> QED  BY <1>1, <1>2, <2>1
<1>4. t[1] = a /\ t[2] = b /\ t[3] = c /\ t[4] = d /\ t[5] = e
  BY <1>1, <1>2, <1>3
<1>5. t = <<a, b, c, d, e>>
  <2> HIDE DEF t
  <2> QED  BY <1>0, <1>3, <1>4, TupleOf5
<1> QED  BY <1>5 DEF l, r

LEMMA Join41 ==
  \A a, b, c, d, e : <<a, b, c, d>> \o <<e>> = <<a, b, c, d, e>>
<1> TAKE a, b, c, d, e
<1> DEFINE S == {a, b, c, d, e}  l == <<a, b, c, d>>  r == <<e>>  t == l \o r
<1>1. l \in Seq(S) /\ Len(l) = 4 /\ l[1] = a /\ l[2] = b /\ l[3] = c /\ l[4] = d
  OBVIOUS
<1>2. r \in Seq(S) /\ Len(r) = 1 /\ r[1] = e
  OBVIOUS
<1>0. a \in S /\ b \in S /\ c \in S /\ d \in S /\ e \in S
  OBVIOUS
<1> HIDE DEF l, r, S
<1>3. t \in Seq(S) /\ Len(t) = 5
      /\ \A i \in 1..5 : t[i] = IF i <= 4 THEN l[i] ELSE r[i - 4]
  <2>1. /\ t \in Seq(S) /\ Len(t) = Len(l) + Len(r)
        /\ \A i \in 1..(Len(l) + Len(r)) : t[i] = IF i <= Len(l) THEN l[i] ELSE r[i - Len(l)]
    BY <1>1, <1>2, ConcatProperties
  <2> QED  BY <1>1, <1>2, <2>1
<1>4. t[1] = a /\ t[2] = b /\ t[3] = c /\ t[4] = d /\ t[5] = e
  BY <1>1, <1>2, <1>3
<1>5. t = <<a, b, c, d, e>>
  <2> HIDE DEF t
  <2> QED  BY <1>0, <1>3, <1>4, TupleOf5
<1> QED  BY <1>5 DEF l, r

-----------------------------------------------------------------------------
(* Which action makes which call. *)

LEMMA WhoseStep ==
  ASSUME NEW t \in Threads, ThreadStep(t)
  PROVE  /\ \A s : Head(todo[t]) = To(s) => TransitionTo(t)
         /\ \A o, s : Head(todo[t]) = Callback(o, s) => StateChangeFn(t)
         /\ \A l : Head(todo[t]) = StartLease(l) => StartsLease(t)
         /\ \A c : Head(todo[t]) = SetContext(c) => SwitchToPlatformMining(t)
         /\ Head(todo[t]) = EndLease => EndsLease(t)
         /\ Head(todo[t]) = SelfMine => SwitchToSelfMining(t)
         /\ Head(todo[t]) = ToContext => ReadsLease(t)
         /\ Head(todo[t]) = IfExpired => ChecksExpiry(t)
         /\ Head(todo[t]) = CheckError => ClimbsOutOfError(t)
         /\ Head(todo[t]) = Reconnect => RegistersIfConnected(t)
         /\ Head(todo[t]) = Stop => StopBegins(t)
         /\ Head(todo[t]) = ReleaseIfActive => StopReleases(t)
         /\ Head(todo[t]) = Join => StopJoins(t)
<1> USE DEF EndLease, SelfMine, ToContext, IfExpired, CheckError, Reconnect, Stop, ReleaseIfActive, Join, To, Callback, StartLease, SetContext
<1>1. \A s : Head(todo[t]) = To(s) => TransitionTo(t)
  BY DEF ThreadStep, TransitionTo, StateChangeFn, EndsLease, SwitchToSelfMining, StartsLease, ReadsLease, SwitchToPlatformMining, ChecksExpiry, ClimbsOutOfError, RegistersIfConnected, StopBegins, StopReleases, StopJoins
<1>2. \A o, s : Head(todo[t]) = Callback(o, s) => StateChangeFn(t)
  BY DEF ThreadStep, TransitionTo, StateChangeFn, EndsLease, SwitchToSelfMining, StartsLease, ReadsLease, SwitchToPlatformMining, ChecksExpiry, ClimbsOutOfError, RegistersIfConnected, StopBegins, StopReleases, StopJoins
<1>3. \A l : Head(todo[t]) = StartLease(l) => StartsLease(t)
  BY DEF ThreadStep, TransitionTo, StateChangeFn, EndsLease, SwitchToSelfMining, StartsLease, ReadsLease, SwitchToPlatformMining, ChecksExpiry, ClimbsOutOfError, RegistersIfConnected, StopBegins, StopReleases, StopJoins
<1>4. \A c : Head(todo[t]) = SetContext(c) => SwitchToPlatformMining(t)
  BY DEF ThreadStep, TransitionTo, StateChangeFn, EndsLease, SwitchToSelfMining, StartsLease, ReadsLease, SwitchToPlatformMining, ChecksExpiry, ClimbsOutOfError, RegistersIfConnected, StopBegins, StopReleases, StopJoins
<1>5. Head(todo[t]) = EndLease => EndsLease(t)
  BY DEF ThreadStep, TransitionTo, StateChangeFn, EndsLease, SwitchToSelfMining, StartsLease, ReadsLease, SwitchToPlatformMining, ChecksExpiry, ClimbsOutOfError, RegistersIfConnected, StopBegins, StopReleases, StopJoins
<1>6. Head(todo[t]) = SelfMine => SwitchToSelfMining(t)
  BY DEF ThreadStep, TransitionTo, StateChangeFn, EndsLease, SwitchToSelfMining, StartsLease, ReadsLease, SwitchToPlatformMining, ChecksExpiry, ClimbsOutOfError, RegistersIfConnected, StopBegins, StopReleases, StopJoins
<1>7. Head(todo[t]) = ToContext => ReadsLease(t)
  BY DEF ThreadStep, TransitionTo, StateChangeFn, EndsLease, SwitchToSelfMining, StartsLease, ReadsLease, SwitchToPlatformMining, ChecksExpiry, ClimbsOutOfError, RegistersIfConnected, StopBegins, StopReleases, StopJoins
<1>8. Head(todo[t]) = IfExpired => ChecksExpiry(t)
  BY DEF ThreadStep, TransitionTo, StateChangeFn, EndsLease, SwitchToSelfMining, StartsLease, ReadsLease, SwitchToPlatformMining, ChecksExpiry, ClimbsOutOfError, RegistersIfConnected, StopBegins, StopReleases, StopJoins
<1>9. Head(todo[t]) = CheckError => ClimbsOutOfError(t)
  BY DEF ThreadStep, TransitionTo, StateChangeFn, EndsLease, SwitchToSelfMining, StartsLease, ReadsLease, SwitchToPlatformMining, ChecksExpiry, ClimbsOutOfError, RegistersIfConnected, StopBegins, StopReleases, StopJoins
<1>10. Head(todo[t]) = Reconnect => RegistersIfConnected(t)
  BY DEF ThreadStep, TransitionTo, StateChangeFn, EndsLease, SwitchToSelfMining, StartsLease, ReadsLease, SwitchToPlatformMining, ChecksExpiry, ClimbsOutOfError, RegistersIfConnected, StopBegins, StopReleases, StopJoins
<1>11. Head(todo[t]) = Stop => StopBegins(t)
  BY DEF ThreadStep, TransitionTo, StateChangeFn, EndsLease, SwitchToSelfMining, StartsLease, ReadsLease, SwitchToPlatformMining, ChecksExpiry, ClimbsOutOfError, RegistersIfConnected, StopBegins, StopReleases, StopJoins
<1>12. Head(todo[t]) = ReleaseIfActive => StopReleases(t)
  BY DEF ThreadStep, TransitionTo, StateChangeFn, EndsLease, SwitchToSelfMining, StartsLease, ReadsLease, SwitchToPlatformMining, ChecksExpiry, ClimbsOutOfError, RegistersIfConnected, StopBegins, StopReleases, StopJoins
<1>13. Head(todo[t]) = Join => StopJoins(t)
  BY DEF ThreadStep, TransitionTo, StateChangeFn, EndsLease, SwitchToSelfMining, StartsLease, ReadsLease, SwitchToPlatformMining, ChecksExpiry, ClimbsOutOfError, RegistersIfConnected, StopBegins, StopReleases, StopJoins
<1> QED  BY <1>1, <1>2, <1>3, <1>4, <1>5, <1>6, <1>7, <1>8, <1>9, <1>10, <1>11, <1>12, <1>13

-----------------------------------------------------------------------------
(* Types. *)


\* A set of handler calls, with or without stop.
KeepsTo(S) == Calls \ {Stop} \subseteq S /\ S \subseteq Calls

\* The calls a handler is made of.
LEMMA CallsAre ==
  /\ \A s \in States : To(s) \in Calls \ {Stop}
  /\ \A o, s \in States : Callback(o, s) \in Calls \ {Stop}
  /\ \A l \in LeaseIds : StartLease(l) \in Calls \ {Stop}
  /\ \A c \in Contexts : SetContext(c) \in Calls \ {Stop}
  /\ {EndLease, SelfMine, ToContext, IfExpired, CheckError, Reconnect, ReleaseIfActive, Join}
       \subseteq Calls \ {Stop}
  /\ Stop \in Calls
  BY DEF Calls, To, Callback, EndLease, SelfMine, StartLease, ToContext, SetContext, IfExpired,
         CheckError, Reconnect, Stop, ReleaseIfActive, Join

\* What a call carries.
LEMMA CallArguments ==
  ASSUME NEW h \in Calls
  PROVE  /\ h[1] = "transition_to" => h[2] \in States /\ h = To(h[2])
         /\ h[1] = "start_lease" => h[2] \in LeaseIds /\ h = StartLease(h[2])
         /\ h[1] = "update_context" => h[2] \in Contexts /\ h = SetContext(h[2])
  BY DEF Calls, To, Callback, EndLease, SelfMine, StartLease, ToContext, SetContext, IfExpired,
         CheckError, Reconnect, Stop, ReleaseIfActive, Join

LEMMA TypedLease ==
  ASSUME TypeOK
  PROVE  /\ lease.left \in Nat /\ NoLease.left = 0
         /\ lease # NoLease => lease \in Leases /\ lease.id \in LeaseIds /\ lease.id # "self"
  BY PlatformAssumption DEF TypeOK, Leases, NoLease

\* Whatever set of calls a thread keeps to, its next call keeps it there.
LEMMA NextCalls ==
  ASSUME TypeOK, NEW t \in Threads, ThreadStep(t), NEW S, KeepsTo(S), todo[t] \in Seq(S)
  PROVE  todo' \in [Threads -> Seq(Calls)] /\ todo'[t] \in Seq(S)
         /\ \A u \in Threads \ {t} : todo'[u] = todo[u]
<1> USE DEF KeepsTo
<1>1. ASSUME NEW r \in Seq(S), Continue(t, r)
      PROVE  todo' \in [Threads -> Seq(Calls)] /\ todo'[t] \in Seq(S)
             /\ \A u \in Threads \ {t} : todo'[u] = todo[u]
  <2>1. r \in Seq(Calls)
    BY SeqMonotonic
  <2> QED  BY <1>1, <2>1 DEF Continue, TypeOK
<1>2. Head(todo[t]) \in Calls /\ Rest(t) \in Seq(S)
  BY HeadTailProperties DEF ThreadStep, Rest
<1>3. \A c \in Calls \ {Stop} : <<c>> \in Seq(S)
  OBVIOUS
<1>4. \A p, q \in Seq(S) : p \o q \in Seq(S)
  BY ConcatProperties
<1>5. <<>> \in Seq(S)
  OBVIOUS
<1>a. CASE TransitionTo(t)
  <2>1. Callback(state, Head(todo[t])[2]) \in Calls \ {Stop}
    BY <1>a, <1>2, CallArguments, CallsAre DEF TransitionTo, TypeOK
  <2>2. <<Callback(state, Head(todo[t])[2])>> \o Rest(t) \in Seq(S)
    BY <2>1, <1>2, <1>3, <1>4
  <2> QED  BY <1>a, <1>1, <1>2, <2>2 DEF TransitionTo
<1>b. CASE StateChangeFn(t) \/ EndsLease(t) \/ SwitchToSelfMining(t)
           \/ SwitchToPlatformMining(t) \/ StopJoins(t)
  BY <1>b, <1>1, <1>2 DEF StateChangeFn, EndsLease, SwitchToSelfMining, SwitchToPlatformMining,
                          StopJoins
<1>c. CASE StartsLease(t)
  <2>1. <<To("Error")>> \in Seq(S)
    BY <1>3, CallsAre DEF States
  <2> QED  BY <1>c, <1>1, <1>2, <2>1 DEF StartsLease
<1>d. CASE ReadsLease(t)
  <2> DEFINE c == SetContext(IF lease = NoLease THEN "self" ELSE lease.id)
  <2>1. c \in Calls \ {Stop} /\ To("Mining") \in Calls \ {Stop}
    BY CallsAre, TypedLease DEF States, Contexts
  <2> HIDE DEF c
  <2>2. <<c, To("Mining")>> \in Seq(S)
    BY <2>1
  <2>3. <<c, To("Mining")>> \o Rest(t) \in Seq(S)
    BY <2>2, <1>2, <1>4
  <2> QED  BY <1>d, <1>1, <2>3 DEF ReadsLease, c
<1>e. CASE ChecksExpiry(t)
  <2>1. LeaseExpires \in Seq(S)
    <3>1. To("Completed") \in S /\ EndLease \in S /\ SelfMine \in S /\ To("Available") \in S
      BY CallsAre DEF States
    <3> QED  BY <3>1 DEF LeaseExpires
  <2>2. LeaseExpires \o Rest(t) \in Seq(S) /\ <<>> \o Rest(t) \in Seq(S)
    BY <2>1, <1>2, <1>4, <1>5
  <2> QED  BY <1>e, <1>1, <2>2 DEF ChecksExpiry
<1>f. CASE ClimbsOutOfError(t)
  <2>1. To("Idle") \in S /\ Reconnect \in S
    BY CallsAre DEF States
  <2>2. <<To("Idle"), Reconnect>> \in Seq(S)
    BY <2>1
  <2> QED  BY <1>f, <1>1, <1>5, <2>2 DEF ClimbsOutOfError
<1>g. CASE RegistersIfConnected(t)
  <2>1. <<To("Available")>> \in Seq(S)
    BY <1>3, CallsAre DEF States
  <2> QED  BY <1>g, <1>1, <1>5, <2>1 DEF RegistersIfConnected
<1>h. CASE StopBegins(t)
  <2>1. ReleaseIfActive \in S /\ Join \in S /\ To("Idle") \in S
    BY CallsAre DEF States
  <2>2. <<ReleaseIfActive, Join, To("Idle")>> \in Seq(S)
    BY <2>1
  <2> QED  BY <1>h, <1>1, <1>2, <2>2 DEF StopBegins
<1>i. CASE StopReleases(t)
  <2>1. EndLease \in S /\ SelfMine \in S
    BY CallsAre
  <2>2. <<EndLease, SelfMine>> \in Seq(S)
    BY <2>1
  <2>3. <<EndLease, SelfMine>> \o Rest(t) \in Seq(S) /\ <<>> \o Rest(t) \in Seq(S)
    BY <2>2, <1>2, <1>4, <1>5
  <2> QED  BY <1>i, <1>1, <2>3 DEF StopReleases
<1> QED  BY <1>a, <1>b, <1>c, <1>d, <1>e, <1>f, <1>g, <1>h, <1>i DEF ThreadStep

\* A thread's step changes what the platform is, within its type.
LEMMA ThreadTyped ==
  ASSUME TypeOK, NEW t \in Threads, ThreadStep(t)
  PROVE  TypeOK'
<1>1. todo' \in [Threads -> Seq(Calls)]
  <2>1. KeepsTo(Calls) /\ todo[t] \in Seq(Calls)
    BY DEF KeepsTo, TypeOK
  <2> QED  BY <2>1, NextCalls
<1>2. Head(todo[t]) \in Calls
  BY HeadTailProperties DEF ThreadStep, TypeOK
<1>3. lease' \in Leases \cup {NoLease}
  <2>1. CASE StartsLease(t)
    BY <2>1, <1>2, CallArguments, PlatformAssumption DEF StartsLease, TypeOK, Leases
  <2>2. CASE ~StartsLease(t)
    BY <2>2 DEF ThreadStep, TransitionTo, StateChangeFn, EndsLease, SwitchToSelfMining,
         ReadsLease, SwitchToPlatformMining, ChecksExpiry, ClimbsOutOfError,
         RegistersIfConnected, StopBegins, StopReleases, StopJoins, platform, TypeOK
  <2> QED  BY <2>1, <2>2
<1>4. state' \in States /\ context' \in Contexts /\ running' \in BOOLEAN
  BY <1>2, CallArguments DEF ThreadStep, TransitionTo, StateChangeFn, EndsLease,
       SwitchToSelfMining, StartsLease,
       ReadsLease, SwitchToPlatformMining, ChecksExpiry, ClimbsOutOfError,
       RegistersIfConnected, StopBegins, StopReleases, StopJoins, platform, TypeOK, Contexts
<1>5. paused' \in BOOLEAN
  BY DEF ThreadStep, TransitionTo, StateChangeFn, PausedAfter, EndsLease, SwitchToSelfMining,
       StartsLease, ReadsLease, SwitchToPlatformMining, ChecksExpiry, ClimbsOutOfError,
       RegistersIfConnected, StopBegins, StopReleases, StopJoins, platform, TypeOK
<1>6. UNCHANGED <<connected, crossed, queue, sent, miner>>
  BY DEF ThreadStep
<1> QED  BY <1>1, <1>3, <1>4, <1>5, <1>6 DEF TypeOK, miner

\* A handler is made of calls.
LEMMA HandlerTyped ==
  ASSUME TypeOK, NEW c \in Commands
  PROVE  HandlePayload(c) \in Seq(Calls)
<1> DEFINE T == {To(s) : s \in States}
<1>1. /\ To("Available") \in Calls /\ To("Error") \in Calls /\ To("Leased") \in Calls
      /\ To("Completed") \in Calls /\ To("Idle") \in Calls
      /\ EndLease \in Calls /\ SelfMine \in Calls /\ ToContext \in Calls /\ Stop \in Calls
  BY CallsAre DEF States
<1>2. c \in CommandSet
  BY PlatformAssumption
<1>3. c.kind \in {"ack", "nack"} => HandleRegisterAck(c) \in Seq(Calls)
  BY <1>1 DEF HandleRegisterAck
<1>4. c.kind = "assign" => HandleAssignTask(c) \in Seq(Calls)
  <2> SUFFICES ASSUME c.kind = "assign" PROVE HandleAssignTask(c) \in Seq(Calls)
    OBVIOUS
  <2>1. c.lease_id \in LeaseIds
    BY <1>2, PlatformAssumption DEF CommandSet
  <2>2. StartLease(c.lease_id) \in Calls
    BY <2>1, CallsAre
  <2> QED  BY <1>1, <2>2 DEF HandleAssignTask
<1>5. c.kind = "release" => HandleRelease(c) \in Seq(Calls)
  BY <1>1 DEF HandleRelease
<1>6. c.kind \in {"pause", "resume", "shutdown"} => HandleControl(c) \in Seq(Calls)
  <2>1. <<EndLease, SelfMine>> \o <<To("Idle")>> \in Seq(Calls) /\ <<>> \o <<To("Idle")>> \in Seq(Calls)
    <3>1. <<EndLease, SelfMine>> \in Seq(Calls) /\ <<To("Idle")>> \in Seq(Calls)
          /\ <<>> \in Seq(Calls)
      BY <1>1
    <3> QED  BY <3>1, ConcatProperties
  <2> QED  BY <1>1, <2>1 DEF HandleControl
<1> QED  BY <1>2, <1>3, <1>4, <1>5, <1>6 DEF HandlePayload, CommandSet, Kinds

LEMMA StepTyped == TypeOK /\ [Next]_vars => TypeOK'
<1> SUFFICES ASSUME TypeOK, [Next]_vars PROVE TypeOK'
  OBVIOUS
<1> USE DEF platform, miner
<1>1. CASE UNCHANGED vars
  BY <1>1 DEF vars, TypeOK
<1>2. ASSUME NEW c \in Commands, EnqueueCommand(c) PROVE TypeOK'
  <2>1. queue' \in Seq(Commands) /\ Len(queue') <= queue_capacity
    <3>1. CASE queue' = queue
      BY <3>1 DEF TypeOK
    <3>2. CASE queue' = Append(queue, c) /\ Len(queue) < queue_capacity
      BY <3>2, AppendProperties, PlatformAssumption DEF TypeOK
    <3> QED  BY <1>2, <3>1, <3>2 DEF EnqueueCommand, Enqueued
  <2>2. sent' \in 0..MaxCommands
    BY <1>2, PlatformAssumption DEF EnqueueCommand, TypeOK
  <2> QED  BY <1>2, <2>1, <2>2 DEF EnqueueCommand, TypeOK
<1>3. CASE Dispatch
  <2>1. Head(queue) \in Commands /\ queue' \in Seq(Commands) /\ Len(queue') = Len(queue) - 1
    BY <1>3, HeadTailProperties DEF Dispatch, TypeOK
  <2>2. todo' \in [Threads -> Seq(Calls)]
    BY <1>3, <2>1, HandlerTyped DEF Dispatch, TypeOK
  <2>3. Len(queue') <= queue_capacity
    <3>1. Len(queue) \in Nat
      BY LenProperties DEF TypeOK
    <3> QED  BY <2>1, <3>1, PlatformAssumption DEF TypeOK
  <2> QED  BY <1>3, <2>1, <2>2, <2>3 DEF Dispatch, TypeOK
<1>4. CASE WatchdogTick
  <2>1. <<IfExpired>> \o <<CheckError>> \in Seq(Calls) /\ <<>> \o <<CheckError>> \in Seq(Calls)
    <3>1. <<IfExpired>> \in Seq(Calls) /\ <<CheckError>> \in Seq(Calls) /\ <<>> \in Seq(Calls)
      BY CallsAre
    <3> QED  BY <3>1, ConcatProperties
  <2>2. todo' \in [Threads -> Seq(Calls)]
    BY <1>4, <2>1 DEF WatchdogTick, TypeOK
  <2> QED  BY <1>4, <2>2 DEF WatchdogTick, TypeOK
<1>5. CASE MainStops
  <2>1. todo' \in [Threads -> Seq(Calls)]
    <3>1. <<Stop>> \in Seq(Calls)
      BY CallsAre
    <3> QED  BY <1>5, <3>1 DEF MainStops, TypeOK
  <2> QED  BY <1>5, <2>1 DEF MainStops, TypeOK
<1>6. CASE \E t \in Threads : ThreadStep(t)
  BY <1>6, ThreadTyped
<1>7. CASE BatchBegins \/ BatchEnds
  BY <1>7 DEF BatchBegins, BatchEnds, TypeOK
<1>10. CASE ShutdownRequested
  BY <1>10 DEF ShutdownRequested, TypeOK
<1>11. CASE LeaseTimePasses
  <2>1. lease' \in Leases
    BY <1>11, TypedLease, PlatformAssumption DEF LeaseTimePasses, TypeOK, Leases, NoLease
  <2> QED  BY <1>11, <2>1 DEF LeaseTimePasses, TypeOK
<1>12. CASE BrokerChanges
  BY <1>12 DEF BrokerChanges, TypeOK
<1> QED  BY <1>1, <1>2, <1>3, <1>4, <1>5, <1>6, <1>7, <1>10, <1>11, <1>12 DEF Next

LEMMA InitTyped == Init => TypeOK
<1> SUFFICES ASSUME Init PROVE TypeOK
  OBVIOUS
<1>1. queue \in Seq(Commands) /\ Len(queue) <= queue_capacity
  BY PlatformAssumption DEF Init
<1>2. todo \in [Threads -> Seq(Calls)]
  BY DEF Init
<1>3. state \in States /\ lease \in Leases \cup {NoLease} /\ context \in Contexts
  BY DEF Init, States, Contexts
<1>4. sent \in 0..MaxCommands
  BY PlatformAssumption DEF Init
<1>5. batch \in Contexts \cup {"none"}
  BY DEF Init
<1>6. /\ paused \in BOOLEAN /\ running \in BOOLEAN /\ connected \in BOOLEAN
      /\ mining \in BOOLEAN /\ crossed \in BOOLEAN
  BY DEF Init
<1> QED  BY <1>1, <1>2, <1>3, <1>4, <1>5, <1>6, Zenon DEF TypeOK

\* The queue keeps within its capacity, and every thread has only calls of the handlers left
\* to make, whatever commands arrive.
THEOREM PlatformTypeCorrect == Spec => []TypeOK
  BY InitTyped, StepTyped, PTL DEF Spec

-----------------------------------------------------------------------------
(* One thread at a time handles the lease. *)

\* Thread t goes on with r, the others wait where they are.
GoesOn(t, r) == todo'[t] = r /\ \A u \in Threads \ {t} : todo'[u] = todo[u]

LEMMA ContinueGoesOn ==
  ASSUME TypeOK, NEW t \in Threads, NEW r, Continue(t, r)
  PROVE  GoesOn(t, r)
  BY DEF TypeOK, Continue, GoesOn

(* The effect of a call. *)

LEMMA CallsTo ==
  ASSUME TypeOK, NEW t \in Threads, ThreadStep(t), NEW s, Head(todo[t]) = To(s)
  PROVE  /\ state' = s /\ UNCHANGED <<lease, context, running>>
         /\ GoesOn(t, IF state = s THEN Tail(todo[t]) ELSE <<Callback(state, s)>> \o Tail(todo[t]))
<1>1. TransitionTo(t)
  BY WhoseStep
<1> QED  BY <1>1, ContinueGoesOn DEF TransitionTo, Rest, platform, To

LEMMA CallsBack ==
  ASSUME TypeOK, NEW t \in Threads, ThreadStep(t), NEW o, NEW s, Head(todo[t]) = Callback(o, s)
  PROVE  UNCHANGED <<state, lease, context, running>> /\ GoesOn(t, Tail(todo[t]))
<1>1. StateChangeFn(t)
  BY WhoseStep
<1> QED  BY <1>1, ContinueGoesOn DEF StateChangeFn, Rest, platform

LEMMA CallsEndLease ==
  ASSUME TypeOK, NEW t \in Threads, ThreadStep(t), Head(todo[t]) = EndLease
  PROVE  lease' = NoLease /\ UNCHANGED <<state, context, running>> /\ GoesOn(t, Tail(todo[t]))
<1>1. EndsLease(t)
  BY WhoseStep
<1> QED  BY <1>1, ContinueGoesOn DEF EndsLease, Rest, platform

LEMMA CallsSelfMine ==
  ASSUME TypeOK, NEW t \in Threads, ThreadStep(t), Head(todo[t]) = SelfMine
  PROVE  context' = "self" /\ UNCHANGED <<state, lease, running>> /\ GoesOn(t, Tail(todo[t]))
<1>1. SwitchToSelfMining(t)
  BY WhoseStep
<1> QED  BY <1>1, ContinueGoesOn DEF SwitchToSelfMining, Rest, platform

LEMMA CallsStartLease ==
  ASSUME TypeOK, NEW t \in Threads, ThreadStep(t), NEW l, Head(todo[t]) = StartLease(l), lease = NoLease
  PROVE  /\ lease' = [id |-> l, left |-> LeaseTime]
         /\ UNCHANGED <<state, context, running>> /\ GoesOn(t, Tail(todo[t]))
<1>1. StartsLease(t)
  BY WhoseStep
<1> QED  BY <1>1, ContinueGoesOn DEF StartsLease, Rest, platform, StartLease

LEMMA CallsToContext ==
  ASSUME TypeOK, NEW t \in Threads, ThreadStep(t), Head(todo[t]) = ToContext, lease # NoLease
  PROVE  /\ UNCHANGED <<state, lease, context, running>>
         /\ GoesOn(t, <<SetContext(lease.id), To("Mining")>> \o Tail(todo[t]))
<1>1. ReadsLease(t)
  BY WhoseStep
<1> QED  BY <1>1, ContinueGoesOn DEF ReadsLease, Rest, platform

LEMMA CallsSetContext ==
  ASSUME TypeOK, NEW t \in Threads, ThreadStep(t), NEW c, Head(todo[t]) = SetContext(c)
  PROVE  context' = c /\ UNCHANGED <<state, lease, running>> /\ GoesOn(t, Tail(todo[t]))
<1>1. SwitchToPlatformMining(t)
  BY WhoseStep
<1> QED  BY <1>1, ContinueGoesOn DEF SwitchToPlatformMining, Rest, platform, SetContext

LEMMA CallsIsExpired ==
  ASSUME TypeOK, NEW t \in Threads, ThreadStep(t), Head(todo[t]) = IfExpired
  PROVE  /\ UNCHANGED <<state, lease, context, running>>
         /\ GoesOn(t, (IF lease.left = 0 THEN LeaseExpires ELSE <<>>) \o Tail(todo[t]))
<1>1. ChecksExpiry(t)
  BY WhoseStep
<1> QED  BY <1>1, ContinueGoesOn DEF ChecksExpiry, Rest, platform, IsExpired

LEMMA CallsStop ==
  ASSUME NEW t \in Threads, ThreadStep(t), Head(todo[t]) = Stop
  PROVE  running' = FALSE
<1>1. StopBegins(t)
  BY WhoseStep
<1> QED  BY <1>1 DEF StopBegins

LEMMA HarmlessAre ==
  /\ \A s \in States : To(s) \in Harmless
  /\ \A o, s \in States : Callback(o, s) \in Callbacks
  /\ CheckError \in Harmless /\ Reconnect \in Harmless /\ Stop \in Harmless
  /\ Callbacks \subseteq Harmless /\ Harmless \subseteq Calls
  BY CallsAre DEF Harmless, Callbacks

\* A thread with harmless calls left makes one of them and has harmless calls left, or it
\* stops the manager.
LEMMA HarmlessSteps ==
  ASSUME TypeOK, NEW t \in Threads, ThreadStep(t), todo[t] \in Seq(Harmless), running'
  PROVE  /\ UNCHANGED <<lease, context>> /\ todo'[t] \in Seq(Harmless)
         /\ \A u \in Threads \ {t} : todo'[u] = todo[u]
<1>1. todo[t] # <<>> /\ Head(todo[t]) \in Harmless /\ Tail(todo[t]) \in Seq(Harmless)
  BY HeadTailProperties DEF ThreadStep
<1>2. ASSUME NEW r \in Seq(Harmless), GoesOn(t, r)
      PROVE  todo'[t] \in Seq(Harmless) /\ \A u \in Threads \ {t} : todo'[u] = todo[u]
  BY <1>2 DEF GoesOn
<1>3. ASSUME NEW s \in States, Head(todo[t]) = To(s)
      PROVE  UNCHANGED <<lease, context>> /\ \E r \in Seq(Harmless) : GoesOn(t, r)
  <2>1. <<Callback(state, s)>> \in Seq(Harmless)
    BY HarmlessAre DEF TypeOK
  <2>2. <<Callback(state, s)>> \o Tail(todo[t]) \in Seq(Harmless)
    BY <1>1, <2>1, ConcatProperties
  <2> QED  BY <1>1, <1>3, <2>2, CallsTo
<1>4. ASSUME NEW o \in States, NEW s \in States, Head(todo[t]) = Callback(o, s)
      PROVE  UNCHANGED <<lease, context>> /\ \E r \in Seq(Harmless) : GoesOn(t, r)
  BY <1>1, <1>4, CallsBack
<1>5. CASE Head(todo[t]) = CheckError
  <2>1. ClimbsOutOfError(t)
    BY <1>5, WhoseStep
  <2>2. <<To("Idle"), Reconnect>> \in Seq(Harmless) /\ <<>> \in Seq(Harmless)
    BY HarmlessAre DEF States
  <2>3. UNCHANGED <<lease, context>> /\ \E r \in Seq(Harmless) : GoesOn(t, r)
    BY <2>1, <2>2, ContinueGoesOn DEF ClimbsOutOfError, platform
  <2> QED  BY <1>2, <2>3
<1>6. CASE Head(todo[t]) = Reconnect
  <2>1. RegistersIfConnected(t)
    BY <1>6, WhoseStep
  <2>2. <<To("Available")>> \in Seq(Harmless) /\ <<>> \in Seq(Harmless)
    BY HarmlessAre DEF States
  <2>3. UNCHANGED <<lease, context>> /\ \E r \in Seq(Harmless) : GoesOn(t, r)
    BY <2>1, <2>2, ContinueGoesOn DEF RegistersIfConnected, platform
  <2> QED  BY <1>2, <2>3
<1>7. CASE Head(todo[t]) = Stop
  BY <1>7, CallsStop
<1> QED  BY <1>1, <1>2, <1>3, <1>4, <1>5, <1>6, <1>7 DEF Harmless, Callbacks

LEMMA CallsStartLeaseAgain ==
  ASSUME TypeOK, NEW t \in Threads, ThreadStep(t), NEW l, Head(todo[t]) = StartLease(l), lease # NoLease
  PROVE  UNCHANGED <<state, lease, context, running>> /\ GoesOn(t, <<To("Error")>>)
<1>1. StartsLease(t)
  BY WhoseStep
<1> QED  BY <1>1, ContinueGoesOn DEF StartsLease, StartLease

\* The dispatch thread takes a lease or gives it back, call by call.
LEMMA HandlerSteps ==
  ASSUME TypeOK, Taking \/ GivingBack, ThreadStep("dispatch")
  PROVE  \/ Follows' /\ todo'["dispatch"] \in Seq(Harmless)
         \/ Taking' \/ GivingBack'
<1> DEFINE d == todo["dispatch"]
<1>0. "dispatch" \in Threads /\ d # <<>>
  BY DEF Threads, ThreadStep
<1>a. ASSUME NEW r, GoesOn("dispatch", r)
      PROVE  todo'["dispatch"] = r
  BY <1>a DEF GoesOn
<1>b. \A s \in States : <<To(s)>> \in Seq(Harmless)
  BY HarmlessAre
<1>1. ASSUME NEW l \in LeaseIds, Follows, d = <<To("Leased"), StartLease(l), ToContext>>
      PROVE  Taking'
  <2>1. Head(d) = To("Leased") /\ Tail(d) = <<StartLease(l), ToContext>>
    BY <1>1, Tail3
  <2>2. /\ UNCHANGED <<lease, context>>
        /\ \/ GoesOn("dispatch", <<StartLease(l), ToContext>>)
           \/ GoesOn("dispatch", <<Callback(state, "Leased")>> \o <<StartLease(l), ToContext>>)
    BY <1>0, <2>1, CallsTo
  <2>3. \/ GoesOn("dispatch", <<StartLease(l), ToContext>>)
        \/ GoesOn("dispatch", <<Callback(state, "Leased"), StartLease(l), ToContext>>)
    BY <2>2, Join12
  <2>4. state \in States
    BY DEF TypeOK
  <2> QED  BY <1>1, <1>a, <2>2, <2>3, <2>4 DEF Taking, Follows
<1>2. ASSUME NEW l \in LeaseIds, NEW o \in States, Follows,
             d = <<Callback(o, "Leased"), StartLease(l), ToContext>>
      PROVE  Taking'
  <2>1. Head(d) = Callback(o, "Leased") /\ Tail(d) = <<StartLease(l), ToContext>>
    BY <1>2, Tail3
  <2>2. UNCHANGED <<lease, context>> /\ GoesOn("dispatch", <<StartLease(l), ToContext>>)
    BY <1>0, <2>1, CallsBack
  <2> QED  BY <1>2, <1>a, <2>2 DEF Taking, Follows
<1>3. ASSUME NEW l \in LeaseIds, Follows, d = <<StartLease(l), ToContext>>
      PROVE  Taking' \/ (Follows' /\ todo'["dispatch"] \in Seq(Harmless))
  <2>1. Head(d) = StartLease(l) /\ Tail(d) = <<ToContext>>
    BY <1>3, Tail2
  <2>2. CASE lease = NoLease
    <3>1. lease' = [id |-> l, left |-> LeaseTime] /\ GoesOn("dispatch", <<ToContext>>)
      BY <1>0, <2>1, <2>2, CallsStartLease
    <3>2. lease' # NoLease
      BY <3>1, PlatformAssumption DEF NoLease
    <3>3. todo'["dispatch"] = <<ToContext>>
      BY <1>a, <3>1
    <3>4. todo'["dispatch"] \in {<<ToContext>>, <<SetContext(lease'.id), To("Mining")>>}
      BY <3>3
    <3> QED  BY <3>2, <3>4, Zenon DEF Taking
  <2>3. CASE lease # NoLease
    <3>1. UNCHANGED <<lease, context>> /\ GoesOn("dispatch", <<To("Error")>>)
      BY <1>0, <2>1, <2>3, CallsStartLeaseAgain
    <3> QED  BY <1>3, <1>a, <1>b, <3>1 DEF Follows, States
  <2> QED  BY <2>2, <2>3
<1>4. CASE lease # NoLease /\ d = <<ToContext>>
  <2>1. Head(d) = ToContext /\ Tail(d) = <<>>
    BY <1>4, Tail1
  <2>2. /\ UNCHANGED <<lease, context>>
        /\ GoesOn("dispatch", <<SetContext(lease.id), To("Mining")>> \o <<>>)
    BY <1>0, <1>4, <2>1, CallsToContext
  <2>3. <<SetContext(lease.id), To("Mining")>> \o <<>> = <<SetContext(lease.id), To("Mining")>>
    OBVIOUS
  <2> QED  BY <1>4, <1>a, <2>2, <2>3 DEF Taking
<1>5. CASE lease # NoLease /\ d = <<SetContext(lease.id), To("Mining")>>
  <2>1. Head(d) = SetContext(lease.id) /\ Tail(d) = <<To("Mining")>>
    BY <1>5, Tail2
  <2>2. context' = lease.id /\ UNCHANGED lease /\ GoesOn("dispatch", <<To("Mining")>>)
    BY <1>0, <2>1, CallsSetContext
  <2> QED  BY <1>5, <1>a, <1>b, <2>2 DEF Follows, States
<1>6. ASSUME NEW s \in States, Follows, d = <<To("Completed"), EndLease, SelfMine, To(s)>>
      PROVE  GivingBack'
  <2>1. Head(d) = To("Completed") /\ Tail(d) = <<EndLease, SelfMine, To(s)>>
    BY <1>6, Tail4
  <2>2. /\ UNCHANGED <<lease, context>>
        /\ \/ GoesOn("dispatch", <<EndLease, SelfMine, To(s)>>)
           \/ GoesOn("dispatch", <<Callback(state, "Completed")>> \o <<EndLease, SelfMine, To(s)>>)
    BY <1>0, <2>1, CallsTo
  <2>3. \/ GoesOn("dispatch", <<EndLease, SelfMine, To(s)>>)
        \/ GoesOn("dispatch", <<Callback(state, "Completed"), EndLease, SelfMine, To(s)>>)
    BY <2>2, Join13
  <2>4. state \in States
    BY DEF TypeOK
  <2> QED  BY <1>6, <1>a, <2>2, <2>3, <2>4 DEF GivingBack, Follows
<1>7. ASSUME NEW s \in States, NEW o \in States, Follows,
             d = <<Callback(o, "Completed"), EndLease, SelfMine, To(s)>>
      PROVE  GivingBack'
  <2>1. Head(d) = Callback(o, "Completed") /\ Tail(d) = <<EndLease, SelfMine, To(s)>>
    BY <1>7, Tail4
  <2>2. UNCHANGED <<lease, context>> /\ GoesOn("dispatch", <<EndLease, SelfMine, To(s)>>)
    BY <1>0, <2>1, CallsBack
  <2> QED  BY <1>7, <1>a, <2>2 DEF GivingBack, Follows
<1>8. ASSUME NEW s \in States, d = <<EndLease, SelfMine, To(s)>>
      PROVE  GivingBack'
  <2>1. Head(d) = EndLease /\ Tail(d) = <<SelfMine, To(s)>>
    BY <1>8, Tail3
  <2>2. lease' = NoLease /\ GoesOn("dispatch", <<SelfMine, To(s)>>)
    BY <1>0, <2>1, CallsEndLease
  <2> QED  BY <1>a, <2>2 DEF GivingBack
<1>9. ASSUME NEW s \in States, lease = NoLease, d = <<SelfMine, To(s)>>
      PROVE  Follows' /\ todo'["dispatch"] \in Seq(Harmless)
  <2>1. Head(d) = SelfMine /\ Tail(d) = <<To(s)>>
    BY <1>9, Tail2
  <2>2. context' = "self" /\ UNCHANGED lease /\ GoesOn("dispatch", <<To(s)>>)
    BY <1>0, <2>1, CallsSelfMine
  <2> QED  BY <1>9, <1>a, <1>b, <2>2 DEF Follows
<1>10. CASE Taking
  BY <1>10, <1>1, <1>2, <1>3, <1>4, <1>5 DEF Taking
<1>11. CASE GivingBack
  BY <1>11, <1>6, <1>7, <1>8, <1>9 DEF GivingBack
<1> QED  BY <1>10, <1>11

LEMMA DispatchOneAtATime ==
  ASSUME TypeOK, OneAtATime, running, ~crossed, running', ThreadStep("dispatch")
  PROVE  Dispatching' \/ Watching'
<1>0. "dispatch" \in Threads /\ "watchdog" \in Threads \ {"dispatch"}
  BY DEF Threads
<1>1. todo'["watchdog"] = todo["watchdog"]
  <2>1. KeepsTo(Calls) /\ todo["dispatch"] \in Seq(Calls)
    BY <1>0 DEF KeepsTo, TypeOK
  <2> QED  BY <1>0, <2>1, NextCalls
<1>2. CASE Dispatching /\ Follows /\ todo["dispatch"] \in Seq(Harmless)
  <2>1. UNCHANGED <<lease, context>> /\ todo'["dispatch"] \in Seq(Harmless)
    BY <1>0, <1>2, HarmlessSteps
  <2> QED  BY <1>1, <1>2, <2>1 DEF Dispatching, Follows
<1>3. CASE Dispatching /\ (Taking \/ GivingBack)
  BY <1>1, <1>3, HandlerSteps DEF Dispatching
<1>4. CASE Watching
  <2>1. /\ Head(todo["dispatch"]) \in Callbacks /\ Tail(todo["dispatch"]) \in Seq(Callbacks)
    BY <1>4, HeadTailProperties DEF Watching, ThreadStep
  <2>2. PICK o \in States, s \in States : Head(todo["dispatch"]) = Callback(o, s)
    BY <2>1 DEF Callbacks
  <2>3. UNCHANGED <<state, lease, context>> /\ GoesOn("dispatch", Tail(todo["dispatch"]))
    BY <1>0, <2>2, CallsBack
  <2>4. todo'["dispatch"] \in Seq(Callbacks)
    BY <2>1, <2>3 DEF GoesOn
  <2> QED  BY <1>1, <1>4, <2>3, <2>4 DEF Watching, Follows
<1> QED  BY <1>2, <1>3, <1>4 DEF OneAtATime, Dispatching

LEMMA WatchdogOneAtATime ==
  ASSUME TypeOK, OneAtATime, running, ~crossed, running', ThreadStep("watchdog")
  PROVE  Dispatching' \/ Watching'
<1> DEFINE w == todo["watchdog"]
           Same == todo'["dispatch"] = todo["dispatch"]
<1>0. "watchdog" \in Threads /\ "dispatch" \in Threads \ {"watchdog"} /\ w # <<>>
  BY DEF Threads, ThreadStep
<1>a. ASSUME NEW r, GoesOn("watchdog", r)
      PROVE  todo'["watchdog"] = r /\ Same
  BY <1>0, <1>a DEF GoesOn
<1>b. todo["dispatch"] \in Seq(Callbacks) => todo["dispatch"] \in Seq(Harmless)
  BY HarmlessAre, SeqMonotonic
<1>1. CASE Dispatching
  <2>1. UNCHANGED <<lease, context>> /\ w \in Seq(Harmless) /\ todo'["watchdog"] \in Seq(Harmless)
        /\ Same
    BY <1>0, <1>1, HarmlessSteps DEF Dispatching
  <2>2. (Taking => Taking') /\ (GivingBack => GivingBack') /\ (Follows => Follows')
    BY <2>1 DEF Taking, GivingBack, Follows
  <2> QED  BY <1>1, <2>1, <2>2 DEF Dispatching
<1>2. CASE Watching /\ w = <<IfExpired, CheckError>>
  <2>0. /\ Head(w) = IfExpired /\ Tail(w) = <<CheckError>> /\ Follows
        /\ state = "Mining" /\ todo["dispatch"] \in Seq(Callbacks)
    <3>1. w # <<SelfMine, To("Available"), CheckError>>
          /\ w # <<EndLease, SelfMine, To("Available"), CheckError>>
          /\ w # <<Callback("Mining", "Completed"), EndLease, SelfMine, To("Available"), CheckError>>
      BY <1>2
    <3> QED  BY <1>2, <3>1, Tail2 DEF Watching
  <2>1. CASE lease.left = 0
    <3>1. /\ UNCHANGED <<state, lease, context>>
          /\ GoesOn("watchdog", LeaseExpires \o <<CheckError>>)
      BY <1>0, <2>0, <2>1, CallsIsExpired
    <3>2. LeaseExpires \o <<CheckError>>
            = <<To("Completed"), EndLease, SelfMine, To("Available"), CheckError>>
      BY Join41 DEF LeaseExpires
    <3> QED  BY <1>a, <2>0, <2>1, <3>1, <3>2 DEF Watching, Follows
  <2>2. CASE lease.left # 0
    <3>1. /\ UNCHANGED <<state, lease, context>>
          /\ GoesOn("watchdog", <<>> \o <<CheckError>>)
      BY <1>0, <2>0, <2>2, CallsIsExpired
    <3>2. <<>> \o <<CheckError>> = <<CheckError>>
      OBVIOUS
    <3>3. <<CheckError>> \in Seq(Harmless)
      BY HarmlessAre
    <3> QED  BY <1>a, <1>b, <2>0, <3>1, <3>2, <3>3 DEF Dispatching, Follows
  <2> QED  BY <2>1, <2>2
<1>3. CASE /\ todo["dispatch"] \in Seq(Callbacks) /\ state = "Mining" /\ Follows /\ lease.left = 0
           /\ w = <<To("Completed"), EndLease, SelfMine, To("Available"), CheckError>>
  <2>1. /\ Head(w) = To("Completed")
        /\ Tail(w) = <<EndLease, SelfMine, To("Available"), CheckError>>
    BY <1>3, Tail5
  <2>2. /\ state' = "Completed" /\ UNCHANGED <<lease, context>>
        /\ GoesOn("watchdog", <<Callback("Mining", "Completed")>>
                                 \o <<EndLease, SelfMine, To("Available"), CheckError>>)
    BY <1>0, <1>3, <2>1, CallsTo
  <2>3. GoesOn("watchdog", <<Callback("Mining", "Completed"), EndLease, SelfMine, To("Available"),
                             CheckError>>)
    BY <2>2, Join14
  <2> QED  BY <1>3, <1>a, <2>2, <2>3 DEF Watching, Follows
<1>4. CASE /\ todo["dispatch"] \in Seq(Callbacks) /\ state = "Completed" /\ Follows /\ lease.left = 0
           /\ w = <<Callback("Mining", "Completed"), EndLease, SelfMine, To("Available"), CheckError>>
  <2>1. /\ Head(w) = Callback("Mining", "Completed")
        /\ Tail(w) = <<EndLease, SelfMine, To("Available"), CheckError>>
    BY <1>4, Tail5
  <2>2. /\ UNCHANGED <<state, lease, context>>
        /\ GoesOn("watchdog", <<EndLease, SelfMine, To("Available"), CheckError>>)
    BY <1>0, <2>1, CallsBack
  <2> QED  BY <1>4, <1>a, <2>2 DEF Watching, Follows
<1>5. CASE /\ todo["dispatch"] \in Seq(Callbacks) /\ state = "Completed"
           /\ w = <<EndLease, SelfMine, To("Available"), CheckError>>
  <2>1. Head(w) = EndLease /\ Tail(w) = <<SelfMine, To("Available"), CheckError>>
    BY <1>5, Tail4
  <2>2. /\ lease' = NoLease /\ UNCHANGED state
        /\ GoesOn("watchdog", <<SelfMine, To("Available"), CheckError>>)
    BY <1>0, <2>1, CallsEndLease
  <2> QED  BY <1>5, <1>a, <2>2 DEF Watching
<1>6. CASE /\ todo["dispatch"] \in Seq(Callbacks) /\ lease = NoLease
           /\ w = <<SelfMine, To("Available"), CheckError>>
  <2>1. Head(w) = SelfMine /\ Tail(w) = <<To("Available"), CheckError>>
    BY <1>6, Tail3
  <2>2. /\ context' = "self" /\ UNCHANGED lease
        /\ GoesOn("watchdog", <<To("Available"), CheckError>>)
    BY <1>0, <2>1, CallsSelfMine
  <2>3. <<To("Available"), CheckError>> \in Seq(Harmless)
    BY HarmlessAre DEF States
  <2> QED  BY <1>6, <1>a, <1>b, <2>2, <2>3 DEF Dispatching, Follows
<1>7. CASE Watching
  BY <1>7, <1>2, <1>3, <1>4, <1>5, <1>6 DEF Watching
<1> QED  BY <1>1, <1>7 DEF OneAtATime

\* What a handler sets out to do.
LEMMA HandlerIs ==
  ASSUME NEW c \in Commands
  PROVE  /\ state # "Available" /\ c.kind = "assign" => HandlePayload(c) = <<>>
         /\ \/ HandlePayload(c) \in Seq(Harmless)
            \/ \E l \in LeaseIds : HandlePayload(c) = <<To("Leased"), StartLease(l), ToContext>>
            \/ \E s \in States : HandlePayload(c) \in
                 {<<To("Completed"), EndLease, SelfMine, To(s)>>, <<EndLease, SelfMine, To(s)>>}
<1>1. c \in CommandSet /\ (c.kind = "assign" => c.lease_id \in LeaseIds)
  BY PlatformAssumption DEF CommandSet
<1>2. /\ \A s \in States : <<To(s)>> \in Seq(Harmless)
      /\ <<>> \in Seq(Harmless) /\ <<Stop>> \in Seq(Harmless)
  BY HarmlessAre
<1>3. CASE ~AuthorizeCommand(c) \/ ~c.fit
  BY <1>2, <1>3 DEF HandlePayload
<1>4. CASE AuthorizeCommand(c) /\ c.fit /\ c.kind \in {"ack", "nack"}
  BY <1>2, <1>4 DEF HandlePayload, HandleRegisterAck, States
<1>5. CASE AuthorizeCommand(c) /\ c.fit /\ c.kind = "assign"
  BY <1>1, <1>2, <1>5 DEF HandlePayload, HandleAssignTask
<1>6. CASE AuthorizeCommand(c) /\ c.fit /\ c.kind = "release"
  BY <1>2, <1>6 DEF HandlePayload, HandleRelease, States
<1>7. CASE AuthorizeCommand(c) /\ c.fit /\ c.kind \in {"pause", "resume", "shutdown"}
  <2>1. HandlePayload(c) = HandleControl(c)
    BY <1>7 DEF HandlePayload
  <2>2. CASE c.kind = "pause"
    <3>1. <<EndLease, SelfMine>> \o <<To("Idle")>> = <<EndLease, SelfMine, To("Idle")>>
      BY Join21
    <3>2. <<>> \o <<To("Idle")>> = <<To("Idle")>>
      OBVIOUS
    <3>3. HandleControl(c) \in {<<EndLease, SelfMine, To("Idle")>>, <<To("Idle")>>}
      BY <2>2, <3>1, <3>2 DEF HandleControl
    <3> QED  BY <1>2, <2>1, <2>2, <3>3 DEF States
  <2>3. CASE c.kind = "resume"
    BY <1>2, <2>1, <2>3 DEF HandleControl, States
  <2>4. CASE c.kind = "shutdown"
    BY <1>2, <2>1, <2>4 DEF HandleControl
  <2> QED  BY <1>7, <2>2, <2>3, <2>4
<1> QED  BY <1>1, <1>3, <1>4, <1>5, <1>6, <1>7 DEF CommandSet, Kinds

\* Out of its handlers the dispatch thread has at most callbacks left.
LEMMA OutOfHandler ==
  ASSUME TypeOK, ~InHandler
  PROVE  todo["dispatch"] \in Seq(Callbacks) /\ ~Taking /\ ~GivingBack
<1> DEFINE d == todo["dispatch"]
<1>1. d \in Seq(Calls)
  BY DEF TypeOK, Threads
<1>2. \A i \in 1..Len(d) : d[i] \in Calls /\ d[i][1] = "state_change_fn"
  BY <1>1, ElementOfSeq DEF InHandler
<1>3. \A h \in Calls : h[1] = "state_change_fn" => h \in Callbacks
  BY DEF Calls, Callbacks, To, Callback, EndLease, SelfMine, StartLease, ToContext, SetContext,
         IfExpired, CheckError, Reconnect, Stop, ReleaseIfActive, Join
<1>4. d \in Seq(Callbacks)
  <2>1. Len(d) \in Nat /\ d = [i \in 1..Len(d) |-> d[i]]
    BY <1>1
  <2> QED  BY <1>2, <1>3, <2>1, IsASeq
<1>5. ~Taking
  <2>1. ASSUME NEW a, NEW b, NEW e, d = <<a, b, e>> PROVE e[1] = "state_change_fn"
    BY <1>2, <2>1
  <2>2. ASSUME NEW a, NEW b, d = <<a, b>> PROVE b[1] = "state_change_fn"
    BY <1>2, <2>2
  <2>3. ASSUME NEW a, d = <<a>> PROVE a[1] = "state_change_fn"
    BY <1>2, <2>3
  <2>4. ToContext[1] # "state_change_fn" /\ To("Mining")[1] # "state_change_fn"
    BY DEF ToContext, To
  <2> HIDE DEF d
  <2> QED  BY <2>1, <2>2, <2>3, <2>4 DEF Taking, d
<1>6. ~GivingBack
  BY <1>2 DEF GivingBack, To, EndLease, SelfMine
<1> QED  BY <1>4, <1>5, <1>6

LEMMA StepOneAtATime ==
  ASSUME TypeOK, OneAtATime, [Next]_vars
  PROVE  OneAtATime'
<1> USE DEF platform, miner
<1> SUFFICES ASSUME running', ~crossed'
             PROVE  todo'["main"] \in {<<>>, <<Stop>>} /\ (Dispatching' \/ Watching')
  BY DEF OneAtATime
<1>0. ~crossed /\ running
  <2>1. crossed => crossed'
    BY DEF Next, EnqueueCommand, Dispatch, WatchdogTick, MainStops, ThreadStep, BatchBegins,
           BatchEnds, ShutdownRequested, LeaseTimePasses, BrokerChanges, vars
  <2>2. ~running => ~running'
    BY DEF Next, EnqueueCommand, Dispatch, WatchdogTick, MainStops, ThreadStep, BatchBegins,
           BatchEnds, ShutdownRequested, LeaseTimePasses, BrokerChanges, vars,
           TransitionTo, StateChangeFn, EndsLease, SwitchToSelfMining, StartsLease, ReadsLease,
           SwitchToPlatformMining, ChecksExpiry, ClimbsOutOfError, RegistersIfConnected,
           StopBegins, StopReleases, StopJoins
  <2> QED  BY <2>1, <2>2
<1>a. todo["main"] \in {<<>>, <<Stop>>} /\ (Dispatching \/ Watching)
  BY <1>0 DEF OneAtATime
<1>1. ASSUME UNCHANGED <<state, lease, context>>,
             todo'["dispatch"] = todo["dispatch"], todo'["watchdog"] = todo["watchdog"]
      PROVE  Dispatching' \/ Watching'
  BY <1>a, <1>1 DEF Dispatching, Watching, Taking, GivingBack, Follows
<1>2. CASE Dispatch
  <2> DEFINE c == Head(queue)
  <2>1. c \in Commands
    BY <1>2, HeadTailProperties DEF Dispatch, TypeOK
  <2> HIDE DEF c
  <2>2. /\ UNCHANGED <<state, lease, context>>
        /\ todo'["dispatch"] = HandlePayload(c)
        /\ todo'["watchdog"] = todo["watchdog"] /\ todo'["main"] = todo["main"]
        /\ todo["dispatch"] = <<>> /\ ~CrossesTick(c)
    BY <1>2 DEF Dispatch, TypeOK, Threads, c
  <2>3. CASE Dispatching
    <3>1. Follows
      BY <2>2, <2>3, Tail1, Tail2, Tail3, Tail4 DEF Dispatching, Taking, GivingBack
    <3>2. Follows' /\ todo'["watchdog"] \in Seq(Harmless)
      BY <2>2, <2>3, <3>1 DEF Dispatching, Follows
    <3>3. todo'["dispatch"] \in Seq(Harmless) \/ Taking' \/ GivingBack'
      BY <2>1, <2>2, <3>2, HandlerIs DEF Taking, GivingBack
    <3> QED  BY <1>a, <2>2, <3>2, <3>3 DEF Dispatching
  <2>4. CASE Watching
    <3>1. todo["watchdog"] # <<>>
      <4> DEFINE w == todo["watchdog"]
      <4>1. \/ \E a, b : w = <<a, b>>
            \/ \E a, b, e : w = <<a, b, e>>
            \/ \E a, b, e, f : w = <<a, b, e, f>>
            \/ \E a, b, e, f, g : w = <<a, b, e, f, g>>
        BY <2>4, Zenon DEF Watching
      <4> HIDE DEF w
      <4>2. w # <<>>
        BY <4>1, Tail2, Tail3, Tail4, Tail5
      <4> QED  BY <4>2 DEF w
    <3>a. state # "Available"
      <4>1. state \in {"Mining", "Completed"}
        BY <2>4 DEF Watching
      <4> QED  BY <4>1
    <3>2. HandlePayload(c) = <<>>
      BY <2>1, <2>2, <3>1, <3>a, HandlerIs DEF CrossesTick
    <3>3. todo'["dispatch"] = todo["dispatch"]
      BY <2>2, <3>2
    <3> QED  BY <1>1, <1>a, <2>2, <3>3
  <2> QED  BY <1>a, <2>3, <2>4
<1>3. CASE WatchdogTick
  <2>1. /\ UNCHANGED <<state, lease, context>>
        /\ todo["watchdog"] = <<>> /\ state \in {"Mining", "Error"}
        /\ todo'["dispatch"] = todo["dispatch"] /\ todo'["main"] = todo["main"]
        /\ todo'["watchdog"] = (IF state = "Mining" THEN <<IfExpired>> ELSE <<>>) \o <<CheckError>>
        /\ ~InHandler
    BY <1>3 DEF WatchdogTick, TypeOK, Threads
  <2>2. todo["dispatch"] \in Seq(Callbacks) /\ ~Taking /\ ~GivingBack
    BY <2>1, OutOfHandler
  <2>3. ~Watching
    BY <2>1, Tail2, Tail3, Tail4, Tail5 DEF Watching
  <2>4. Follows' /\ todo'["dispatch"] \in Seq(Harmless)
    BY <1>a, <2>1, <2>2, <2>3 DEF Dispatching, Follows
  <2>5. CASE state = "Mining"
    <3>1. todo'["watchdog"] = <<IfExpired, CheckError>>
      BY <2>1, <2>5, Join11
    <3> QED  BY <1>a, <2>1, <2>2, <2>4, <2>5, <3>1 DEF Watching
  <2>6. CASE state # "Mining"
    <3>1. todo'["watchdog"] = <<CheckError>>
      <4>1. <<>> \o <<CheckError>> = <<CheckError>>
        OBVIOUS
      <4> QED  BY <2>1, <2>6, <4>1
    <3>2. <<CheckError>> \in Seq(Harmless)
      BY HarmlessAre
    <3> QED  BY <1>a, <2>1, <2>4, <3>1, <3>2 DEF Dispatching
  <2> QED  BY <2>5, <2>6
<1>4. CASE MainStops
  <2>1. /\ UNCHANGED <<state, lease, context>>
        /\ todo'["dispatch"] = todo["dispatch"] /\ todo'["watchdog"] = todo["watchdog"]
        /\ todo'["main"] = <<Stop>>
    BY <1>4 DEF MainStops, TypeOK, Threads
  <2> QED  BY <1>1, <2>1
<1>5. ASSUME NEW t \in Threads, ThreadStep(t)
      PROVE  todo'["main"] \in {<<>>, <<Stop>>} /\ (Dispatching' \/ Watching')
  <2>1. t # "main"
    <3>1. ASSUME t = "main" PROVE FALSE
      <4>1. Head(todo["main"]) = Stop
        BY <1>5, <1>a, <3>1, Tail1 DEF ThreadStep
      <4> QED  BY <1>5, <3>1, <4>1, CallsStop
    <3> QED  BY <3>1
  <2>2. todo'["main"] = todo["main"]
    <3>1. KeepsTo(Calls) /\ todo[t] \in Seq(Calls) /\ "main" \in Threads \ {t}
      BY <2>1 DEF KeepsTo, TypeOK, Threads
    <3> QED  BY <1>5, <3>1, NextCalls
  <2> QED  BY <1>0, <1>5, <1>a, <2>1, <2>2, DispatchOneAtATime, WatchdogOneAtATime DEF Threads
<1>6. CASE LeaseTimePasses
  <2>0. lease # NoLease /\ lease.left # 0 /\ lease \in Leases
    BY <1>6, TypedLease DEF LeaseTimePasses, NoLease
  <2>1. /\ lease' # NoLease /\ lease'.id = lease.id
        /\ UNCHANGED <<state, context, running, todo>>
    BY <1>6, <2>0, PlatformAssumption DEF LeaseTimePasses, NoLease, Leases
  <2>2. Follows => Follows'
    BY <2>0, <2>1 DEF Follows
  <2>3. (Taking => Taking') /\ (GivingBack => GivingBack')
    BY <2>0, <2>1, <2>2 DEF Taking, GivingBack
  <2>4. Dispatching => Dispatching'
    BY <2>1, <2>2, <2>3 DEF Dispatching
  <2>5. Watching => Watching'
    BY <2>0, <2>1, <2>2 DEF Watching
  <2> QED  BY <1>a, <2>1, <2>4, <2>5
<1>7. CASE \/ \E c \in Commands : EnqueueCommand(c)
           \/ BatchBegins \/ BatchEnds \/ ShutdownRequested \/ BrokerChanges \/ UNCHANGED vars
  <2>1. UNCHANGED <<state, lease, context, todo>>
    BY <1>7 DEF EnqueueCommand, BatchBegins, BatchEnds, ShutdownRequested, BrokerChanges, vars
  <2> QED  BY <1>1, <1>a, <2>1
<1> QED  BY <1>2, <1>3, <1>4, <1>5, <1>6, <1>7 DEF Next

LEMMA InitOneAtATime == Init => OneAtATime
<1> SUFFICES ASSUME Init PROVE OneAtATime
  OBVIOUS
<1>1. Follows /\ \A t \in Threads : todo[t] = <<>>
  BY DEF Init, Follows
<1>2. <<>> \in Seq(Harmless)
  OBVIOUS
<1> QED  BY <1>1, <1>2 DEF OneAtATime, Dispatching, Threads

\* Whatever the platform sends, between two handlers the rig mines for the lease it holds
\* and for itself when it holds none, unless a command other than an assignment met a tick
\* of the watchdog; an assignment cannot, as long as nothing else did (handle_assign_task,
\* handle_release, handle_control and watchdog_tick of manager.rs).
THEOREM ContextFollowsLeaseTheorem == Spec => []ContextFollowsLease
<1>1. OneAtATime => ContextFollowsLease
  <2> SUFFICES ASSUME OneAtATime, running, ~crossed, Quiet PROVE Follows
    BY DEF ContextFollowsLease
  <2>1. todo["dispatch"] = <<>> /\ todo["watchdog"] = <<>>
    BY DEF Quiet, Threads
  <2>2. ~Watching
    BY <2>1, Tail2, Tail3, Tail4, Tail5 DEF Watching
  <2>3. Taking \/ GivingBack => Follows
    BY <2>1, Tail1, Tail2, Tail3, Tail4 DEF Taking, GivingBack
  <2> QED  BY <2>2, <2>3 DEF OneAtATime, Dispatching
<1>2. TypeOK /\ OneAtATime /\ [Next]_vars => TypeOK' /\ OneAtATime'
  BY StepTyped, StepOneAtATime
<1> QED  BY <1>1, <1>2, InitTyped, InitOneAtATime, PTL DEF Spec

\* Whatever the platform sends, the watchdog ends no lease before its time, though it looks
\* several calls before it ends one, unless a command met its tick (watchdog_tick of
\* manager.rs, end_lease of lease.rs).
THEOREM LeaseRunsItsTimeTheorem == Spec => LeaseRunsItsTime
<1> DEFINE Early == lease # NoLease /\ lease' = NoLease =>
             \/ lease.left = 0 \/ ~running \/ crossed
             \/ /\ todo["dispatch"] # <<>> /\ todo["dispatch"][1] = EndLease
                /\ todo'["dispatch"] # todo["dispatch"]
<1>1. TypeOK /\ OneAtATime /\ [Next]_vars => [Early]_vars
  <2> SUFFICES ASSUME TypeOK, OneAtATime, Next, lease # NoLease, lease' = NoLease, running, ~crossed
               PROVE  \/ lease.left = 0
                      \/ /\ todo["dispatch"] # <<>> /\ todo["dispatch"][1] = EndLease
                         /\ todo'["dispatch"] # todo["dispatch"]
    OBVIOUS
  <2>1. ~LeaseTimePasses
    BY TypedLease, PlatformAssumption DEF LeaseTimePasses, NoLease, Leases, TypeOK
  <2>2. PICK t \in Threads : ThreadStep(t)
    BY <2>1 DEF Next, EnqueueCommand, Dispatch, WatchdogTick, MainStops, BatchBegins, BatchEnds,
                ShutdownRequested, BrokerChanges, platform
  <2>3. Head(todo[t]) = EndLease
    BY <2>2, PlatformAssumption DEF ThreadStep, TransitionTo, StateChangeFn, EndsLease, SwitchToSelfMining,
         StartsLease, ReadsLease, SwitchToPlatformMining, ChecksExpiry, ClimbsOutOfError,
         RegistersIfConnected, StopBegins, StopReleases, StopJoins, platform
  <2>4. todo[t] # <<>> /\ todo[t] \in Seq(Calls)
    BY <2>2 DEF ThreadStep, TypeOK
  <2>5. CASE t = "main"
    <3>1. Head(todo["main"]) = Stop
      BY <2>4, <2>5, Tail1 DEF OneAtATime
    <3> QED  BY <2>3, <2>5, <3>1 DEF Stop, EndLease
  <2>6. CASE t = "dispatch"
    <3>1. GoesOn("dispatch", Tail(todo["dispatch"]))
      BY <2>2, <2>3, <2>6, CallsEndLease
    <3>2. todo["dispatch"][1] = EndLease
      BY <2>3, <2>4, <2>6
    <3>3. todo'["dispatch"] # todo["dispatch"]
      <4>1. Len(Tail(todo["dispatch"])) # Len(todo["dispatch"])
        BY <2>4, <2>6
      <4> QED  BY <3>1, <4>1 DEF GoesOn
    <3> QED  BY <2>4, <2>6, <3>2, <3>3
  <2>7. CASE t = "watchdog"
    <3>1. CASE Dispatching
      <4>1. Head(todo["watchdog"]) \in Harmless
        BY <2>4, <2>7, <3>1, HeadTailProperties DEF Dispatching
      <4> QED  BY <2>3, <2>7, <4>1
               DEF Harmless, Callbacks, CheckError, Reconnect, Stop, To, Callback, EndLease
    <3>2. CASE Watching
      <4>1. todo["watchdog"] = <<IfExpired, CheckError>> => Head(todo["watchdog"]) = IfExpired
        BY Tail2
      <4> QED  BY <2>3, <2>7, <3>2, <4>1 DEF Watching, IfExpired, EndLease
    <3> QED  BY <3>1, <3>2 DEF OneAtATime
  <2> QED  BY <2>5, <2>6, <2>7 DEF Threads
<1>2. TypeOK /\ OneAtATime /\ [Next]_vars => TypeOK' /\ OneAtATime'
  BY StepTyped, StepOneAtATime
<1> QED  BY <1>1, <1>2, InitTyped, InitOneAtATime, PTL DEF Spec, LeaseRunsItsTime

-----------------------------------------------------------------------------
(* The last word of stop. *)

LEMMA CallsReleaseIfActive ==
  ASSUME TypeOK, NEW t \in Threads, ThreadStep(t), Head(todo[t]) = ReleaseIfActive
  PROVE  /\ UNCHANGED <<state, running>>
         /\ \/ GoesOn(t, <<EndLease, SelfMine>> \o Tail(todo[t]))
            \/ GoesOn(t, <<>> \o Tail(todo[t]))
<1>1. StopReleases(t)
  BY WhoseStep
<1> QED  BY <1>1, ContinueGoesOn DEF StopReleases, Rest, platform

LEMMA CallsJoin ==
  ASSUME TypeOK, NEW t \in Threads, ThreadStep(t), Head(todo[t]) = Join
  PROVE  /\ UNCHANGED <<state, running>> /\ GoesOn(t, Tail(todo[t]))
         /\ \A u \in {"dispatch", "watchdog"} \ {t} : todo[u] = <<>>
<1>1. StopJoins(t)
  BY WhoseStep
<1> QED  BY <1>1, ContinueGoesOn DEF StopJoins, Rest, platform, Exited

LEMMA CallsStopAgain ==
  ASSUME TypeOK, NEW t \in Threads, ThreadStep(t), Head(todo[t]) = Stop
  PROVE  GoesOn(t, IF running THEN <<ReleaseIfActive, Join, To("Idle")>> ELSE Tail(todo[t]))
<1>1. StopBegins(t)
  BY WhoseStep
<1> QED  BY <1>1, ContinueGoesOn DEF StopBegins, Rest

\* Only stop makes a running manager stop.
LEMMA OnlyStopStops ==
  ASSUME TypeOK, NEW t \in Threads, ThreadStep(t), running, ~running'
  PROVE  Head(todo[t]) = Stop
  BY DEF ThreadStep, TransitionTo, StateChangeFn, EndsLease, SwitchToSelfMining, StartsLease,
         ReadsLease, SwitchToPlatformMining, ChecksExpiry, ClimbsOutOfError,
         RegistersIfConnected, StopBegins, StopReleases, StopJoins, platform

\* stop goes on, while other threads do what they like.
LEMMA StopperSteps ==
  ASSUME TypeOK, NEW t \in {"dispatch", "main"}, ~running, Stopper(t), ThreadStep(t)
  PROVE  Stopper(t)'
<1>0. t \in Threads /\ todo[t] # <<>>
  BY DEF Threads, ThreadStep
<1>1. ASSUME NEW r, GoesOn(t, r)
      PROVE  /\ todo'[t] = r
             /\ t = "dispatch" => todo'["main"] \in {<<>>, <<Stop>>}
             /\ \A u \in {"dispatch", "watchdog"} \ {t} : todo'[u] = todo[u]
  BY <1>0, <1>1 DEF GoesOn, Stopper, Threads
<1>2. CASE todo[t] = <<ReleaseIfActive, Join, To("Idle")>>
  <2>1. Head(todo[t]) = ReleaseIfActive /\ Tail(todo[t]) = <<Join, To("Idle")>>
    BY <1>2, Tail3
  <2>2. \/ GoesOn(t, <<EndLease, SelfMine, Join, To("Idle")>>)
        \/ GoesOn(t, <<Join, To("Idle")>>)
    <3>1. <<EndLease, SelfMine>> \o <<Join, To("Idle")>> = <<EndLease, SelfMine, Join, To("Idle")>>
      BY Join22
    <3>2. <<>> \o <<Join, To("Idle")>> = <<Join, To("Idle")>>
      OBVIOUS
    <3> QED  BY <1>0, <2>1, <3>1, <3>2, CallsReleaseIfActive
  <2> QED  BY <1>1, <2>2 DEF Stopper, BeforeJoin
<1>3. CASE todo[t] = <<EndLease, SelfMine, Join, To("Idle")>>
  <2>1. Head(todo[t]) = EndLease /\ Tail(todo[t]) = <<SelfMine, Join, To("Idle")>>
    BY <1>3, Tail4
  <2>2. GoesOn(t, <<SelfMine, Join, To("Idle")>>)
    BY <1>0, <2>1, CallsEndLease
  <2> QED  BY <1>1, <2>2 DEF Stopper, BeforeJoin
<1>4. CASE todo[t] = <<SelfMine, Join, To("Idle")>>
  <2>1. Head(todo[t]) = SelfMine /\ Tail(todo[t]) = <<Join, To("Idle")>>
    BY <1>4, Tail3
  <2>2. GoesOn(t, <<Join, To("Idle")>>)
    BY <1>0, <2>1, CallsSelfMine
  <2> QED  BY <1>1, <2>2 DEF Stopper, BeforeJoin
<1>5. CASE todo[t] = <<Join, To("Idle")>>
  <2>1. Head(todo[t]) = Join /\ Tail(todo[t]) = <<To("Idle")>>
    BY <1>5, Tail2
  <2>2. GoesOn(t, <<To("Idle")>>) /\ \A u \in {"dispatch", "watchdog"} \ {t} : todo[u] = <<>>
    BY <1>0, <2>1, CallsJoin
  <2> QED  BY <1>1, <2>2 DEF Stopper
<1>6. CASE todo[t] = <<To("Idle")>> /\ \A u \in {"dispatch", "watchdog"} \ {t} : todo[u] = <<>>
  <2>1. Head(todo[t]) = To("Idle") /\ Tail(todo[t]) = <<>>
    BY <1>6, Tail1
  <2>2. /\ state' = "Idle"
        /\ GoesOn(t, IF state = "Idle" THEN <<>> ELSE <<Callback(state, "Idle")>> \o <<>>)
    BY <1>0, <2>1, CallsTo
  <2>3. <<Callback(state, "Idle")>> \o <<>> = <<Callback(state, "Idle")>>
    OBVIOUS
  <2>4. todo'[t] \in {<<>>} \cup {<<Callback(o, "Idle")>> : o \in States}
    BY <1>1, <2>2, <2>3 DEF TypeOK
  <2> QED  BY <1>1, <1>6, <2>2, <2>4 DEF Stopper
<1>7. ASSUME NEW o \in States, state = "Idle", todo[t] = <<Callback(o, "Idle")>>,
             \A u \in {"dispatch", "watchdog"} \ {t} : todo[u] = <<>>
      PROVE  Stopper(t)'
  <2>1. Head(todo[t]) = Callback(o, "Idle") /\ Tail(todo[t]) = <<>>
    BY <1>7, Tail1
  <2>2. state' = "Idle" /\ GoesOn(t, <<>>)
    BY <1>0, <1>7, <2>1, CallsBack
  <2> QED  BY <1>1, <1>7, <2>2 DEF Stopper
<1> QED  BY <1>0, <1>2, <1>3, <1>4, <1>5, <1>6, <1>7 DEF Stopper, BeforeJoin

\* No other thread takes stop's place or moves the state after the join.
LEMMA OthersStep ==
  ASSUME TypeOK, NEW t \in {"dispatch", "main"}, ~running, Stopper(t),
         NEW u \in Threads \ {t}, ThreadStep(u)
  PROVE  Stopper(t)'
<1>0. todo[u] # <<>> /\ t \in Threads
  BY DEF ThreadStep, Threads
<1>1. \A v \in Threads \ {u} : todo'[v] = todo[v]
  <2>1. KeepsTo(Calls) /\ todo[u] \in Seq(Calls)
    BY DEF KeepsTo, TypeOK
  <2> QED  BY <2>1, NextCalls
<1>2. CASE u = "main"
  <2>1. todo["main"] = <<Stop>> /\ t = "dispatch"
    BY <1>0, <1>2 DEF Stopper
  <2>2. Head(todo["main"]) = Stop /\ Tail(todo["main"]) = <<>>
    BY <2>1, Tail1
  <2>3. GoesOn("main", <<>>) /\ UNCHANGED state
    <3>1. StopBegins("main")
      BY <1>2, <2>2, WhoseStep
    <3> QED  BY <1>2, <2>2, <3>1, CallsStopAgain DEF StopBegins
  <2>4. /\ todo'["main"] = <<>> /\ todo'["dispatch"] = todo["dispatch"]
        /\ todo'["watchdog"] = todo["watchdog"]
    BY <2>3 DEF GoesOn, Threads
  <2> QED  BY <2>1, <2>3, <2>4 DEF Stopper
<1>3. CASE u # "main"
  <2>1. u \in {"dispatch", "watchdog"} \ {t} /\ todo'[t] = todo[t] /\ todo'["main"] = todo["main"]
    BY <1>0, <1>1, <1>3 DEF Threads
  <2>2. todo[t] \in BeforeJoin
    BY <1>0, <2>1 DEF Stopper
  <2> QED  BY <2>1, <2>2 DEF Stopper
<1> QED  BY <1>2, <1>3

LEMMA StepStopIsLast == TypeOK /\ StopIsLast /\ [Next]_vars => StopIsLast'
<1> SUFFICES ASSUME TypeOK, StopIsLast, [Next]_vars PROVE StopIsLast'
  OBVIOUS
<1> USE DEF platform, miner
<1>1. ASSUME UNCHANGED <<state, running, todo>> PROVE StopIsLast'
  BY <1>1 DEF StopIsLast, Stopper
<1>2. CASE Dispatch
  <2>1. /\ running /\ running' /\ todo'["watchdog"] = todo["watchdog"]
        /\ todo'["main"] = todo["main"]
    BY <1>2 DEF Dispatch, TypeOK, Threads
  <2> QED  BY <2>1 DEF StopIsLast
<1>3. CASE WatchdogTick
  <2>1. running /\ running' /\ todo'["main"] = todo["main"]
    BY <1>3 DEF WatchdogTick, TypeOK, Threads
  <2>2. todo'["watchdog"] = (IF state = "Mining" THEN <<IfExpired>> ELSE <<>>) \o <<CheckError>>
    BY <1>3 DEF WatchdogTick, TypeOK, Threads
  <2>3. todo'["watchdog"] \in Seq(Calls \ {Stop})
    <3>1. /\ <<IfExpired>> \in Seq(Calls \ {Stop}) /\ <<CheckError>> \in Seq(Calls \ {Stop})
          /\ <<>> \in Seq(Calls \ {Stop})
      BY CallsAre
    <3> QED  BY <2>2, <3>1, ConcatProperties
  <2> QED  BY <2>1, <2>3 DEF StopIsLast
<1>4. CASE MainStops
  <2>1. running /\ running' /\ todo'["watchdog"] = todo["watchdog"] /\ todo'["main"] = <<Stop>>
    BY <1>4 DEF MainStops, TypeOK, Threads
  <2> QED  BY <2>1 DEF StopIsLast
<1>5. ASSUME NEW u \in Threads, ThreadStep(u) PROVE StopIsLast'
  <2>1. /\ \A v \in Threads \ {u} : todo'[v] = todo[v]
        /\ u = "watchdog" => todo'["watchdog"] \in Seq(Calls \ {Stop})
    <3>1. KeepsTo(Calls) /\ KeepsTo(Calls \ {Stop}) /\ todo[u] \in Seq(Calls)
      BY DEF KeepsTo, TypeOK
    <3>2. u = "watchdog" => todo[u] \in Seq(Calls \ {Stop})
      BY DEF StopIsLast
    <3> QED  BY <1>5, <3>1, <3>2, NextCalls
  <2>2. todo'["watchdog"] \in Seq(Calls \ {Stop})
    BY <2>1 DEF StopIsLast, Threads
  <2>3. CASE running /\ running'
    <3>1. u # "main"
      <4>1. ASSUME u = "main" PROVE FALSE
        <5>1. Head(todo["main"]) = Stop
          BY <1>5, <2>3, <4>1, Tail1 DEF StopIsLast, ThreadStep
        <5> QED  BY <1>5, <2>3, <4>1, <5>1, CallsStop
      <4> QED  BY <4>1
    <3> QED  BY <2>1, <2>2, <2>3, <3>1 DEF StopIsLast, Threads
  <2>4. CASE running /\ ~running'
    <3>1. Head(todo[u]) = Stop
      BY <1>5, <2>4, OnlyStopStops
    <3>2. u # "watchdog"
      <4>1. ASSUME u = "watchdog" PROVE FALSE
        <5>1. Head(todo["watchdog"]) \in Calls \ {Stop}
          BY <1>5, <4>1, HeadTailProperties DEF StopIsLast, ThreadStep
        <5> QED  BY <3>1, <4>1, <5>1
      <4> QED  BY <4>1
    <3>3. GoesOn(u, <<ReleaseIfActive, Join, To("Idle")>>)
      BY <1>5, <2>4, <3>1, CallsStopAgain
    <3>4. u \in {"dispatch", "main"} /\ todo'[u] \in BeforeJoin
      BY <3>2, <3>3 DEF Threads, GoesOn, BeforeJoin
    <3>5. u = "dispatch" => todo'["main"] \in {<<>>, <<Stop>>}
      BY <2>1, <2>4 DEF StopIsLast, Threads
    <3>6. Stopper(u)'
      BY <3>4, <3>5 DEF Stopper
    <3> QED  BY <2>2, <2>4, <3>4, <3>6 DEF StopIsLast
  <2>5. CASE ~running
    <3>1. PICK t \in {"dispatch", "main"} : Stopper(t)
      BY <2>5 DEF StopIsLast
    <3>2. Stopper(t)'
      BY <1>5, <2>5, <3>1, StopperSteps, OthersStep
    <3>3. ~running'
      BY <1>5, <2>5 DEF ThreadStep, TransitionTo, StateChangeFn, EndsLease, SwitchToSelfMining,
           StartsLease, ReadsLease, SwitchToPlatformMining, ChecksExpiry, ClimbsOutOfError,
           RegistersIfConnected, StopBegins, StopReleases, StopJoins
    <3> QED  BY <2>2, <3>2, <3>3 DEF StopIsLast
  <2> QED  BY <2>3, <2>4, <2>5
<1>6. CASE \/ \E c \in Commands : EnqueueCommand(c)
           \/ BatchBegins \/ BatchEnds \/ LeaseTimePasses
           \/ ShutdownRequested \/ BrokerChanges \/ UNCHANGED vars
  <2>1. UNCHANGED <<state, running, todo>>
    BY <1>6 DEF EnqueueCommand, BatchBegins, BatchEnds,
                LeaseTimePasses, ShutdownRequested, BrokerChanges, vars
  <2> QED  BY <1>1, <2>1
<1> QED  BY <1>2, <1>3, <1>4, <1>5, <1>6 DEF Next

LEMMA InitStopIsLast == Init => StopIsLast
<1> SUFFICES ASSUME Init PROVE StopIsLast
  OBVIOUS
<1>1. running /\ todo["watchdog"] = <<>> /\ todo["main"] = <<>>
  BY DEF Init, Threads
<1> QED  BY <1>1 DEF StopIsLast

\* Whatever commands arrived and whichever thread ran stop, once every thread has ended the
\* rig is Idle: no handler that was under way when stop began overwrites its last transition
\* (stop and join_threads of manager.rs).
THEOREM StopHasTheLastWord == Spec => []IdleAtTheEnd
<1>1. StopIsLast => IdleAtTheEnd
  <2> SUFFICES ASSUME StopIsLast, AllExited PROVE state = "Idle"
    BY DEF IdleAtTheEnd
  <2>1. ~running /\ todo["dispatch"] = <<>> /\ todo["main"] = <<>>
    BY DEF AllExited, Exited, Threads
  <2>2. PICK t \in {"dispatch", "main"} : Stopper(t)
    BY <2>1 DEF StopIsLast
  <2> QED  BY <2>1, <2>2, Tail1, Tail2, Tail3, Tail4 DEF Stopper, BeforeJoin
<1> QED  BY <1>1, InitTyped, StepTyped, InitStopIsLast, StepStopIsLast, PTL DEF Spec
=============================================================================
