------------------------- MODULE FindCaptureProofs -------------------------
(***************************************************************************)
(* Durability of captured finds, for any number of mining threads and any  *)
(* sequence of failures, crashes and power losses.                         *)
(***************************************************************************)
EXTENDS FindCapture, SequenceTheorems, TLAPS

Writing == {"appending", "writing", "syncing", "naming"}
Unwritten == {"mining", "appending", "writing"}
Written == {"syncing", "naming", "fallback"}

\* The record at i is whole and begins a line.
Clean(i) == sink[i].form = "whole" /\ (i > 1 => sink[i - 1].form = "whole")

\* No thread captures a find before the import is over.
BootIsQuiet == process = "booting" => \A f \in Finds : stage[f] \notin Writing

\* The import has given a row to every record it has passed.
PassedIsImported ==
  process = "booting" =>
    \A i \in 1..Len(sink) : i < cursor /\ Importable(i) => sink[i].find \in journal

\* A find is written at most once.
WrittenOnce ==
  \A i \in 1..Len(sink) : stage[sink[i].find] \notin Unwritten

\* A thread between its write and its report has its record in the file.
RecordIsThere ==
  \A f \in Finds :
    /\ stage[f] \in {"syncing", "naming"} => \E i \in 1..Len(sink) : sink[i].find = f
    /\ \A i \in 1..Len(sink) :
         sink[i].find = f /\ stage[f] \in {"naming", "fallback"} => i <= synced

\* The record of a find that was or will be reported is whole, and stands on a line of
\* its own unless it was written behind a torn one.
RecordIsWhole ==
  \A i \in 1..Len(sink) :
    stage[sink[i].find] \in Written =>
      sink[i].form = "whole" /\ (Clean(i) \/ sink[i].find \in behind)

\* Where a find reported durable is.
Kept == journal \cup behind \cup nameless
CleanSynced == {sink[i].find : i \in {j \in 1..Len(sink) : j <= synced /\ Clean(j)}}
FallbackIsKept ==
  \A f \in Finds : stage[f] = "fallback" => f \in Kept \cup CleanSynced

\* As long as the file itself can vanish, nothing reported depends on it.
EntryProtects ==
  /\ entry = "missing" => sink = <<>>
  /\ entry = "unsynced" =>
       \A i \in 1..Len(sink) : stage[sink[i].find] = "fallback" => sink[i].find \in Kept

JournaledHasRow == \A f \in Finds : stage[f] = "journaled" => f \in journal

IInv ==
  /\ TypeOK /\ BootIsQuiet /\ PassedIsImported /\ WrittenOnce /\ RecordIsThere
  /\ RecordIsWhole /\ FallbackIsKept /\ EntryProtects /\ JournaledHasRow
-----------------------------------------------------------------------------
Record == [find : Finds, form : Forms]

LEMMA SinkRecords ==
  ASSUME TypeOK
  PROVE  /\ Len(sink) \in Nat
         /\ \A i \in 1..Len(sink) : sink[i] \in Record /\ sink[i].find \in Finds
<1>1. sink \in Seq(Record)
  BY DEF TypeOK, Record
<1>2. Len(sink) \in Nat /\ \A i \in 1..Len(sink) : sink[i] \in Record
  BY <1>1, ElementOfSeq, LenProperties
<1> QED  BY <1>2 DEF Record

\* An append leaves the records that are there where they are.
Appended(r) ==
  /\ sink' \in Seq(Record) /\ Len(sink') = Len(sink) + 1
  /\ \A i \in 1..Len(sink) : sink'[i] = sink[i]
  /\ sink'[Len(sink) + 1] = r

\* The file is as it was, or has a piece of a record of f more.
Grown(f) ==
  /\ sink' \in Seq(Record) /\ Len(sink') \in Nat /\ Len(sink) <= Len(sink')
  /\ \A i \in 1..Len(sink) : sink'[i] = sink[i]
  /\ \A i \in 1..Len(sink') : i \in 1..Len(sink) \/ sink'[i].find = f

LEMMA AppendKeeps ==
  ASSUME TypeOK, NEW r \in Record, sink' = Append(sink, r)
  PROVE  Appended(r)
<1>1. sink \in Seq(Record)
  BY DEF TypeOK, Record
<1> QED  BY <1>1, AppendProperties DEF Appended

USE DEF Stages, Writing, Unwritten, Written

LEMMA InitIInv == Init => IInv
<1> SUFFICES ASSUME Init PROVE IInv
  OBVIOUS
<1>1. sink = <<>> /\ Len(sink) = 0
  BY DEF Init
<1>2. TypeOK
  BY <1>1 DEF Init, TypeOK
<1>3. BootIsQuiet
  BY <1>1 DEF Init, BootIsQuiet
<1>4. PassedIsImported
  BY <1>1 DEF Init, PassedIsImported, Importable
<1>5. WrittenOnce
  BY <1>1 DEF Init, WrittenOnce
<1>6. RecordIsThere
  BY <1>1 DEF Init, RecordIsThere, RecordIsWhole, WrittenOnce
<1>7. RecordIsWhole
  BY <1>1 DEF Init, RecordIsWhole, Clean, WrittenOnce
<1>8. FallbackIsKept
  BY <1>1 DEF Init, FallbackIsKept, Kept, CleanSynced, Clean
<1>9. EntryProtects
  BY <1>1 DEF Init, EntryProtects, Kept
<1>10. JournaledHasRow
  BY <1>1 DEF Init, JournaledHasRow
<1> QED  BY <1>2, <1>3, <1>4, <1>5, <1>6, <1>7, <1>8, <1>9, <1>10 DEF IInv

LEMMA CaptureIInv ==
  ASSUME IInv, NEW f \in Finds,
         Found(f) \/ Journals(f) \/ Writes(f) \/ Syncs(f) \/ SyncsDirectory(f) \/ SinkFails(f)
  PROVE  IInv'
<1> USE SinkRecords DEF IInv, file, history
<1>1. CASE Found(f)
  <2> USE <1>1 DEF Found
  <2>1. TypeOK'
    BY DEF TypeOK
  <2>2. BootIsQuiet'
    BY DEF BootIsQuiet, TypeOK
  <2>3. PassedIsImported'
    BY DEF PassedIsImported, TypeOK, Importable
  <2>4. WrittenOnce'
    BY DEF WrittenOnce, TypeOK
  <2>5. RecordIsThere'
    BY DEF RecordIsThere, TypeOK, RecordIsWhole, WrittenOnce
  <2>6. RecordIsWhole'
    BY DEF RecordIsWhole, TypeOK, Clean, WrittenOnce
  <2>7. FallbackIsKept'
    BY DEF FallbackIsKept, TypeOK, Kept, CleanSynced, Clean
  <2>8. EntryProtects'
    BY DEF EntryProtects, TypeOK, Kept
  <2>9. JournaledHasRow'
    BY DEF JournaledHasRow, TypeOK
  <2> QED  BY <2>1, <2>2, <2>3, <2>4, <2>5, <2>6, <2>7, <2>8, <2>9
<1>2. CASE Journals(f)
  <2> USE <1>2 DEF Journals
  <2>1. TypeOK'
    BY DEF TypeOK
  <2>2. BootIsQuiet'
    BY DEF BootIsQuiet, TypeOK
  <2>3. PassedIsImported'
    BY DEF PassedIsImported, TypeOK, Importable
  <2>4. WrittenOnce'
    BY DEF WrittenOnce, TypeOK
  <2>5. RecordIsThere'
    BY DEF RecordIsThere, TypeOK, RecordIsWhole, WrittenOnce
  <2>6. RecordIsWhole'
    BY DEF RecordIsWhole, TypeOK, Clean, WrittenOnce
  <2>7. FallbackIsKept'
    BY DEF FallbackIsKept, TypeOK, Kept, CleanSynced, Clean
  <2>8. EntryProtects'
    BY DEF EntryProtects, TypeOK, Kept
  <2>9. JournaledHasRow'
    BY DEF JournaledHasRow, TypeOK
  <2> QED  BY <2>1, <2>2, <2>3, <2>4, <2>5, <2>6, <2>7, <2>8, <2>9
<1>3. CASE Writes(f)
  <2> DEFINE r == [find |-> f, form |-> "whole"]
  <2>0. r \in Record /\ r.find = f /\ r.form = "whole" /\ sink' = Append(sink, r)
    BY <1>3 DEF Writes, Record, Forms
  <2> HIDE DEF r
  <2>a. Appended(r)
    BY <2>0, AppendKeeps
  <2>b. /\ stage[f] = "writing" /\ stage' = [stage EXCEPT ![f] = "syncing"]
        /\ behind' = IF Unterminated THEN behind \cup {f} ELSE behind
        /\ entry' \in {"unsynced", entry} /\ entry' # "missing"
        /\ (entry' = "unsynced" => entry \in {"missing", "unsynced"})
        /\ created' \in {created, created \cup {f}}
        /\ UNCHANGED <<process, journal, synced, cursor, nameless>>
    BY <1>3 DEF Writes, Opens, TypeOK
  <2>c. process # "booting"
    BY <2>b DEF BootIsQuiet
  <2>d. Len(sink) > 0 /\ ~Unterminated => sink[Len(sink)].form = "whole"
    BY DEF Unterminated, Last, TypeOK
  <2>1. TypeOK'
    BY <2>a, <2>b DEF TypeOK, Appended, Record
  <2>2. BootIsQuiet'
    BY <2>b, <2>c DEF BootIsQuiet
  <2>3. PassedIsImported'
    BY <2>b, <2>c DEF PassedIsImported
  <2>4. WrittenOnce'
    BY <2>0, <2>a, <2>b DEF WrittenOnce, Appended, TypeOK
  <2>5. RecordIsThere'
    BY <2>0, <2>a, <2>b DEF RecordIsThere, Appended, TypeOK
  <2>6. RecordIsWhole'
    <3> SUFFICES ASSUME NEW i \in 1..Len(sink'), stage'[sink'[i].find] \in Written
                 PROVE  sink'[i].form = "whole" /\ (Clean(i)' \/ sink'[i].find \in behind')
      BY DEF RecordIsWhole
    <3>1. CASE i = Len(sink) + 1
      BY <2>0, <2>a, <2>b, <2>d, <3>1 DEF Appended, Clean
    <3>2. CASE i \in 1..Len(sink)
      <4>1. sink'[i] = sink[i] /\ (i > 1 => sink'[i - 1] = sink[i - 1])
        BY <2>a, <3>2 DEF Appended
      <4>2. stage[sink[i].find] \in Written
        BY <2>b, <3>2, <4>1 DEF WrittenOnce, TypeOK
      <4> QED  BY <2>b, <3>2, <4>1, <4>2 DEF RecordIsWhole, Clean
    <3> QED  BY <2>a, <3>1, <3>2 DEF Appended
  <2>7. FallbackIsKept'
    BY <2>a, <2>b DEF FallbackIsKept, TypeOK, Kept, CleanSynced, Clean, Appended
  <2>8. EntryProtects'
    BY <2>0, <2>a, <2>b DEF EntryProtects, TypeOK, Kept, Appended
  <2>9. JournaledHasRow'
    BY <2>b DEF JournaledHasRow, TypeOK
  <2> QED  BY <2>1, <2>2, <2>3, <2>4, <2>5, <2>6, <2>7, <2>8, <2>9
<1>4. CASE Syncs(f)
  <2> USE <1>4 DEF Syncs, Reported, Range
  <2>1. TypeOK'
    BY DEF TypeOK
  <2>2. BootIsQuiet'
    BY DEF BootIsQuiet, TypeOK
  <2>3. PassedIsImported'
    BY DEF PassedIsImported, TypeOK, Importable
  <2>4. WrittenOnce'
    BY DEF WrittenOnce, TypeOK
  <2>5. RecordIsThere'
    BY DEF RecordIsThere, TypeOK, RecordIsWhole, WrittenOnce
  <2>6. RecordIsWhole'
    BY DEF RecordIsWhole, TypeOK, Clean, WrittenOnce
  <2>7. FallbackIsKept'
    <3> SUFFICES ASSUME NEW g \in Finds, stage'[g] = "fallback"
                 PROVE  g \in (Kept \cup CleanSynced)'
      BY DEF FallbackIsKept
    <3>1. \A i \in 1..Len(sink) : sink[i].find = g => i <= synced' /\ (Clean(i)' \/ g \in behind)
      BY DEF TypeOK, RecordIsThere, RecordIsWhole, Clean
    <3>2. ASSUME NEW i \in 1..Len(sink), sink[i].find = g
          PROVE  g \in (Kept \cup CleanSynced)'
      BY <3>1, <3>2 DEF Kept, CleanSynced
    <3>3. CASE \A i \in 1..Len(sink) : sink[i].find # g
      <4>1. g # f /\ stage[g] = "fallback"
        BY <3>3 DEF TypeOK, RecordIsThere
      <4>2. g \in Kept
        BY <3>3, <4>1 DEF FallbackIsKept, CleanSynced
      <4>3. \A w \in Range(sink) : w.find # g
        BY <3>3 DEF TypeOK
      <4> QED  BY <4>2, <4>3 DEF Kept
    <3> QED  BY <3>2, <3>3
  <2>8. EntryProtects'
    BY DEF EntryProtects, TypeOK, Kept
  <2>9. JournaledHasRow'
    BY DEF JournaledHasRow, TypeOK
  <2> QED  BY <2>1, <2>2, <2>3, <2>4, <2>5, <2>6, <2>7, <2>8, <2>9
<1>5. CASE SyncsDirectory(f)
  <2>0. /\ stage[f] = "naming" /\ stage' = [stage EXCEPT ![f] = "fallback"]
        /\ nameless' = IF entry' = "durable" THEN nameless \ {w.find : w \in Range(sink)}
                                              ELSE nameless \cup {f}
        /\ entry' \in {"durable", entry}
        /\ UNCHANGED <<process, journal, sink, synced, created, cursor, behind>>
    BY <1>5 DEF SyncsDirectory, Reported
  <2>1. TypeOK'
    BY <2>0 DEF TypeOK
  <2>2. BootIsQuiet'
    BY <2>0 DEF BootIsQuiet, TypeOK
  <2>3. PassedIsImported'
    BY <2>0 DEF PassedIsImported, TypeOK, Importable
  <2>4. WrittenOnce'
    BY <2>0 DEF WrittenOnce, TypeOK
  <2>5. RecordIsThere'
    BY <2>0 DEF RecordIsThere, TypeOK, RecordIsWhole, WrittenOnce
  <2>6. RecordIsWhole'
    BY <2>0 DEF RecordIsWhole, TypeOK, Clean, WrittenOnce
  <2>7. FallbackIsKept'
    <3> SUFFICES ASSUME NEW g \in Finds, stage'[g] = "fallback"
                 PROVE  g \in (Kept \cup CleanSynced)'
      BY DEF FallbackIsKept
    <3>1. \A i \in 1..Len(sink) : sink[i].find = g => i <= synced' /\ (Clean(i)' \/ g \in behind)
      BY <2>0 DEF TypeOK, RecordIsThere, RecordIsWhole, Clean
    <3>2. ASSUME NEW i \in 1..Len(sink), sink[i].find = g
          PROVE  g \in (Kept \cup CleanSynced)'
      BY <2>0, <3>1, <3>2 DEF Kept, CleanSynced
    <3>3. CASE \A i \in 1..Len(sink) : sink[i].find # g
      <4>1. g # f /\ stage[g] = "fallback"
        BY <2>0, <3>3 DEF TypeOK, RecordIsThere
      <4>2. g \in Kept
        BY <3>3, <4>1 DEF FallbackIsKept, CleanSynced
      <4>3. \A w \in Range(sink) : w.find # g
        BY <3>3 DEF TypeOK, Range
      <4> QED  BY <2>0, <4>2, <4>3 DEF Kept
    <3> QED  BY <3>2, <3>3
  <2>8. EntryProtects'
    BY <2>0 DEF EntryProtects, TypeOK, Kept, Range
  <2>9. JournaledHasRow'
    BY <2>0 DEF JournaledHasRow, TypeOK
  <2> QED  BY <2>1, <2>2, <2>3, <2>4, <2>5, <2>6, <2>7, <2>8, <2>9
<1>6. CASE SinkFails(f)
  <2>a. /\ stage[f] \in {"writing", "syncing"} /\ stage' = [stage EXCEPT ![f] = "lost"]
        /\ process' = "stopping" /\ UNCHANGED <<journal, synced, cursor, behind, nameless>>
        /\ entry' \in {"unsynced", entry} /\ (entry' = "unsynced" => entry \in {"missing", "unsynced"})
        /\ (entry' = "missing" => UNCHANGED sink)
        /\ created' \in {created, created \cup {f}}
    BY <1>6 DEF SinkFails, Opens, TypeOK
  <2>b. \/ UNCHANGED sink
        \/ \E r \in Record : r.find = f /\ Appended(r)
    BY <1>6, AppendKeeps DEF SinkFails, Record, Forms
  <2>c. Grown(f)
    <3>1. CASE UNCHANGED sink
      BY <3>1 DEF Grown, TypeOK, Record
    <3>2. ASSUME NEW r \in Record, r.find = f, Appended(r)
          PROVE  Grown(f)
      BY <3>2 DEF Grown, Appended
    <3> QED  BY <2>b, <3>1, <3>2
  <2>1. TypeOK'
    BY <2>a, <2>c DEF Grown, TypeOK, Record
  <2>2. BootIsQuiet'
    BY <2>a, <2>c DEF Grown, BootIsQuiet, TypeOK
  <2>3. PassedIsImported'
    BY <2>a, <2>c DEF Grown, PassedIsImported, TypeOK, Importable
  <2>4. WrittenOnce'
    BY <2>a, <2>c DEF Grown, WrittenOnce, TypeOK
  <2>5. RecordIsThere'
    BY <2>a, <2>c DEF Grown, RecordIsThere, TypeOK, RecordIsWhole, WrittenOnce
  <2>6. RecordIsWhole'
    BY <2>a, <2>c DEF Grown, RecordIsWhole, TypeOK, Clean, WrittenOnce
  <2>7. FallbackIsKept'
    <3>1. ASSUME NEW i \in 1..Len(sink), i <= synced, Clean(i)
          PROVE  sink[i].find \in CleanSynced'
      <4>1. i \in 1..Len(sink') /\ i <= synced' /\ sink'[i] = sink[i] /\ Clean(i)'
        BY <2>a, <2>c, <3>1 DEF Grown, Clean, TypeOK
      <4> QED  BY <4>1 DEF CleanSynced
    <3>2. CleanSynced \subseteq CleanSynced'
      BY <3>1 DEF CleanSynced
    <3> QED  BY <2>a, <3>2 DEF FallbackIsKept, Kept, TypeOK
  <2>8. EntryProtects'
    BY <2>a, <2>c DEF Grown, EntryProtects, TypeOK, Kept
  <2>9. JournaledHasRow'
    BY <2>a, <2>c DEF Grown, JournaledHasRow, TypeOK
  <2> QED  BY <2>1, <2>2, <2>3, <2>4, <2>5, <2>6, <2>7, <2>8, <2>9
<1> QED  BY <1>1, <1>2, <1>3, <1>4, <1>5, <1>6

LEMMA BootIInv ==
  ASSUME IInv, ImportsLine \/ ImportStops \/ ImportEnds
  PROVE  IInv'
<1> USE SinkRecords DEF IInv, file, history
<1>1. CASE ImportsLine
  <2> USE <1>1 DEF ImportsLine
  <2>1. TypeOK'
    BY DEF TypeOK
  <2>2. BootIsQuiet'
    BY DEF BootIsQuiet, TypeOK
  <2>3. PassedIsImported'
    BY DEF PassedIsImported, TypeOK, Importable
  <2>4. WrittenOnce'
    BY DEF WrittenOnce, TypeOK
  <2>5. RecordIsThere'
    BY DEF RecordIsThere, TypeOK, RecordIsWhole, WrittenOnce
  <2>6. RecordIsWhole'
    BY DEF RecordIsWhole, TypeOK, Clean, WrittenOnce
  <2>7. FallbackIsKept'
    BY DEF FallbackIsKept, TypeOK, Kept, CleanSynced, Clean
  <2>8. EntryProtects'
    BY DEF EntryProtects, TypeOK, Kept
  <2>9. JournaledHasRow'
    BY DEF JournaledHasRow, TypeOK
  <2> QED  BY <2>1, <2>2, <2>3, <2>4, <2>5, <2>6, <2>7, <2>8, <2>9
<1>2. CASE ImportStops
  <2> USE <1>2 DEF ImportStops
  <2>1. TypeOK'
    BY DEF TypeOK
  <2>2. BootIsQuiet'
    BY DEF BootIsQuiet, TypeOK
  <2>3. PassedIsImported'
    BY DEF PassedIsImported, TypeOK, Importable
  <2>4. WrittenOnce'
    BY DEF WrittenOnce, TypeOK
  <2>5. RecordIsThere'
    BY DEF RecordIsThere, TypeOK, RecordIsWhole, WrittenOnce
  <2>6. RecordIsWhole'
    BY DEF RecordIsWhole, TypeOK, Clean, WrittenOnce
  <2>7. FallbackIsKept'
    BY DEF FallbackIsKept, TypeOK, Kept, CleanSynced, Clean
  <2>8. EntryProtects'
    BY DEF EntryProtects, TypeOK, Kept
  <2>9. JournaledHasRow'
    BY DEF JournaledHasRow, TypeOK
  <2> QED  BY <2>1, <2>2, <2>3, <2>4, <2>5, <2>6, <2>7, <2>8, <2>9
<1>3. CASE ImportEnds /\ UNCHANGED file
  <2>1. TypeOK'
    BY <1>3 DEF ImportEnds, TypeOK
  <2>2. BootIsQuiet'
    BY <1>3 DEF ImportEnds, BootIsQuiet, TypeOK
  <2>3. PassedIsImported'
    BY <1>3 DEF ImportEnds, PassedIsImported, TypeOK, Importable
  <2>4. WrittenOnce'
    BY <1>3 DEF ImportEnds, WrittenOnce, TypeOK
  <2>5. RecordIsThere'
    BY <1>3 DEF ImportEnds, RecordIsThere, TypeOK, RecordIsWhole, WrittenOnce
  <2>6. RecordIsWhole'
    BY <1>3 DEF ImportEnds, RecordIsWhole, TypeOK, Clean, WrittenOnce
  <2>7. FallbackIsKept'
    BY <1>3 DEF ImportEnds, FallbackIsKept, TypeOK, Kept, CleanSynced, Clean
  <2>8. EntryProtects'
    BY <1>3 DEF ImportEnds, EntryProtects, TypeOK, Kept
  <2>9. JournaledHasRow'
    BY <1>3 DEF ImportEnds, JournaledHasRow, TypeOK
  <2> QED  BY <2>1, <2>2, <2>3, <2>4, <2>5, <2>6, <2>7, <2>8, <2>9
<1>4. CASE /\ ImportEnds
           /\ sink' = <<>> /\ synced' = 0 /\ entry' = "missing" /\ UNCHANGED created
  <2>0. /\ process = "booting" /\ cursor > Len(sink) /\ process' = "running"
        /\ UNCHANGED <<stage, journal, cursor, behind, nameless, created>>
        /\ sink' = <<>> /\ Len(sink') = 0
    BY <1>4 DEF ImportEnds
  <2>a. synced' = 0 /\ entry' = "missing"
    BY <1>4
  <2>1. TypeOK'
    BY <2>0, <2>a DEF TypeOK
  <2>2. BootIsQuiet'
    BY <2>0, <2>a DEF BootIsQuiet, TypeOK
  <2>3. PassedIsImported'
    BY <2>0, <2>a DEF PassedIsImported, TypeOK, Importable
  <2>4. WrittenOnce'
    BY <2>0, <2>a DEF WrittenOnce, TypeOK
  <2>5. RecordIsThere'
    BY <2>0, <2>a DEF RecordIsThere, TypeOK, BootIsQuiet
  <2>6. RecordIsWhole'
    BY <2>0, <2>a DEF RecordIsWhole, TypeOK, Clean, WrittenOnce
  <2>7. FallbackIsKept'
    <3>1. CleanSynced \subseteq journal
      <4> SUFFICES ASSUME NEW i \in 1..Len(sink), Clean(i)  PROVE sink[i].find \in journal
        BY DEF CleanSynced
      <4> QED  BY <2>0 DEF PassedIsImported, Importable, Clean, TypeOK
    <3> QED  BY <2>0, <3>1 DEF FallbackIsKept, Kept
  <2>8. EntryProtects'
    BY <2>0, <2>a DEF EntryProtects, TypeOK, Kept
  <2>9. JournaledHasRow'
    BY <2>0, <2>a DEF JournaledHasRow, TypeOK
  <2> QED  BY <2>1, <2>2, <2>3, <2>4, <2>5, <2>6, <2>7, <2>8, <2>9
<1> QED  BY <1>1, <1>2, <1>3, <1>4 DEF ImportEnds

\* What a power loss leaves of the file: the synced records as they were, and of the
\* others some more, in their places.
LEMMA SurvivingShape ==
  ASSUME TypeOK, NEW t \in Surviving
  PROVE  /\ t \in Seq(Record) /\ Len(t) \in Nat /\ synced <= Len(t) /\ Len(t) <= Len(sink)
         /\ \A i \in 1..synced : t[i] = sink[i]
         /\ \A i \in 1..Len(t) : t[i].find = sink[i].find
<1> DEFINE Prefix(n) == SubSeq(sink, 1, n)
<1>0. sink \in Seq(Record) /\ Len(sink) \in Nat /\ synced \in 0..Len(sink)
      /\ \A i \in 1..Len(sink) : sink[i] \in Record
  BY SinkRecords DEF TypeOK, Record
<1>1. \A n \in synced..Len(sink) : /\ Prefix(n) \in Seq(Record) /\ Len(Prefix(n)) = n
                                  /\ \A i \in 1..n : Prefix(n)[i] = sink[i]
  <2> SUFFICES ASSUME NEW n \in synced..Len(sink)
               PROVE  /\ Prefix(n) \in Seq(Record) /\ Len(Prefix(n)) = n
                      /\ \A i \in 1..n : Prefix(n)[i] = sink[i]
    OBVIOUS
  <2>1. n \in Int /\ 1 \in Int /\ \A i \in 1..n : sink[i] \in Record
    BY <1>0
  <2>2. /\ Prefix(n) \in Seq(Record)
        /\ Len(Prefix(n)) = IF 1 <= n THEN n - 1 + 1 ELSE 0
        /\ \A i \in 1..(n - 1 + 1) : Prefix(n)[i] = sink[1 + i - 1]
    BY <2>1, SubSeqProperties
  <2> HIDE DEF Prefix
  <2> QED  BY <1>0, <2>2
<1>2. CASE \E n \in synced..Len(sink) : t = Prefix(n)
  <2> PICK n \in synced..Len(sink) : t = Prefix(n)
    BY <1>2
  <2> HIDE DEF Prefix
  <2> QED  BY <1>0, <1>1
<1>3. CASE \E n \in synced..Len(sink), w \in {"bare", "part"} :
             n < Len(sink) /\ t = Append(Prefix(n), [find |-> sink[n + 1].find, form |-> w])
  <2> PICK n \in synced..Len(sink), w \in {"bare", "part"} :
             n < Len(sink) /\ t = Append(Prefix(n), [find |-> sink[n + 1].find, form |-> w])
    BY <1>3
  <2> DEFINE r == [find |-> sink[n + 1].find, form |-> w]
  <2>1. r \in Record /\ r.find = sink[n + 1].find
    <3>1. sink[n + 1] \in Record
      BY <1>0
    <3> QED  BY <3>1 DEF Record, Forms
  <2> HIDE DEF r, Prefix
  <2>2. /\ t \in Seq(Record) /\ Len(t) = n + 1
        /\ \A i \in 1..n : t[i] = Prefix(n)[i]
        /\ t[n + 1] = r
    <3>1. Prefix(n) \in Seq(Record) /\ Len(Prefix(n)) = n /\ t = Append(Prefix(n), r)
      BY <1>1 DEF r
    <3> QED  BY <2>1, <3>1, AppendProperties
  <2> QED  BY <1>0, <1>1, <2>1, <2>2
<1>4. \/ \E n \in synced..Len(sink) : t = Prefix(n)
      \/ \E n \in synced..Len(sink), w \in {"bare", "part"} :
           n < Len(sink) /\ t = Append(Prefix(n), [find |-> sink[n + 1].find, form |-> w])
  BY Zenon DEF Surviving
<1> QED  BY <1>2, <1>3, <1>4

LEMMA RestartIInv ==
  ASSUME IInv, ProcessDies \/ PowerLoss
  PROVE  IInv'
<1> USE SinkRecords DEF IInv
<1>1. /\ process' = "booting" /\ cursor' = 1 /\ created' = {} /\ UNCHANGED <<behind, nameless>>
      /\ journal \subseteq journal' /\ journal' \subseteq Finds
      /\ stage' \in [Finds -> Stages]
      /\ \A f \in Finds : /\ stage'[f] \notin Writing
                          /\ stage'[f] \in {stage[f], "gone"}
                          /\ stage[f] \notin Writing => stage'[f] = stage[f]
  BY DEF ProcessDies, PowerLoss, Restarts, TypeOK, history
\* The file after the restart: nothing that was synced has changed.
<1>2. \/ /\ sink' \in Seq(Record) /\ Len(sink') \in Nat /\ synced <= Len(sink')
         /\ Len(sink') <= Len(sink)
         /\ \A i \in 1..synced : sink'[i] = sink[i]
         /\ \A i \in 1..Len(sink') : sink'[i].find = sink[i].find
         /\ synced <= synced' /\ synced' \in 0..Len(sink')
         /\ entry' \in {"missing", "unsynced", "durable"}
         /\ entry' = "missing" => entry = "missing"
         /\ entry' = "unsynced" => entry = "unsynced" /\ sink' = sink
      \/ entry = "unsynced" /\ entry' = "missing" /\ sink' = <<>> /\ Len(sink') = 0 /\ synced' = 0
  <2>1. CASE ProcessDies
    BY <2>1 DEF ProcessDies, TypeOK, Record
  <2>2. CASE PowerLoss /\ sink' \in Surviving /\ entry' = IF entry = "missing" THEN entry ELSE "durable"
    <3>1. synced' = Len(sink') /\ synced \in Nat
      BY <2>2 DEF PowerLoss, TypeOK
    <3> QED  BY <2>2, <3>1, SurvivingShape DEF TypeOK
  <2>3. CASE PowerLoss /\ entry = "unsynced" /\ entry' = "missing" /\ sink' = <<>>
    BY <2>3 DEF PowerLoss
  <2> QED  BY <2>1, <2>2, <2>3 DEF PowerLoss
<1>3. CASE entry = "unsynced" /\ entry' = "missing" /\ sink' = <<>> /\ Len(sink') = 0 /\ synced' = 0
  <2>1. TypeOK'
    BY <1>1, <1>3 DEF TypeOK
  <2>2. BootIsQuiet'
    BY <1>1, <1>3 DEF BootIsQuiet, TypeOK
  <2>3. PassedIsImported'
    BY <1>1, <1>3 DEF PassedIsImported, TypeOK, Importable
  <2>4. WrittenOnce'
    BY <1>1, <1>3 DEF WrittenOnce, TypeOK
  <2>5. RecordIsThere'
    BY <1>1, <1>3 DEF RecordIsThere, TypeOK, RecordIsWhole, WrittenOnce
  <2>6. RecordIsWhole'
    BY <1>1, <1>3 DEF RecordIsWhole, TypeOK, Clean, WrittenOnce
  <2>7. FallbackIsKept'
    <3>1. \A f \in Finds : stage[f] = "fallback" /\ f \in CleanSynced => f \in Kept
      BY <1>3 DEF EntryProtects, CleanSynced
    <3> QED  BY <1>1, <3>1 DEF FallbackIsKept, Kept
  <2>8. EntryProtects'
    BY <1>1, <1>3 DEF EntryProtects, TypeOK, Kept
  <2>9. JournaledHasRow'
    BY <1>1, <1>3 DEF JournaledHasRow, TypeOK
  <2> QED  BY <2>1, <2>2, <2>3, <2>4, <2>5, <2>6, <2>7, <2>8, <2>9
<1>4. CASE ~(entry = "unsynced" /\ entry' = "missing" /\ sink' = <<>> /\ Len(sink') = 0 /\ synced' = 0)
  <2>1. TypeOK'
    BY <1>1, <1>2, <1>4 DEF TypeOK, Record
  <2>2. BootIsQuiet'
    BY <1>1, <1>2, <1>4 DEF BootIsQuiet, TypeOK
  <2>3. PassedIsImported'
    BY <1>1, <1>2, <1>4 DEF PassedIsImported, TypeOK, Importable
  <2>4. WrittenOnce'
    BY <1>1, <1>2, <1>4 DEF WrittenOnce, TypeOK
  <2>5. RecordIsThere'
    BY <1>1, <1>2, <1>4 DEF RecordIsThere, TypeOK, RecordIsWhole, WrittenOnce
  <2>6. RecordIsWhole'
    <3> SUFFICES ASSUME NEW i \in 1..Len(sink'), stage'[sink'[i].find] \in Written
                 PROVE  sink'[i].form = "whole" /\ (Clean(i)' \/ sink'[i].find \in behind')
      BY DEF RecordIsWhole
    <3>1. i \in 1..Len(sink) /\ sink'[i].find = sink[i].find
      BY <1>2, <1>4
    <3>2. stage[sink[i].find] = "fallback" /\ i <= synced
      BY <1>1, <3>1 DEF RecordIsThere
    <3>3. sink'[i] = sink[i] /\ (i > 1 => sink'[i - 1] = sink[i - 1])
      BY <1>2, <1>4, <3>1, <3>2 DEF TypeOK
    <3> QED  BY <1>1, <3>1, <3>2, <3>3 DEF RecordIsWhole, Clean
  <2>7. FallbackIsKept'
    <3>1. ASSUME NEW i \in 1..Len(sink), i <= synced, Clean(i)
          PROVE  sink[i].find \in CleanSynced'
      <4>1. i \in 1..Len(sink') /\ i <= synced' /\ sink'[i] = sink[i] /\ Clean(i)'
        BY <1>2, <1>4, <3>1 DEF Clean, TypeOK
      <4> QED  BY <4>1 DEF CleanSynced
    <3>2. CleanSynced \subseteq CleanSynced'
      BY <3>1 DEF CleanSynced
    <3> QED  BY <1>1, <3>2 DEF FallbackIsKept, Kept
  <2>8. EntryProtects'
    BY <1>1, <1>2, <1>4 DEF EntryProtects, TypeOK, Kept
  <2>9. JournaledHasRow'
    BY <1>1, <1>2, <1>4 DEF JournaledHasRow, TypeOK
  <2> QED  BY <2>1, <2>2, <2>3, <2>4, <2>5, <2>6, <2>7, <2>8, <2>9
<1> QED  BY <1>3, <1>4

LEMMA StepIInv == IInv /\ [Next]_vars => IInv'
<1> SUFFICES ASSUME IInv, [Next]_vars PROVE IInv'
  OBVIOUS
<1>1. CASE UNCHANGED vars
  BY <1>1 DEF vars, IInv, TypeOK, BootIsQuiet, PassedIsImported, WrittenOnce, RecordIsThere,
              RecordIsWhole, FallbackIsKept, EntryProtects, JournaledHasRow, Importable, Clean,
              Kept, CleanSynced
<1>2. CASE Next
  BY <1>2, CaptureIInv, BootIInv, RestartIInv DEF Next
<1> QED  BY <1>1, <1>2

LEMMA SpecIInv == Spec => []IInv
  BY InitIInv, StepIInv, PTL DEF Spec

\* The file, the import's cursor and the stages of the captures keep their types, for
\* any number of finds.
THEOREM CaptureTypeCorrect == Spec => []TypeOK
<1>1. IInv => TypeOK
  BY DEF IInv
<1> QED  BY <1>1, SpecIInv, PTL

\* A find reported durable by record (find.rs) has a row in the journal or is given one by
\* the next boot, for any number of mining threads and through any sequence of failing
\* journals and sinks, torn writes, failed imports, crashes and power losses; the two
\* exceptions are those DurableSurvives names.
THEOREM DurableSurvivesTheorem == Spec => []DurableSurvives
<1>1. IInv => DurableSurvives
  <2> SUFFICES ASSUME IInv, NEW f \in Durable
               PROVE  f \in journal \cup Recoverable \cup behind \cup nameless
    BY DEF DurableSurvives
  <2>1. CASE stage[f] = "journaled"
    BY <2>1 DEF IInv, JournaledHasRow, Durable
  <2>2. CASE stage[f] = "fallback"
    <3>1. f \in Kept \cup CleanSynced
      BY <2>2 DEF IInv, FallbackIsKept, Durable
    <3>2. CleanSynced \subseteq Recoverable
      BY DEF CleanSynced, Recoverable, Clean, Importable
    <3> QED  BY <3>1, <3>2 DEF Kept
  <2> QED  BY <2>1, <2>2 DEF Durable
<1> QED  BY <1>1, SpecIInv, PTL

\* The sink is archived only by an import that gave every record in it a row
\* (import_into of fallback.rs, open_journal_banner of run.rs).
THEOREM ArchivedWhenImportedTheorem == Spec => ArchivedWhenImported
<1> DEFINE A == sink # <<>> /\ sink' = <<>> /\ process' = "running" => Recoverable \subseteq journal
<1>1. IInv /\ [Next]_vars => [A]_vars
  <2> SUFFICES ASSUME IInv, Next, sink # <<>>, sink' = <<>>, process' = "running"
               PROVE  Recoverable \subseteq journal
    OBVIOUS
  <2>1. ASSUME NEW f \in Finds, Writes(f) PROVE FALSE
    <3> DEFINE r == [find |-> f, form |-> "whole"]
    <3>1. r \in Record /\ sink' = Append(sink, r)
      BY <2>1 DEF Writes, Record, Forms
    <3>2. sink \in Seq(Record)
      BY DEF IInv, TypeOK, Record
    <3> QED  BY <3>1, <3>2, AppendProperties
  <2>2. ImportEnds
    BY <2>1 DEF Next, Found, Journals, Syncs, SyncsDirectory, SinkFails, ImportsLine, ImportStops,
                ProcessDies, PowerLoss, Restarts, file
  <2>3. process = "booting" /\ cursor > Len(sink)
    BY <2>2 DEF ImportEnds
  <2>4. ASSUME NEW i \in 1..Len(sink), Importable(i) PROVE sink[i].find \in journal
    BY <2>3, <2>4, SinkRecords DEF IInv, PassedIsImported, TypeOK
  <2> QED  BY <2>4 DEF Recoverable
<1> QED  BY <1>1, SpecIInv, PTL DEF Spec, ArchivedWhenImported
=============================================================================
