---------------------------- MODULE FindCapture -----------------------------
(***************************************************************************)
(* From a digest to a durable find: record and persist of                  *)
(* treeminer/src/find.rs (journal, else fallback sink, else fatal), the    *)
(* sink file of tm-journal/src/fallback.rs, and the import of that file at *)
(* boot (open_journal_banner of run.rs).  Mining threads capture finds     *)
(* concurrently, one thread per find here.                                 *)
(*                                                                         *)
(* The sink is the sequence of the writes it holds.  A write is "whole"    *)
(* (the JSON object and its newline), "bare" (the object, no newline) or   *)
(* "part" of an object.  The import splits on newlines, so a write that    *)
(* follows one without a newline is on the same line.                      *)
(***************************************************************************)
EXTENDS Integers, Sequences, SequencesExt

CONSTANTS Finds,
          Faults   \* which faults a run includes, of:

AllFaults == {"short write",      \* a failing write leaves a piece of the record
              "directory sync"}   \* sync_parent_directory fails, which append ignores

ASSUME CaptureAssumption == Faults \subseteq AllFaults

VARIABLES
  process,   \* "booting", "running", or "stopping" after a fatal failure
  stage,     \* how far each find's capture has come
  journal,   \* the finds that have a row
  sink,      \* the sink file
  synced,    \* how many writes of the file are on stable storage
  entry,     \* the file's directory entry: "missing", "unsynced" or "durable"
  created,   \* the finds whose append created the file (O_EXCL succeeded)
  cursor,    \* the write the import has reached
  behind,    \* history: finds written right behind a write without newline
  nameless   \* history: finds reported durable in a file whose entry is not

file == <<sink, synced, entry, created>>
history == <<behind, nameless>>
vars == <<process, stage, journal, sink, synced, entry, created, cursor, behind, nameless>>

Forms == {"whole", "bare", "part"}
Stages == {"mining", "appending", "writing", "syncing", "naming",
           "journaled", "fallback", "lost", "rejected", "gone"}

Init ==
  /\ process = "booting"
  /\ stage = [f \in Finds |-> "mining"]
  /\ journal = {} /\ sink = <<>> /\ synced = 0
  /\ entry = "missing" /\ created = {}
  /\ cursor = 1 /\ behind = {} /\ nameless = {}

-----------------------------------------------------------------------------
(* One mining thread: record.                                              *)

\* Only a find that payload_for cannot represent or whose digest the CPU refutes is
\* dropped.  A batch being hashed when the miner is told to stop still reports its finds.
Found(f) ==
  /\ process # "booting" /\ stage[f] = "mining"
  /\ \E next \in {"rejected", "appending"} : stage' = [stage EXCEPT ![f] = next]
  /\ UNCHANGED <<process, journal, file, cursor, history>>

\* journal.append: committed; failed; or failed and committed all the same.
Journals(f) ==
  /\ stage[f] = "appending"
  /\ \/ journal' = journal \cup {f} /\ stage' = [stage EXCEPT ![f] = "journaled"]
     \/ journal' \in {journal, journal \cup {f}} /\ stage' = [stage EXCEPT ![f] = "writing"]
  /\ UNCHANGED <<process, file, cursor, history>>

Unterminated == sink # <<>> /\ Last(sink).form # "whole"

\* open_new, else open_append: whoever finds no file creates it.
Opens(f) ==
  /\ entry' = IF entry = "missing" THEN "unsynced" ELSE entry
  /\ created' = IF entry = "missing" THEN created \cup {f} ELSE created

\* fallback.append, the write: the file is continued as it is, whatever it ends with.
Writes(f) ==
  /\ stage[f] = "writing"
  /\ Opens(f)
  /\ sink' = Append(sink, [find |-> f, form |-> "whole"])
  /\ behind' = IF Unterminated THEN behind \cup {f} ELSE behind
  /\ stage' = [stage EXCEPT ![f] = "syncing"]
  /\ UNCHANGED <<process, journal, synced, cursor, nameless>>

\* Append returns true and the find is reported durable.
Reported(f, entry_now) ==
  /\ stage' = [stage EXCEPT ![f] = "fallback"]
  /\ nameless' = IF entry_now = "durable" THEN nameless \ {w.find : w \in Range(sink)}
                                           ELSE nameless \cup {f}

\* Mutant: no fsync.
SyncsNothing(f) ==
  /\ stage[f] = "syncing"
  /\ IF f \in created
     THEN stage' = [stage EXCEPT ![f] = "naming"] /\ UNCHANGED nameless
     ELSE Reported(f, entry)
  /\ UNCHANGED <<process, journal, file, cursor, behind>>

\* sync_all; the creator goes on to fsync the directory.
Syncs(f) ==
  /\ stage[f] = "syncing"
  /\ synced' = Len(sink)
  /\ IF f \in created
     THEN stage' = [stage EXCEPT ![f] = "naming"] /\ UNCHANGED nameless
     ELSE Reported(f, entry)
  /\ UNCHANGED <<process, journal, sink, entry, created, cursor, behind>>

SyncsDirectory(f) ==
  /\ stage[f] = "naming"
  /\ \/ entry' = "durable"
     \/ "directory sync" \in Faults /\ UNCHANGED entry
  /\ Reported(f, entry')
  /\ UNCHANGED <<process, journal, sink, synced, created, cursor, behind>>

\* The sink fails too: the open, the write (what was written of it stays in the file),
\* or the fsync.  The find is lost and the miner is told to stop.
SinkFails(f) ==
  /\ \/ stage[f] = "writing" /\ UNCHANGED <<sink, entry, created>>
     \/ stage[f] = "writing" /\ Opens(f) /\ UNCHANGED sink
     \/ /\ stage[f] = "writing" /\ "short write" \in Faults
        /\ Opens(f)
        /\ \E w \in {"bare", "part"} : sink' = Append(sink, [find |-> f, form |-> w])
     \/ stage[f] = "syncing" /\ UNCHANGED <<sink, entry, created>>
  /\ stage' = [stage EXCEPT ![f] = "lost"]
  /\ process' = "stopping"
  /\ UNCHANGED <<journal, synced, cursor, history>>

-----------------------------------------------------------------------------
(* The boot: import_into, line by line, before any mining thread exists.   *)

\* A line is a record when it holds one object and nothing else.
Importable(i) ==
  /\ i > 1 => sink[i - 1].form = "whole"
  /\ \/ sink[i].form = "whole"
     \/ sink[i].form = "bare" /\ i = Len(sink)

ImportsLine ==
  /\ process = "booting" /\ cursor <= Len(sink)
  /\ journal' = IF Importable(cursor) THEN journal \cup {sink[cursor].find} ELSE journal
  /\ cursor' = cursor + 1
  /\ UNCHANGED <<process, stage, file, history>>

\* Mutant: a failed append is skipped like a malformed line.
ImportGoesOn ==
  /\ process = "booting" /\ cursor <= Len(sink) /\ Importable(cursor)
  /\ cursor' = cursor + 1
  /\ UNCHANGED <<process, stage, journal, file, history>>

\* The file cannot be read, or journal.append fails: the pass stops, the file stays,
\* the boot goes on.
ImportStops ==
  /\ process = "booting" /\ cursor <= Len(sink)
  /\ cursor = 1 \/ Importable(cursor)
  /\ process' = "running"
  /\ UNCHANGED <<stage, journal, file, cursor, history>>

\* A clean pass archives the file; a rename that fails leaves it for the next boot.
ImportEnds ==
  /\ process = "booting" /\ cursor > Len(sink)
  /\ process' = "running"
  /\ \/ sink' = <<>> /\ synced' = 0 /\ entry' = "missing" /\ UNCHANGED created
     \/ UNCHANGED file
  /\ UNCHANGED <<stage, journal, cursor, history>>

\* What stable storage may hold of the file's data: the synced writes, any number of
\* the writes after them, and a piece of the next one.
Surviving ==
  LET prefix(n) == SubSeq(sink, 1, n)
      torn(n) == {Append(prefix(n), [find |-> sink[n + 1].find, form |-> w]) :
                    w \in {"bare", "part"}}
  IN  UNION {{prefix(n)} \cup (IF n < Len(sink) THEN torn(n) ELSE {}) :
               n \in synced..Len(sink)}

\* The process dies at any point and is started again; a journal append it was in may
\* have committed.
Restarts ==
  /\ process' = "booting" /\ cursor' = 1
  /\ \E committed \in SUBSET {f \in Finds : stage[f] = "appending"} :
       journal' = journal \cup committed
  /\ stage' = [f \in Finds |->
                 IF stage[f] \in {"appending", "writing", "syncing", "naming"}
                 THEN "gone" ELSE stage[f]]
  /\ created' = {}
  /\ UNCHANGED history

ProcessDies == Restarts /\ UNCHANGED <<sink, synced, entry>>

\* With the machine's power goes all that is not on stable storage, a file whose
\* directory entry is not there included.
PowerLoss ==
  /\ Restarts
  /\ \/ sink' \in Surviving /\ entry' = IF entry = "missing" THEN entry ELSE "durable"
     \/ entry = "unsynced" /\ entry' = "missing" /\ sink' = <<>>
  /\ synced' = Len(sink')

Next ==
  \/ \E f \in Finds : Found(f) \/ Journals(f) \/ Writes(f) \/ Syncs(f)
                       \/ SyncsDirectory(f) \/ SinkFails(f)
  \/ ImportsLine \/ ImportStops \/ ImportEnds \/ ProcessDies \/ PowerLoss

Spec == Init /\ [][Next]_vars

-----------------------------------------------------------------------------
TypeOK ==
  /\ process \in {"booting", "running", "stopping"}
  /\ stage \in [Finds -> Stages]
  /\ journal \subseteq Finds /\ created \subseteq Finds
  /\ behind \subseteq Finds /\ nameless \subseteq Finds
  /\ sink \in Seq([find : Finds, form : Forms])
  /\ synced \in 0..Len(sink) /\ entry \in {"missing", "unsynced", "durable"}
  /\ cursor \in Nat \ {0}

\* The finds the next boot can still bring into the journal.
Recoverable == {sink[i].find : i \in {j \in 1..Len(sink) : Importable(j)}}

Durable == {f \in Finds : stage[f] \in {"journaled", "fallback"}}

\* A find reported durable survives whatever happens later (crashes, power losses,
\* failed imports, torn writes of other finds): it has a row or the next boot gives it
\* one.  The exceptions are a record written behind a torn tail and one reported before
\* the new file had a durable directory entry.
DurableSurvives == Durable \subseteq journal \cup Recoverable \cup behind \cup nameless

\* The sink is put away only when every record in it has a row.
ArchivedWhenImported ==
  [][sink # <<>> /\ sink' = <<>> /\ process' = "running"
       => Recoverable \subseteq journal]_vars
=============================================================================
