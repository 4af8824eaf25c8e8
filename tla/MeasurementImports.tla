--------------------------- MODULE MeasurementImports ---------------------------
(***************************************************************************)
(* The watched directory of BNetzA measurements                            *)
(* (app/modules/bnetz/collector.py): a file is imported, moved and, at the *)
(* end of the run, marked by its name; each step may fail, and the process *)
(* may stop between any two.  Names come back: a user may put another file *)
(* of the name of one that was moved, but does not overwrite one.          *)
(***************************************************************************)
EXTENDS Naturals, FiniteSets

CONSTANTS
  Names,
  MaxPuts,        \* bound: files that users put into the directory
  MaxFailures     \* bound: crashes, failed moves and failed markers

ASSUME ImportAssumption == {MaxPuts, MaxFailures} \subseteq Nat

VARIABLES
  puts, failures, \* so far; a file is known by its number, 0 is none
  bad,            \* files that do not parse, or whose row is refused
  watched,        \* the file of each name in the directory
  processed,      \* ... and in processed/
  marker,         \* .imported
  run,            \* "idle", "import", "move", "mark"
  todo,           \* the run: names still to import
  newly,          \* ... newly_imported
  stored,         \* rows of bnetz_measurements, by file
  again           \* history: files in the directory that are stored but were never marked

importVars == <<puts, failures, bad, watched, processed, marker, run, todo, newly, stored, again>>

Measurements == 1..MaxPuts
Directory    == {n \in Names : watched[n] # 0}

ImportInit ==
  /\ puts = 0 /\ failures = 0 /\ bad = {}
  /\ watched = [n \in Names |-> 0] /\ processed = [n \in Names |-> 0]
  /\ marker = {} /\ run = "idle" /\ todo = {} /\ newly = {}
  /\ stored = [f \in Measurements |-> 0] /\ again = {}

Put(n, readable) ==
  /\ puts < MaxPuts /\ puts' = puts + 1
  /\ n \notin Directory /\ watched' = [watched EXCEPT ![n] = puts']
  /\ bad' = IF readable THEN bad ELSE bad \cup {puts'}
  /\ UNCHANGED <<failures, processed, marker, run, todo, newly, stored, again>>

\* The marker is read and the directory listed.
Scan ==
  /\ run = "idle" /\ Directory \ marker # {}
  /\ run' = "import" /\ todo' = Directory \ marker /\ newly' = {}
  /\ UNCHANGED <<puts, failures, bad, watched, processed, marker, stored, again>>

\* After a file: the next one, or the marker if anything was imported.
After(n) == todo' = todo \ {n} /\ run' = IF todo' # {} THEN "import" ELSE IF newly = {} THEN "idle" ELSE "mark"

\* Mutant of ImportFile: a file that fails is moved out of the way.
ImportAnyFile(n) ==
  /\ run = "import" /\ n \in todo
  /\ run' = "move" /\ newly' = newly \cup {n} /\ UNCHANGED todo
  /\ stored' = IF watched[n] \in bad THEN stored ELSE [stored EXCEPT ![watched[n]] = @ + 1]
  /\ UNCHANGED <<puts, failures, bad, watched, processed, marker, again>>

\* One row in one transaction, and newly_imported; a file that fails stays for the next run.
ImportFile(n) ==
  /\ run = "import" /\ n \in todo
  /\ IF watched[n] \in bad
       THEN After(n) /\ UNCHANGED <<newly, stored>>
       ELSE /\ run' = "move" /\ newly' = newly \cup {n} /\ UNCHANGED todo
            /\ stored' = [stored EXCEPT ![watched[n]] = @ + 1]
  /\ UNCHANGED <<puts, failures, bad, watched, processed, marker, again>>

Move(n) ==
  /\ run = "move" /\ n \in todo \cap newly /\ After(n)
  /\ processed' = [processed EXCEPT ![n] = watched[n]] /\ watched' = [watched EXCEPT ![n] = 0]
  /\ UNCHANGED <<puts, failures, bad, marker, newly, stored, again>>

Mark ==
  /\ run = "mark" /\ run' = "idle"
  /\ marker' = marker \cup newly /\ newly' = {}
  /\ UNCHANGED <<puts, failures, bad, watched, processed, todo, stored, again>>

Fault == failures < MaxFailures /\ failures' = failures + 1

\* shutil.move raises: an error is counted, the name stays in newly_imported.
MoveFails(n) ==
  /\ Fault /\ run = "move" /\ n \in todo \cap newly /\ After(n)
  /\ UNCHANGED <<puts, bad, watched, processed, marker, newly, stored, again>>

\* A crash, or a marker that cannot be written, of which nobody hears.
Unmarked == again' = again \cup {watched[n] : n \in newly \cap Directory}

CrashImport ==
  /\ Fault /\ run # "idle" /\ run' = "idle" /\ todo' = {} /\ newly' = {} /\ Unmarked
  /\ UNCHANGED <<puts, bad, watched, processed, marker, stored>>

MarkFails ==
  /\ Fault /\ run = "mark" /\ run' = "idle" /\ newly' = {} /\ Unmarked
  /\ UNCHANGED <<puts, bad, watched, processed, marker, todo, stored>>

ImportNext ==
  \/ \E n \in Names : ImportFile(n) \/ Move(n) \/ MoveFails(n) \/ \E readable \in BOOLEAN : Put(n, readable)
  \/ Scan \/ Mark \/ CrashImport \/ MarkFails

ImportSpec == ImportInit /\ [][ImportNext]_importVars

\* A measurement that leaves the directory is stored, and none is stored twice, unless
\* the run that stored it ended before the name was marked.
StoredOnce ==
  /\ \A n \in Names : processed[n] # 0 => stored[processed[n]] > 0
  /\ \A f \in Measurements : stored[f] > 1 => f \in again
=============================================================================
