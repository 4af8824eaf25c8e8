-------------------------------- MODULE Backups --------------------------------
(***************************************************************************)
(* Backups of the data directory and their restore (app/modules/backup):   *)
(* the scheduled collector and web threads write, list and delete archives *)
(* in one directory without a lock, and restores replace the files of the  *)
(* data directory one by one.  A file's content is the installation it     *)
(* stems from; what pollers write in between does not matter here.         *)
(***************************************************************************)
EXTENDS Integers, FiniteSets

CONSTANTS
  Files,          \* DATA_FILES
  Databases,      \* those that a restore verifies
  Writers,        \* threads that create backups
  Restorers,      \* requests to restore one
  Here, Elsewhere,    \* contents: of this installation, of another's archive
  Broken,         \* ... and of a file that cannot be read
  Keep,           \* backup_retention
  MaxArchives     \* bound

ASSUME BackupAssumption == /\ Databases \subseteq Files /\ Broken \notin {Here, Elsewhere}
                           /\ Keep \in Nat \ {0} /\ MaxArchives \in Nat

VARIABLES
  data,           \* the content of each file of the data directory
  written,        \* the time: number of archives so far
  archives,       \* docsight_backup_*.tar.gz: time of modification, content; history: blurred
  writing,        \* writers: "idle", "copy", "publish", "list", "clean"
  temporary,      \* each writer's archive: its content so far, or all of it
  listing,        \* what each writer's cleanup is still to delete
  restoring,      \* restorers: "idle", "verify", "install", "done"
  staged,         \* each restorer's staged files
  mixed,          \* history: files of the data directory come from several restores, or from a
                  \* restore that was cut off or of an archive that was mixed itself
  blurred,        \* history: writers that copied while a restore went on or the data were mixed
  disturbed       \* history: writers since whose listing a user deleted an archive, or one of them did

writerVars  == <<written, archives, writing, temporary, listing, disturbed, blurred>>
restoreVars == <<data, restoring, staged, mixed>>
backupVars  == <<writerVars, restoreVars, blurred>>

Nothing    == [f \in {} |-> Here]
Uniform(c) == \A f, g \in DOMAIN c : c[f] = c[g]
Newer(a)   == {b \in archives : b.modified > a.modified}
Installing == {r \in Restorers : restoring[r] = "install"}

BackupInit ==
  /\ data = [f \in Files |-> Here]
  /\ written = 1
  /\ archives = {[modified |-> 1, content |-> data, blurred |-> FALSE]}
  /\ writing = [w \in Writers |-> "idle"] /\ temporary = [w \in Writers |-> Nothing]
  /\ listing = [w \in Writers |-> {}] /\ disturbed = {} /\ blurred = {}
  /\ restoring = [r \in Restorers |-> "idle"] /\ staged = [r \in Restorers |-> Nothing]
  /\ mixed = FALSE

---------------------------------------------------------------------------
(* create_backup_to_file and cleanup_old_backups.                          *)

Proceed(w, from, to) == writing[w] = from /\ writing' = [writing EXCEPT ![w] = to]

BeginBackup(w) ==
  /\ Proceed(w, "idle", "copy") /\ written + Cardinality({v \in Writers : writing[v] = "copy"}) < MaxArchives
  /\ temporary' = [temporary EXCEPT ![w] = Nothing]
  /\ blurred' = IF mixed \/ Installing # {} THEN blurred \cup {w} ELSE blurred \ {w}
  /\ UNCHANGED <<written, archives, listing, disturbed, restoreVars>>

\* VACUUM INTO of the databases first, then the other files as they are.
Copy(w, f) ==
  /\ writing[w] = "copy" /\ f \notin DOMAIN temporary[w]
  /\ f \in Databases \/ Databases \subseteq DOMAIN temporary[w]
  /\ temporary' = [temporary EXCEPT ![w] = [g \in DOMAIN @ \cup {f} |-> IF g = f THEN data[f] ELSE @[g]]]
  /\ UNCHANGED <<written, archives, writing, listing, disturbed, blurred, restoreVars>>

\* The last byte gives the temporary file its time; ...
Stamped(w) == [modified |-> written + 1, content |-> temporary[w], blurred |-> w \in blurred]

EndArchive(w) ==
  /\ Proceed(w, "copy", "publish") /\ DOMAIN temporary[w] = Files
  /\ temporary' = [temporary EXCEPT ![w] = Stamped(w)]
  /\ written' = written + 1
  /\ UNCHANGED <<archives, listing, disturbed, blurred, restoreVars>>

\* ... os.replace shows it.
Publish(w) ==
  /\ Proceed(w, "publish", "list")
  /\ archives' = archives \cup {temporary[w]}
  /\ temporary' = [temporary EXCEPT ![w] = Nothing]
  /\ UNCHANGED <<written, listing, disturbed, blurred, restoreVars>>

\* A full disk, a crash: the temporary file is no archive.
BackupFails(w) ==
  /\ writing[w] # "idle"
  /\ writing' = [writing EXCEPT ![w] = "idle"]
  /\ temporary' = [temporary EXCEPT ![w] = Nothing] /\ listing' = [listing EXCEPT ![w] = {}]
  /\ UNCHANGED <<written, archives, disturbed, blurred, restoreVars>>

\* Mutant of Old: the list is sorted the other way.
OldBackwards(a) == Cardinality({b \in archives : b.modified < a.modified}) >= Keep

\* list_backups(...)[keep:], sorted by the time of modification.
Old(a) == Cardinality(Newer(a)) >= Keep

ListBackups(w) ==
  /\ Proceed(w, "list", IF \E a \in archives : Old(a) THEN "clean" ELSE "idle")
  /\ listing' = [listing EXCEPT ![w] = {a \in archives : Old(a)}]
  /\ disturbed' = disturbed \ {w}
  /\ UNCHANGED <<written, archives, temporary, blurred, restoreVars>>

\* os.remove, or OSError if it is gone already.
RemoveArchive(w, a) ==
  /\ a \in listing[w] /\ Proceed(w, "clean", IF listing[w] = {a} THEN "idle" ELSE "clean")
  /\ listing' = [listing EXCEPT ![w] = @ \ {a}] /\ archives' = archives \ {a}
  /\ disturbed' = IF w \in disturbed THEN Writers ELSE disturbed
  /\ UNCHANGED <<written, temporary, blurred, restoreVars>>

DeleteBackup(a) ==
  /\ archives' = archives \ {a} /\ disturbed' = Writers
  /\ UNCHANGED <<written, writing, temporary, listing, blurred, restoreVars>>

---------------------------------------------------------------------------
(* restore_backup                                                          *)

\* An upload: an archive of this directory, or of another, perhaps with broken databases.
Uploads == {a.content : a \in archives} \cup
           {[f \in Files |-> IF f \in bad THEN Broken ELSE Elsewhere] : bad \in SUBSET Databases}

\* All members are staged beside the files.
Stage(r, c) ==
  /\ restoring[r] = "idle"
  /\ restoring' = [restoring EXCEPT ![r] = "verify"] /\ staged' = [staged EXCEPT ![r] = c]
  /\ UNCHANGED <<data, mixed, writerVars>>

\* Mutant of Verified: it looks for a database, not at it.
VerifiedByName(r) == Databases \subseteq DOMAIN staged[r]
Verified(r) == \A d \in Databases : staged[r][d] # Broken

Reject(r) ==
  /\ restoring[r] = "verify" /\ ~Verified(r)
  /\ restoring' = [restoring EXCEPT ![r] = "done"] /\ staged' = [staged EXCEPT ![r] = Nothing]
  /\ UNCHANGED <<data, mixed, writerVars>>

Disturb == blurred' = blurred \cup {w \in Writers : writing[w] = "copy"}

Accept(r) ==
  /\ restoring[r] = "verify" /\ Verified(r)
  /\ restoring' = [restoring EXCEPT ![r] = "install"]
  /\ mixed' = (Installing # {} \/ ~Uniform(staged[r]))
  /\ Disturb
  /\ UNCHANGED <<data, staged, written, archives, writing, temporary, listing, disturbed>>

\* os.replace of one file after the other, in the order of the archive.
Install(r, f) ==
  /\ restoring[r] = "install" /\ f \in DOMAIN staged[r]
  /\ f \in Databases \/ Databases \cap DOMAIN staged[r] = {}
  /\ data' = [data EXCEPT ![f] = staged[r][f]]
  /\ staged' = [staged EXCEPT ![r] = [g \in DOMAIN @ \ {f} |-> @[g]]]
  /\ restoring' = [restoring EXCEPT ![r] = IF DOMAIN staged[r] = {f} THEN "done" ELSE "install"]
  /\ UNCHANGED <<mixed, writerVars>>

\* A crash, a failed replace: the files that are not installed are removed.
RestoreFails(r) ==
  /\ restoring[r] \notin {"idle", "done"}
  /\ restoring' = [restoring EXCEPT ![r] = "done"] /\ staged' = [staged EXCEPT ![r] = Nothing]
  /\ mixed' = (mixed \/ restoring[r] = "install")
  /\ UNCHANGED <<data, writerVars>>

BackupNext ==
  \/ \E w \in Writers :
       \/ BeginBackup(w) \/ EndArchive(w) \/ Publish(w) \/ BackupFails(w) \/ ListBackups(w)
       \/ \E f \in Files : Copy(w, f)
       \/ \E a \in listing[w] : RemoveArchive(w, a)
  \/ \E a \in archives : DeleteBackup(a)
  \/ \E r \in Restorers :
       \/ Reject(r) \/ Accept(r) \/ RestoreFails(r)
       \/ \E c \in Uploads : Stage(r, c)
       \/ \E f \in Files : Install(r, f)

BackupSpec == BackupInit /\ [][BackupNext]_backupVars

---------------------------------------------------------------------------
\* A database that cannot be read is never installed and never gets into an archive.
\* The files of the data directory belong together, unless a restore is under way, was
\* cut off, or met another one; and so do those of an archive, unless it was written
\* meanwhile.
FilesBelongTogether ==
  /\ \A d \in Databases : data[d] # Broken /\ \A a \in archives : a.content[d] # Broken
  /\ mixed \/ Installing # {} \/ Uniform(data)
  /\ \A a \in archives : a.blurred \/ Uniform(a.content)

\* Cleanups of threads that do not know of each other delete an archive only while as
\* many newer ones are kept as backup_retention says, unless a user deletes one at the
\* same time.
NewestAreKept ==
  \A w \in Writers : \A a \in (listing[w] \ listing'[w]) \cap (archives \ archives') :
    w \in disturbed \/ Cardinality(Newer(a)) >= Keep

\* Restores, backups and cleanups at the same time (backup.py, restore_backup,
\* create_backup_to_file, cleanup_old_backups).
BackupsAreSound == [][FilesBelongTogether' /\ NewestAreKept]_backupVars
=============================================================================
