------------------------------- MODULE HostProofs -------------------------------
(***************************************************************************)
(* Proofs about what happens on the host's side, for any value of the      *)
(* constants: saves of the configuration (ConfigStore), imported files     *)
(* (MeasurementImports), modules switched on and off (ModuleSwitches),     *)
(* launchers that own the instance (DesktopInstance), and backups and      *)
(* restores (Backups).                                                     *)
(***************************************************************************)
EXTENDS ConfigStore, MeasurementImports, ModuleSwitches, DesktopInstance, Backups, FiniteSetTheorems, TLAPS

---------------------------------------------------------------------------
(***************************************************************************)
(* Saves of the configuration that wait for each other, with failed writes *)
(* and crashes (ConfigStore).                                              *)
(***************************************************************************)
\* One request at a time is between its merge and its answer.
OneSaves == \A q, r \in Requests : Active(q) /\ Active(r) => q = r

\* What the request under way has already done, and nobody undid.
SaveProgress ==
  \A r \in Requests :
    /\ Active(r) => r \in dict[current]
    /\ pc[r] \in {"dump", "close"} => disk = Truncated
    /\ pc[r] = "close" => dumped[r] = current /\ seen[r] = dict[current]
    /\ pc[r] = "reload" => disk = dict[current]

\* The two halves of AnswersAreKept, for saves that wait for each other.
MemoryKeeps == ~torn => acked \subseteq dict[current]
FileKeeps   == ~torn /\ Readable => acked \subseteq disk

SerialInv == OneSaves /\ SaveProgress /\ MemoryKeeps /\ FileKeeps

ConfigInv == TypeOK /\ (Serial => SerialInv)

---------------------------------------------------------------------------
LEMMA ConfigInitInv == ConfigInit => ConfigInv
<1> SUFFICES ASSUME ConfigInit PROVE ConfigInv
  OBVIOUS
<1> USE DEF ConfigInit
<1>1. TypeOK
  BY ConfigAssumption DEF TypeOK, Configs, Dicts, Saves, Final
<1>2. OneSaves /\ SaveProgress
  BY DEF OneSaves, SaveProgress, Active, Final
<1>3. MemoryKeeps /\ FileKeeps
  BY DEF MemoryKeeps, FileKeeps, Dicts
<1>4. QED
  BY <1>1, <1>2, <1>3 DEF ConfigInv, SerialInv

LEMMA LoadedIsConfig == TypeOK => Loaded \in Configs
  BY DEF TypeOK, Loaded, Readable, Configs

LEMMA TypeStep == TypeOK /\ [ConfigNext]_configVars => TypeOK'
<1> SUFFICES ASSUME TypeOK, [ConfigNext]_configVars PROVE TypeOK'
  OBVIOUS
<1> USE DEF TypeOK, Dicts
<1>1. CASE Crash
  <2>1. pc' \in [Requests -> {"idle", "open", "dump", "close", "reload"} \cup Final]
    BY <1>1 DEF Crash, Final
  <2>2. QED
    BY <1>1, <2>1, LoadedIsConfig DEF Crash, Readable
<1>2. ASSUME NEW r \in Requests,
             Merge(r) \/ Open(r) \/ OpenFails(r) \/ Dump(r) \/ Close(r) \/ CloseFails(r)
               \/ Reload(r)
      PROVE  TypeOK'
  <2> USE DEF Go
  <2>1. CASE Merge(r)
    BY <2>1 DEF Merge, Configs, Saves
  <2>2. CASE Open(r) \/ OpenFails(r)
    BY <2>2 DEF Open, OpenFails, Final
  <2>3. CASE Dump(r)
    BY <2>3 DEF Dump
  <2>4. CASE Close(r)
    BY <2>4 DEF Close, Answer, Written, Overwrite, Final, Saves
  <2>5. CASE CloseFails(r)
    BY <2>5 DEF CloseFails, Final
  <2>6. CASE Reload(r)
    BY <2>6, LoadedIsConfig DEF Reload, Readable, Final, Saves
  <2>7. QED
    BY <1>2, <2>1, <2>2, <2>3, <2>4, <2>5, <2>6
<1>3. CASE UNCHANGED configVars
  BY <1>3 DEF configVars
<1>4. QED
  BY <1>1, <1>2, <1>3 DEF ConfigNext

---------------------------------------------------------------------------
(* Saves that wait for each other.                                         *)

\* While a request is under way no other one is, and none becomes so.
LEMMA OthersRest ==
  ASSUME TypeOK, OneSaves, NEW r \in Requests, Active(r),
         NEW to, pc' = [pc EXCEPT ![r] = to]
  PROVE  /\ OneSaves'
         /\ \A q \in Requests : q # r => ~Active(q) /\ ~Active(q)'
         /\ pc'[r] = to
  BY DEF TypeOK, OneSaves, Active

\* A request that is not under way has nothing to show.
LEMMA NothingToShow ==
  ASSUME NEW p, p \in Final \cup {"idle"}
  PROVE  p \notin {"open", "dump", "close", "reload"}
  BY DEF Final

\* The close of a serial save puts all that memory holds into the file.
LEMMA CloseWritesAll ==
  ASSUME ConfigInv, Serial, NEW r \in Requests, Close(r)
  PROVE  disk' = dict[current]
<1>1. pc[r] = "close"
  BY DEF Close, Answer, Go
<1>2. disk = Truncated /\ dumped[r] = current /\ seen[r] = dict[current]
  BY <1>1 DEF ConfigInv, SerialInv, SaveProgress
<1>3. Written(r) \subseteq {dict[current]}
  BY <1>2 DEF Written
<1>4. \A c : Overwrite(c) = {c}
  BY <1>2 DEF Overwrite, Readable
<1>5. QED
  BY <1>3, <1>4 DEF Close

LEMMA SerialRequest ==
  ASSUME ConfigInv, Serial, NEW r \in Requests,
         Merge(r) \/ Open(r) \/ OpenFails(r) \/ Dump(r) \/ Close(r) \/ CloseFails(r)
           \/ Reload(r)
  PROVE  SerialInv'
<1> USE DEF Go
<1>1. TypeOK /\ OneSaves /\ SaveProgress /\ MemoryKeeps /\ FileKeeps
  BY DEF ConfigInv, SerialInv
<1>2. current \in Dicts /\ dict \in [Dicts -> Configs] /\ r \in Dicts
      /\ pc \in [Requests -> {"idle", "open", "dump", "close", "reload"} \cup Final]
      /\ dumped \in [Requests -> Dicts] /\ seen \in [Requests -> Configs]
  BY <1>1 DEF TypeOK, Dicts
<1>3. CASE Merge(r)
  <2>1. \A q \in Requests : ~Active(q)
    BY <1>3 DEF Merge, AtRest
  <2>2. /\ dict'[current'] = dict[current] \cup {r} /\ UNCHANGED <<disk, acked, torn>>
        /\ pc'[r] = "open" /\ \A q \in Requests : q # r => pc'[q] = pc[q]
    BY <1>2, <1>3 DEF Merge
  <2>3. \A q \in Requests : q # r => ~Active(q)'
    BY <2>1, <2>2 DEF Active
  <2>4. OneSaves'
    BY <2>3 DEF OneSaves
  <2>5. SaveProgress'
    BY <2>2, <2>3, NothingToShow DEF SaveProgress, Active
  <2>6. MemoryKeeps' /\ FileKeeps'
    BY <1>1, <2>2 DEF MemoryKeeps, FileKeeps, Readable
  <2>7. QED
    BY <2>4, <2>5, <2>6 DEF SerialInv
<1>4. CASE ~Merge(r)
  <2>1. Active(r) /\ r \in dict[current]
    <3>1. pc[r] \in {"open", "dump", "close", "reload"}
      BY <1>4 DEF Open, OpenFails, Dump, Close, Answer, CloseFails, Reload
    <3>2. QED
      BY <1>1, <3>1, NothingToShow DEF Active, SaveProgress
  <2>2. PICK to : pc' = [pc EXCEPT ![r] = to]
    BY <1>4 DEF Open, OpenFails, Dump, Close, Answer, CloseFails, Reload
  <2>3. /\ OneSaves' /\ pc'[r] = to
        /\ \A q \in Requests : q # r => ~Active(q)'
    BY <1>1, <2>1, <2>2, OthersRest
  <2>4. \A q \in Requests : q # r => pc'[q] \notin {"open", "dump", "close", "reload"}
    BY <2>3, NothingToShow DEF Active
  <2>5. CASE Open(r) \/ OpenFails(r)
    <3>1. UNCHANGED <<dict, current, acked, torn>>
          /\ (disk' = Truncated \/ (disk' = disk /\ pc'[r] = "failed")) /\ pc'[r] \in {"dump", "failed"}
      BY <1>2, <2>5 DEF Open, OpenFails
    <3>2. SaveProgress'
      BY <2>1, <2>3, <2>4, <3>1 DEF SaveProgress, Active, Final
    <3>3. MemoryKeeps' /\ FileKeeps'
      BY <1>1, <3>1 DEF MemoryKeeps, FileKeeps, Readable
    <3>4. QED
      BY <2>3, <3>2, <3>3 DEF SerialInv
  <2>6. CASE Dump(r)
    <3>1. UNCHANGED <<disk, dict, current, acked, torn>> /\ pc[r] = "dump" /\ pc'[r] = "close"
          /\ dumped'[r] = current /\ seen'[r] = dict[current]
      BY <1>2, <2>6 DEF Dump
    <3>2. SaveProgress'
      BY <1>1, <2>1, <2>3, <2>4, <3>1 DEF SaveProgress
    <3>3. MemoryKeeps' /\ FileKeeps'
      BY <1>1, <3>1 DEF MemoryKeeps, FileKeeps, Readable
    <3>4. QED
      BY <2>3, <3>2, <3>3 DEF SerialInv
  <2>7. CASE Close(r)
    <3>1. UNCHANGED <<dict, current, torn>> /\ disk' = dict[current]
          /\ pc'[r] \in {"reload", "done"} /\ acked' \subseteq acked \cup {r}
      BY <1>2, <2>7, CloseWritesAll DEF Close, Answer
    <3>2. SaveProgress'
      BY <2>1, <2>3, <2>4, <3>1 DEF SaveProgress
    <3>3. MemoryKeeps' /\ FileKeeps'
      BY <1>1, <2>1, <3>1 DEF MemoryKeeps, FileKeeps
    <3>4. QED
      BY <2>3, <3>2, <3>3 DEF SerialInv
  <2>8. CASE CloseFails(r)
    <3>1. UNCHANGED <<dict, current, acked, torn>> /\ pc[r] = "close" /\ pc'[r] = "failed"
          /\ disk' = IF Readable THEN disk ELSE Garbage
      BY <1>2, <2>8 DEF CloseFails
    <3>2. disk' = Garbage
      BY <1>1, <3>1 DEF SaveProgress, Readable
    <3>3. SaveProgress'
      BY <2>3, <2>4, <3>1 DEF SaveProgress, Active, Final
    <3>4. MemoryKeeps' /\ FileKeeps'
      BY <1>1, <3>1, <3>2 DEF MemoryKeeps, FileKeeps, Readable
    <3>5. QED
      BY <2>3, <3>3, <3>4 DEF SerialInv
  <2>9. CASE Reload(r)
    <3>1. UNCHANGED disk /\ pc[r] = "reload" /\ pc'[r] = "done" /\ dict'[current'] = Loaded
          /\ acked' = acked \cup {r} /\ (~torn' => ~torn /\ Readable)
      BY <1>2, <2>9 DEF Reload
    <3>2. disk = dict[current]
      BY <1>1, <3>1 DEF SaveProgress
    <3>3. SaveProgress'
      BY <2>3, <2>4, <3>1 DEF SaveProgress, Active, Final
    <3>4. MemoryKeeps' /\ FileKeeps'
      BY <1>1, <2>1, <3>1, <3>2 DEF MemoryKeeps, FileKeeps, Readable, Loaded
    <3>5. QED
      BY <2>3, <3>3, <3>4 DEF SerialInv
  <2>10. QED
    BY <1>4, <2>5, <2>6, <2>7, <2>8, <2>9
<1>5. QED
  BY <1>3, <1>4

LEMMA SerialCrash == ASSUME ConfigInv, Serial, Crash PROVE SerialInv'
<1>1. \A q \in Requests : ~Active(q)'
  BY DEF Crash, Active, Final
<1>2. OneSaves' /\ SaveProgress'
  BY <1>1, NothingToShow DEF OneSaves, SaveProgress, Active
<1>3. UNCHANGED <<disk, acked>> /\ (~torn' => ~torn /\ Readable)
      /\ dict'[current'] = Loaded
  BY DEF Crash, ConfigInv, TypeOK, Dicts
<1>4. MemoryKeeps' /\ FileKeeps'
  BY <1>3 DEF ConfigInv, SerialInv, MemoryKeeps, FileKeeps, Readable, Loaded
<1>5. QED
  BY <1>2, <1>4 DEF SerialInv

LEMMA ConfigNextInv == ConfigInv /\ [ConfigNext]_configVars => ConfigInv'
<1> SUFFICES ASSUME ConfigInv, [ConfigNext]_configVars PROVE ConfigInv'
  OBVIOUS
<1>1. TypeOK'
  BY TypeStep DEF ConfigInv
<1>2. ASSUME Serial PROVE SerialInv'
  <2>1. CASE ConfigNext
    BY <1>2, <2>1, SerialRequest, SerialCrash DEF ConfigNext
  <2>2. CASE UNCHANGED configVars
    BY <1>2, <2>2 DEF configVars, ConfigInv, SerialInv, OneSaves, SaveProgress, Active, MemoryKeeps,
                      FileKeeps, Readable
  <2>3. QED
    BY <2>1, <2>2
<1>3. QED
  BY <1>1, <1>2 DEF ConfigInv

LEMMA ConfigInvAlways == ConfigSpec => []ConfigInv
  BY ConfigInitInv, ConfigNextInv, PTL DEF ConfigSpec

---------------------------------------------------------------------------
\* Every variable keeps its type, however requests interleave (config.py, save
\* and _load).
THEOREM ConfigTyping == ConfigSpec => []TypeOK
<1>1. ConfigInv => TypeOK
  BY DEF ConfigInv
<1>2. QED
  BY ConfigInvAlways, <1>1, PTL

\* For any number of saves, one after the other: the process keeps what it
\* answered for, and a file that can be read holds all of it (config.py:276-288, 423-429).
LEMMA KeepsAnswers == ConfigInv => AnswersAreKept
  BY DEF ConfigInv, SerialInv, MemoryKeeps, FileKeeps, AnswersAreKept

\* The next save writes all the process knows, whatever it finds in the file.
LEMMA NextSaveHeals ==
  ASSUME ConfigInv, ConfigNext, NEW r \in Requests
  PROVE  SaveHeals(r)
<1> SUFFICES ASSUME Serial, pc[r] = "close", pc'[r] \in {"reload", "done"}
             PROVE  disk' = dict[current]
  BY DEF SaveHeals
<1>1. ~Crash
  BY DEF Crash, Active, Final
<1>2. PICK q \in Requests : Merge(q) \/ Open(q) \/ OpenFails(q) \/ Dump(q) \/ Close(q)
                              \/ CloseFails(q) \/ Reload(q)
  BY <1>1 DEF ConfigNext
<1>3. q = r
  BY <1>2 DEF Merge, Open, OpenFails, Dump, Close, Answer, CloseFails, Reload, Go,
              ConfigInv, TypeOK
<1>4. Close(r)
  BY <1>2, <1>3 DEF Merge, Open, OpenFails, Dump, CloseFails, Reload, Go, ConfigInv, TypeOK
<1>5. QED
  BY <1>4, CloseWritesAll

\* Both together: however many saves there are, with failed writes and crashes
\* between any two steps, none that was answered is lost for good.
THEOREM KeepsSaves == ConfigSpec => SavesAreKept
<1>1. ConfigInv' => AnswersAreKept'
  BY KeepsAnswers, PTL
<1>2. ConfigInv /\ ConfigInv' /\ [ConfigNext]_configVars
        => [AnswersAreKept' /\ \A r \in Requests : SaveHeals(r)]_configVars
  BY <1>1, NextSaveHeals
<1>3. QED
  BY ConfigInvAlways, <1>2, PTL DEF ConfigSpec, SavesAreKept

---------------------------------------------------------------------------
(***************************************************************************)
(* A measurement is stored once (MeasurementImports).                      *)
(***************************************************************************)
ImportTypeOK ==
  /\ puts \in 0..MaxPuts /\ failures \in Nat
  /\ watched \in [Names -> 0..MaxPuts] /\ processed \in [Names -> 0..MaxPuts]
  /\ {marker, todo, newly} \subseteq SUBSET Names
  /\ run \in {"idle", "import", "move", "mark"}
  /\ stored \in [Measurements -> Nat]

\* A number stands for one file, in the directory under one name; newer files are not stored.
FilesInv ==
  /\ \A n \in Names : watched[n] <= puts
  /\ \A m, n \in Names : watched[m] = watched[n] /\ watched[m] # 0 => m = n
  /\ \A f \in Measurements : stored[f] > 0 => f <= puts

\* How far the run is: what is still to do is in the directory and neither marked nor
\* imported, but for the one file between import and move.
InHandInv ==
  /\ todo \subseteq Directory /\ todo \cap marker = {}
  /\ run \in {"idle", "mark"} => todo = {}
  /\ run = "idle" => newly = {}
  /\ run = "import" => todo \cap newly = {}
  /\ \A m, n \in todo \cap newly : m = n
  /\ \A n \in todo \cap newly : stored[watched[n]] > 0

\* A file that is stored and still in the directory will not be imported again, or has
\* been forgotten.
KnownInv == \A n \in Directory : stored[watched[n]] > 0 => n \in newly \cup marker \/ watched[n] \in again

ImportInv == ImportTypeOK /\ FilesInv /\ InHandInv /\ KnownInv /\ StoredOnce

LEMMA ImportInitInv == ImportInit => ImportInv
  BY ImportAssumption DEF ImportInit, ImportInv, ImportTypeOK, FilesInv, InHandInv, KnownInv, StoredOnce, Measurements, Directory

LEMMA PutKeeps ==
  ASSUME ImportInv, NEW n \in Names, NEW readable \in BOOLEAN, Put(n, readable)
  PROVE  ImportInv'
<1> USE ImportAssumption DEF ImportInv
<1>1. /\ puts' = puts + 1 /\ puts' \in 1..MaxPuts /\ watched[n] = 0
      /\ watched' = [watched EXCEPT ![n] = puts']
      /\ UNCHANGED <<failures, processed, marker, run, todo, newly, stored, again>>
  BY DEF Put, ImportTypeOK, Directory
<1>2. ImportTypeOK'
  BY <1>1 DEF ImportTypeOK, Measurements
<1>3. FilesInv'
  BY <1>1 DEF FilesInv, ImportTypeOK, Measurements
<1>4. \A m \in Names : m # n => watched'[m] = watched[m]
  BY <1>1 DEF ImportTypeOK
<1>5. n \notin todo
  BY <1>1 DEF InHandInv, Directory
<1>6. InHandInv'
  BY <1>1, <1>4, <1>5 DEF InHandInv, Directory, ImportTypeOK
<1>7. watched'[n] = puts' /\ puts' \in Measurements /\ ~(stored[puts'] > 0)
  BY <1>1 DEF ImportTypeOK, FilesInv, Measurements
<1>8. KnownInv'
  BY <1>1, <1>4, <1>7 DEF KnownInv, Directory
<1>9. StoredOnce'
  BY <1>1 DEF StoredOnce
<1>10. QED BY <1>2, <1>3, <1>6, <1>8, <1>9

LEMMA ScanKeeps == ImportInv /\ Scan => ImportInv'
  BY DEF ImportInv, Scan, ImportTypeOK, FilesInv, InHandInv, KnownInv, StoredOnce, Directory

\* The step that could store a file twice.
LEMMA ImportKeeps ==
  ASSUME ImportInv, NEW n \in Names, ImportFile(n)
  PROVE  ImportInv'
<1> USE DEF ImportInv
<1>1. /\ n \in todo /\ run = "import" /\ watched[n] \in Measurements /\ n \notin newly \cup marker
      /\ UNCHANGED <<puts, failures, bad, watched, processed, marker, again>>
  BY DEF ImportFile, InHandInv, ImportTypeOK, Directory, Measurements
<1>2. CASE watched[n] \in bad
  BY <1>1, <1>2 DEF ImportFile, After, ImportTypeOK, FilesInv, InHandInv, KnownInv, StoredOnce, Directory
<1>3. CASE watched[n] \notin bad
  <2>1. /\ run' = "move" /\ newly' = newly \cup {n} /\ todo' = todo
        /\ stored' = [stored EXCEPT ![watched[n]] = @ + 1]
    BY <1>3 DEF ImportFile
  <2>2. /\ stored'[watched[n]] = stored[watched[n]] + 1
        /\ \A f \in Measurements : stored[f] \in Nat /\ (f # watched[n] => stored'[f] = stored[f])
    BY <1>1, <2>1 DEF ImportTypeOK
  <2>3. ImportTypeOK'
    BY <1>1, <2>1 DEF ImportTypeOK
  <2>4. FilesInv'
    BY <1>1, <2>1, <2>2 DEF FilesInv, ImportTypeOK, Measurements
  <2>5. InHandInv'
    <3>1. todo' \cap newly' = {n}
      BY <1>1, <2>1 DEF InHandInv
    <3>2. stored'[watched'[n]] > 0
      BY <1>1, <2>2
    <3>3. QED BY <1>1, <2>1, <3>1, <3>2 DEF InHandInv, Directory
  <2>6. KnownInv'
    <3> SUFFICES ASSUME NEW m \in Names, watched[m] # 0, stored'[watched[m]] > 0, m # n
                 PROVE  m \in newly' \cup marker' \/ watched[m] \in again'
      BY <1>1, <2>1 DEF KnownInv, Directory
    <3>1. watched[m] # watched[n] /\ watched[m] \in Measurements
      BY <1>1 DEF FilesInv, ImportTypeOK, Measurements
    <3>2. stored[watched[m]] > 0
      BY <2>2, <3>1
    <3>3. QED BY <1>1, <2>1, <3>2 DEF KnownInv, Directory
  <2>7. StoredOnce'
    <3>1. stored[watched[n]] > 0 => watched[n] \in again
      BY <1>1 DEF KnownInv, Directory, ImportTypeOK, InHandInv
    <3>2. ASSUME NEW f \in Measurements, stored'[f] > 1 PROVE f \in again'
      BY <1>1, <2>2, <3>1, <3>2 DEF StoredOnce
    <3>3. ASSUME NEW m \in Names, processed'[m] # 0 PROVE stored'[processed'[m]] > 0
      BY <1>1, <2>2, <3>3 DEF StoredOnce, ImportTypeOK, Measurements
    <3>4. QED BY <3>2, <3>3 DEF StoredOnce
  <2>8. QED BY <2>3, <2>4, <2>5, <2>6, <2>7
<1>4. QED BY <1>2, <1>3

\* After the one file between import and move, moved or not.
LEMMA AfterMove ==
  ASSUME ImportInv, NEW n \in Names, n \in todo \cap newly, After(n), run = "move"
  PROVE  /\ todo' = todo \ {n} /\ todo' \cap newly = {} /\ newly # {}
         /\ run' \in {"import", "mark"} /\ (run' = "mark" => todo' = {})
  BY DEF ImportInv, InHandInv, After

LEMMA MoveKeeps ==
  ASSUME ImportInv, NEW n \in Names, Move(n)
  PROVE  ImportInv'
<1> USE DEF ImportInv
<1>1. /\ n \in todo \cap newly /\ watched' = [watched EXCEPT ![n] = 0]
      /\ processed' = [processed EXCEPT ![n] = watched[n]]
      /\ UNCHANGED <<puts, failures, bad, marker, newly, stored, again>>
  BY DEF Move
<1>2. /\ todo' = todo \ {n} /\ todo' \cap newly = {}
      /\ run' \in {"import", "mark"} /\ (run' = "mark" => todo' = {})
  BY AfterMove DEF Move
<1>3. \A m \in Names : watched'[m] = IF m = n THEN 0 ELSE watched[m]
  BY <1>1 DEF ImportTypeOK
<1>4. ImportTypeOK'
  BY <1>1, <1>2, ImportAssumption DEF ImportTypeOK
<1>5. FilesInv'
  BY <1>1, <1>3 DEF FilesInv, ImportTypeOK
<1>6. InHandInv'
  BY <1>1, <1>2, <1>3 DEF InHandInv, Directory
<1>7. KnownInv'
  BY <1>1, <1>3 DEF KnownInv, Directory
<1>8. StoredOnce'
  BY <1>1 DEF StoredOnce, InHandInv, ImportTypeOK
<1>9. QED BY <1>4, <1>5, <1>6, <1>7, <1>8

LEMMA MoveFailsKeeps ==
  ASSUME ImportInv, NEW n \in Names, MoveFails(n)
  PROVE  ImportInv'
<1> USE DEF ImportInv
<1>1. /\ todo' = todo \ {n} /\ todo' \cap newly = {}
      /\ run' \in {"import", "mark"} /\ (run' = "mark" => todo' = {})
  BY AfterMove DEF MoveFails
<1>2. UNCHANGED <<puts, bad, watched, processed, marker, newly, stored, again>>
  BY DEF MoveFails
<1>3. ImportTypeOK'
  BY <1>1, <1>2 DEF MoveFails, Fault, ImportTypeOK
<1>4. InHandInv'
  BY <1>1, <1>2 DEF InHandInv, Directory
<1>5. FilesInv' /\ KnownInv' /\ StoredOnce'
  BY <1>2 DEF FilesInv, KnownInv, StoredOnce, Directory
<1>6. QED BY <1>3, <1>4, <1>5

LEMMA MarkKeeps == ImportInv /\ Mark => ImportInv'
<1> SUFFICES ASSUME ImportInv, Mark PROVE ImportInv'
  OBVIOUS
<1> USE DEF ImportInv, Mark
<1>1. ImportTypeOK'
  BY DEF ImportTypeOK
<1>2. InHandInv' /\ KnownInv'
  BY DEF InHandInv, KnownInv, Directory
<1>3. FilesInv' /\ StoredOnce'
  BY DEF FilesInv, StoredOnce
<1>4. QED BY <1>1, <1>2, <1>3

\* A run that ends without its marker: history takes up what the process forgets.
LEMMA ForgettingKeeps == ImportInv /\ (CrashImport \/ MarkFails) => ImportInv'
<1> SUFFICES ASSUME ImportInv, CrashImport \/ MarkFails PROVE ImportInv'
  OBVIOUS
<1> USE DEF ImportInv
<1>1. /\ run' = "idle" /\ newly' = {} /\ todo' = {} /\ failures' = failures + 1
      /\ again' = again \cup {watched[n] : n \in newly \cap Directory}
      /\ UNCHANGED <<puts, bad, watched, processed, marker, stored>>
  BY DEF CrashImport, MarkFails, Fault, Unmarked, InHandInv
<1>2. ImportTypeOK'
  BY <1>1 DEF ImportTypeOK
<1>3. InHandInv' /\ FilesInv' /\ StoredOnce'
  BY <1>1 DEF InHandInv, FilesInv, StoredOnce, Directory
<1>4. KnownInv'
  BY <1>1 DEF KnownInv, Directory
<1>5. QED BY <1>2, <1>3, <1>4

\* For any names, files, failures and crashes: what leaves the directory is stored, and a
\* file is stored twice only if the run that stored it ended before its marker (StoredOnce).
THEOREM ImportedOnce == ImportSpec => []StoredOnce
<1>1. ImportInv /\ UNCHANGED importVars => ImportInv'
  BY DEF ImportInv, ImportTypeOK, FilesInv, InHandInv, KnownInv, StoredOnce, Directory, importVars
<1>2. ImportInv /\ [ImportNext]_importVars => ImportInv'
  BY <1>1, PutKeeps, ScanKeeps, ImportKeeps, MoveKeeps, MoveFailsKeeps, MarkKeeps, ForgettingKeeps DEF ImportNext
<1>3. ImportInv => StoredOnce
  BY DEF ImportInv
<1>4. QED
  BY ImportInitInv, <1>2, <1>3, PTL DEF ImportSpec

---------------------------------------------------------------------------
(***************************************************************************)
(* The last profile and the last theme (ModuleSwitches).                   *)
(***************************************************************************)
Steps == {"nothing", "save", "disable", "download", "validate", "forbid", "save_new", "remove", "permit"}

SwitchTypeOK ==
  /\ disabled \subseteq Modules /\ onDisk \subseteq Community /\ loaded \subseteq Modules
  /\ removed \subseteq Modules /\ overlapped \subseteq Clients
  /\ work \in [Clients -> [does : Steps, with : SUBSET Modules, read : SUBSET Modules]]

\* What is loaded is there, or was removed since the start.
LoadedInv == loaded \subseteq Installed \cup removed

\* A setting that is about to be saved leaves one of the group, or no less than now.
LeavesOne(G, wish) == (G \ disabled \subseteq G \ wish) \/ (G \cap loaded) \ wish # {}

\* What a client has in hand, as long as no other came between.
AloneInv(c) ==
  c \notin overlapped =>
    /\ work[c].does \in {"download", "validate"} => work[c].with \cap onDisk = {}
    /\ work[c].does = "save_new" => work[c].read = disabled \cup work[c].with
    /\ work[c].does = "disable" => \A m \in work[c].with : Others(m) \ disabled # {}
    /\ work[c].does = "save" => \A G \in {Profiles, Themes} : LeavesOne(G, work[c].read)

\* ... and in any case.
WithInv(c) ==
  /\ work[c].does \in {"download", "validate"} =>
       /\ work[c].with \subseteq Community /\ work[c].with \cap loaded \subseteq removed \ Profiles
       /\ \E m \in Modules : work[c].with = {m}
  /\ work[c].does \in {"forbid", "save_new"} => work[c].with \subseteq Profiles \ loaded
  /\ work[c].does \in {"disable", "remove"} => \E m \in Modules : work[c].with = {m}

SwitchInv == SwitchTypeOK /\ LoadedInv /\ \A c \in Clients : AloneInv(c) /\ WithInv(c)

LEMMA SwitchInitInv == SwitchInit => SwitchInv
  BY SwitchAssumption DEF SwitchInit, SwitchInv, SwitchTypeOK, LoadedInv, AloneInv, WithInv, Idle, Installed, Modules,
                          Community, Steps

\* Another client's step leaves a client with what it has in hand, or with a mark.
LEMMA OthersKeep ==
  ASSUME SwitchInv, NEW d \in Clients, work'[d] = work[d], loaded' = loaded, removed \subseteq removed',
         d \in overlapped => d \in overlapped',
         (disabled' = disabled /\ onDisk' \subseteq onDisk) \/ (Busy(d) => d \in overlapped')
  PROVE  AloneInv(d)' /\ WithInv(d)'
<1>0. AloneInv(d) /\ WithInv(d)
  BY DEF SwitchInv
<1>1. WithInv(d)'
  BY <1>0 DEF WithInv
<1>2. ASSUME disabled' = disabled /\ onDisk' \subseteq onDisk PROVE AloneInv(d)'
  <2>1. \A m : Others(m)' = Others(m)
    BY DEF Others, Group
  <2>2. \A G, wish : LeavesOne(G, wish)' <=> LeavesOne(G, wish)
    BY <1>2 DEF LeavesOne
  <2>3. QED
    BY <1>0, <1>2, <2>1, <2>2 DEF AloneInv
<1>3. ASSUME ~Busy(d) PROVE AloneInv(d)'
  <2>1. work'[d].does = "nothing"
    BY <1>3 DEF Busy, Idle
  <2>2. QED
    BY <2>1 DEF AloneInv
<1>4. QED
  BY <1>1, <1>2, <1>3 DEF AloneInv

\* Requests that begin.
LEMMA BeginsKeep ==
  ASSUME SwitchInv, NEW c \in Clients,
         \/ \E m \in Modules : Enable(c, m) \/ Disable(c, m) \/ InstallModule(c, m) \/ Uninstall(c, m)
         \/ \E on, off \in SUBSET Profiles : Batch(c, on, off)
  PROVE  SwitchInv' /\ UNCHANGED <<disabled, onDisk, removed>> /\ Arriving' = Arriving
<1>0. SwitchTypeOK /\ LoadedInv /\ \A d \in Clients : AloneInv(d) /\ WithInv(d)
  BY DEF SwitchInv
<1>1. /\ ~Busy(c) /\ UNCHANGED <<disabled, onDisk, loaded, removed>> /\ overlapped' = overlapped \ {c}
      /\ \E M, read \in SUBSET Modules :
           \/ /\ To(c, "save", M, read) /\ \A G \in {Profiles, Themes} : LeavesOne(G, read)
           \/ \E m \in Modules : To(c, "disable", {m}, {}) /\ Others(m) \ disabled # {}
           \/ \E m \in Community : To(c, "download", {m}, {}) /\ m \notin onDisk /\ (m \in Profiles => m \notin loaded)
           \/ \E m \in Modules : To(c, "remove", {m}, {})
  <2>1. CASE \E m \in Modules : Enable(c, m)
    <3>1. PICK m \in Modules : Enable(c, m)
      BY <2>1
    <3> DEFINE read == (disabled \cup Others(m)) \ {m}
    <3>2. m \in loaded /\ read \subseteq Modules
      BY <1>0, <3>1 DEF Enable, SwitchTypeOK, Others
    <3>3. \A G \in {Profiles, Themes} : LeavesOne(G, read)
      BY <3>2, SwitchAssumption DEF LeavesOne, Others, Group, Modules
    <3> HIDE DEF read
    <3>4. To(c, "save", {m}, read)
      BY <3>1 DEF Enable, read
    <3>5. QED
      BY <3>1, <3>2, <3>3, <3>4 DEF Enable, Begin
  <2>2. CASE \E m \in Modules : Disable(c, m)
    BY <2>2 DEF Disable, Begin, MayDisable
  <2>3. CASE \E m \in Modules : InstallModule(c, m)
    BY <2>3 DEF InstallModule, Begin
  <2>4. CASE \E m \in Modules : Uninstall(c, m)
    BY <2>4 DEF Uninstall, Begin
  <2>5. CASE \E on, off \in SUBSET Profiles : Batch(c, on, off)
    <3>1. PICK on, off \in SUBSET Profiles : Batch(c, on, off)
      BY <2>5
    <3> DEFINE wish == (disabled \ on) \cup off
    <3>2. Cardinality((Profiles \cap loaded) \ wish) = 1 /\ To(c, "save", on \cup off, wish)
      BY <3>1 DEF Batch
    <3>3. (Profiles \cap loaded) \ wish # {}
      BY <3>2, FS_EmptySet
    <3>4. \A G \in {Profiles, Themes} : LeavesOne(G, wish)
      BY <3>3, SwitchAssumption DEF LeavesOne
    <3>5. wish \in SUBSET Modules /\ on \cup off \in SUBSET Modules
      BY <1>0 DEF SwitchTypeOK, Modules
    <3> HIDE DEF wish
    <3>6. QED
      BY <3>1, <3>2, <3>4, <3>5 DEF Batch, Begin
  <2>6. QED
    BY <2>1, <2>2, <2>3, <2>4, <2>5
<1>2. \A d \in Clients \ {c} : work'[d] = work[d] /\ AloneInv(d)' /\ WithInv(d)'
  <2>1. ASSUME NEW d \in Clients, d # c PROVE work'[d] = work[d]
    BY <1>0, <1>1, <2>1 DEF To, SwitchTypeOK
  <2>2. QED
    BY <1>1, <2>1, OthersKeep
<1>3. /\ work' \in [Clients -> [does : Steps, with : SUBSET Modules, read : SUBSET Modules]]
      /\ AloneInv(c)' /\ WithInv(c)'
      /\ work'[c].does \in {"save", "disable", "download", "remove"} /\ work[c].does = "nothing"
  <2>0. work[c].does = "nothing" /\ \A m \in Modules : {m} \in SUBSET Modules
    BY <1>1 DEF Busy, Idle
  <2>1. \A m : Others(m)' = Others(m)
    BY <1>1 DEF Others, Group
  <2>2. \A G, wish : LeavesOne(G, wish)' <=> LeavesOne(G, wish)
    BY <1>1 DEF LeavesOne
  <2>3. CASE \E M, read \in SUBSET Modules : To(c, "save", M, read) /\ \A G \in {Profiles, Themes} : LeavesOne(G, read)
    BY <1>0, <2>0, <2>2, <2>3 DEF To, SwitchTypeOK, AloneInv, WithInv, Steps
  <2>4. CASE \E m \in Modules : To(c, "disable", {m}, {}) /\ Others(m) \ disabled # {}
    BY <1>0, <1>1, <2>0, <2>1, <2>4 DEF To, SwitchTypeOK, AloneInv, WithInv, Steps
  <2>5. CASE \E m \in Community : To(c, "download", {m}, {}) /\ m \notin onDisk /\ (m \in Profiles => m \notin loaded)
    <3>1. PICK m \in Community : To(c, "download", {m}, {}) /\ m \notin onDisk /\ (m \in Profiles => m \notin loaded)
      BY <2>5
    <3>2. m \in Modules /\ m \notin Shipped
      BY DEF Community
    <3>3. m \in loaded => m \in removed
      BY <1>0, <3>1, <3>2 DEF LoadedInv, Installed
    <3>4. work' \in [Clients -> [does : Steps, with : SUBSET Modules, read : SUBSET Modules]]
          /\ work'[c].does = "download" /\ work'[c].with = {m}
      BY <1>0, <2>0, <3>1, <3>2 DEF To, SwitchTypeOK, Steps
    <3>5. QED
      BY <1>1, <2>0, <3>1, <3>2, <3>3, <3>4 DEF AloneInv, WithInv
  <2>6. CASE \E m \in Modules : To(c, "remove", {m}, {})
    BY <1>0, <2>0, <2>6 DEF To, SwitchTypeOK, AloneInv, WithInv, Steps
  <2>7. QED
    BY <1>1, <2>3, <2>4, <2>5, <2>6
<1>4. SwitchTypeOK' /\ LoadedInv'
  BY <1>0, <1>1, <1>3 DEF SwitchTypeOK, LoadedInv, Installed
<1>5. Arriving' = Arriving
  BY <1>2, <1>3 DEF Arriving
<1>6. QED
  BY <1>1, <1>2, <1>3, <1>4, <1>5 DEF SwitchInv

\* Requests that go on.
Proceeds(c) ==
  ReadAgain(c) \/ Save(c) \/ MakeDirectory(c) \/ Downloaded(c) \/ Forbid(c) \/ RemoveModule(c) \/ Permit(c)

LEMMA ProceedsKeep ==
  ASSUME SwitchInv, NEW c \in Clients, Proceeds(c)
  PROVE  SwitchInv' /\ \A d \in Clients \ {c} : work'[d] = work[d]
<1>0. SwitchTypeOK /\ LoadedInv /\ \A d \in Clients : AloneInv(d) /\ WithInv(d)
  BY DEF SwitchInv
<1>1. UNCHANGED loaded /\ removed \subseteq removed' /\ overlapped \subseteq overlapped'
  BY DEF Proceeds, ReadAgain, Save, MakeDirectory, Downloaded, Forbid, RemoveModule, Permit, Overlap
<1>2. \E w : work' = [work EXCEPT ![c] = w]
  BY DEF Proceeds, ReadAgain, Save, MakeDirectory, Downloaded, Forbid, RemoveModule, Permit, To
<1>3. \/ disabled' = disabled /\ onDisk' = onDisk
      \/ overlapped' = overlapped \cup {d \in Clients \ {c} : Busy(d)}
  BY DEF Proceeds, ReadAgain, Save, MakeDirectory, Downloaded, Forbid, RemoveModule, Permit, Overlap
<1>4. overlapped' \subseteq Clients
  BY <1>0 DEF SwitchTypeOK, Proceeds, ReadAgain, Save, MakeDirectory, Downloaded, Forbid, RemoveModule, Permit, Overlap
<1>5. \A d \in Clients \ {c} : work'[d] = work[d] /\ AloneInv(d)' /\ WithInv(d)'
  <2>1. ASSUME NEW d \in Clients, d # c PROVE work'[d] = work[d]
    BY <1>0, <1>2, <2>1 DEF SwitchTypeOK
  <2>2. QED
    BY <1>1, <1>3, <2>1, OthersKeep
<1>6. /\ work' \in [Clients -> [does : Steps, with : SUBSET Modules, read : SUBSET Modules]]
      /\ disabled' \subseteq Modules /\ onDisk' \subseteq Community /\ removed' \subseteq Modules
      /\ overlapped' \subseteq Clients /\ LoadedInv'
      /\ AloneInv(c)' /\ WithInv(c)'
  <2>0. work[c].with \subseteq Modules /\ work[c].read \subseteq Modules
    BY <1>0 DEF SwitchTypeOK
  <2>1. CASE ReadAgain(c)
    <3>1. /\ work[c].does = "disable" /\ UNCHANGED <<disabled, onDisk, removed, overlapped>>
          /\ work' = [work EXCEPT ![c] = [does |-> "save", with |-> work[c].with, read |-> disabled \cup work[c].with]]
      BY <2>1 DEF ReadAgain, Doing, To
    <3>2. work'[c] = [does |-> "save", with |-> work[c].with, read |-> disabled \cup work[c].with]
      BY <1>0, <3>1 DEF SwitchTypeOK
    <3>3. PICK m \in Modules : work[c].with = {m}
      BY <1>0, <3>1 DEF WithInv
    <3>4. ASSUME c \notin overlapped PROVE \A G \in {Profiles, Themes} : LeavesOne(G, disabled \cup {m})
      <4>1. Others(m) \ disabled # {}
        BY <1>0, <3>1, <3>3, <3>4 DEF AloneInv
      <4>2. QED
        BY <4>1, SwitchAssumption DEF Others, Group, LeavesOne, Modules
    <3>5. \A G, wish : LeavesOne(G, wish)' <=> LeavesOne(G, wish)
      BY <1>1, <3>1 DEF LeavesOne
    <3>6. AloneInv(c)' /\ WithInv(c)'
      BY <3>1, <3>2, <3>3, <3>4, <3>5 DEF AloneInv, WithInv
    <3>7. work' \in [Clients -> [does : Steps, with : SUBSET Modules, read : SUBSET Modules]]
      BY <1>0, <2>0, <3>1 DEF SwitchTypeOK, Steps
    <3>8. QED
      BY <1>0, <1>1, <3>1, <3>6, <3>7 DEF SwitchTypeOK, LoadedInv, Installed
  <2>2. CASE Save(c)
    <3>1. work' = [work EXCEPT ![c] = Idle] /\ disabled' = work[c].read /\ UNCHANGED <<onDisk, removed>>
      BY <2>2 DEF Save
    <3>2. work'[c] = Idle
      BY <1>0, <3>1 DEF SwitchTypeOK
    <3>3. AloneInv(c)' /\ WithInv(c)'
      BY <3>2 DEF AloneInv, WithInv, Idle
    <3>4. work' \in [Clients -> [does : Steps, with : SUBSET Modules, read : SUBSET Modules]]
      BY <1>0, <3>1 DEF SwitchTypeOK, Steps, Idle
    <3>5. QED
      BY <1>0, <1>1, <1>4, <2>0, <3>1, <3>3, <3>4 DEF SwitchTypeOK, LoadedInv, Installed
  <2>3. CASE MakeDirectory(c)
    <3>1. /\ work[c].does = "download" /\ UNCHANGED <<disabled, onDisk, removed, overlapped>>
          /\ work' = [work EXCEPT ![c] = [does |-> "validate", with |-> work[c].with, read |-> {}]]
      BY <2>3 DEF MakeDirectory, Doing, To
    <3>2. work'[c] = [does |-> "validate", with |-> work[c].with, read |-> {}]
      BY <1>0, <3>1 DEF SwitchTypeOK
    <3>3. AloneInv(c)' /\ WithInv(c)'
      BY <1>0, <1>1, <3>1, <3>2 DEF AloneInv, WithInv
    <3>4. work' \in [Clients -> [does : Steps, with : SUBSET Modules, read : SUBSET Modules]]
      BY <1>0, <2>0, <3>1 DEF SwitchTypeOK, Steps
    <3>5. QED
      BY <1>0, <1>1, <3>1, <3>3, <3>4 DEF SwitchTypeOK, LoadedInv, Installed
  <2>4. CASE Downloaded(c)
    <3>1. /\ work[c].does = "validate" /\ UNCHANGED <<disabled, removed>>
          /\ onDisk' \in {onDisk \cup work[c].with, onDisk \ work[c].with}
          /\ \/ work' = [work EXCEPT ![c] = [does |-> "forbid", with |-> work[c].with, read |-> {}]]
                /\ work[c].with \subseteq Profiles
             \/ work' = [work EXCEPT ![c] = Idle]
      BY <2>4 DEF Downloaded, Doing, To
    <3>2. work[c].with \subseteq Community /\ work[c].with \cap loaded \subseteq removed \ Profiles
      BY <1>0, <3>1 DEF WithInv
    <3>3. \/ work'[c] = [does |-> "forbid", with |-> work[c].with, read |-> {}] /\ work[c].with \subseteq Profiles
          \/ work'[c] = Idle
      BY <1>0, <3>1 DEF SwitchTypeOK
    <3>4. AloneInv(c)' /\ WithInv(c)'
      BY <1>1, <3>2, <3>3 DEF AloneInv, WithInv, Idle
    <3>5. work' \in [Clients -> [does : Steps, with : SUBSET Modules, read : SUBSET Modules]]
      BY <1>0, <2>0, <3>1 DEF SwitchTypeOK, Steps, Idle
    <3>6. LoadedInv'
      BY <1>0, <1>1, <3>1, <3>2 DEF LoadedInv, Installed
    <3>7. QED
      BY <1>0, <1>1, <1>4, <3>1, <3>2, <3>4, <3>5, <3>6 DEF SwitchTypeOK
  <2>5. CASE Forbid(c)
    <3>1. /\ work[c].does = "forbid" /\ UNCHANGED <<disabled, onDisk, removed, overlapped>>
          /\ work' = [work EXCEPT ![c] = [does |-> "save_new", with |-> work[c].with, read |-> disabled \cup work[c].with]]
      BY <2>5 DEF Forbid, Doing, To
    <3>2. work'[c] = [does |-> "save_new", with |-> work[c].with, read |-> disabled \cup work[c].with]
      BY <1>0, <3>1 DEF SwitchTypeOK
    <3>3. AloneInv(c)' /\ WithInv(c)'
      BY <1>0, <1>1, <3>1, <3>2 DEF AloneInv, WithInv
    <3>4. work' \in [Clients -> [does : Steps, with : SUBSET Modules, read : SUBSET Modules]]
      BY <1>0, <2>0, <3>1 DEF SwitchTypeOK, Steps
    <3>5. QED
      BY <1>0, <1>1, <3>1, <3>3, <3>4 DEF SwitchTypeOK, LoadedInv, Installed
  <2>6. CASE RemoveModule(c)
    <3>1. /\ work[c].does = "remove" /\ UNCHANGED disabled
          /\ onDisk' = onDisk \ work[c].with /\ removed' = removed \cup work[c].with
          /\ work' = [work EXCEPT ![c] = [does |-> "permit", with |-> work[c].with, read |-> {}]]
      BY <2>6 DEF RemoveModule, Doing, To
    <3>2. work'[c] = [does |-> "permit", with |-> work[c].with, read |-> {}]
      BY <1>0, <3>1 DEF SwitchTypeOK
    <3>3. AloneInv(c)' /\ WithInv(c)'
      BY <3>2 DEF AloneInv, WithInv
    <3>4. work' \in [Clients -> [does : Steps, with : SUBSET Modules, read : SUBSET Modules]]
      BY <1>0, <2>0, <3>1 DEF SwitchTypeOK, Steps
    <3>5. QED
      BY <1>0, <1>1, <1>4, <2>0, <3>1, <3>3, <3>4 DEF SwitchTypeOK, LoadedInv, Installed
  <2>7. CASE Permit(c)
    <3>1. /\ work[c].does = "permit" /\ UNCHANGED <<disabled, onDisk, removed, overlapped>>
          /\ work' = [work EXCEPT ![c] = [does |-> "save", with |-> work[c].with, read |-> disabled \ work[c].with]]
      BY <2>7 DEF Permit, Doing, To
    <3>2. work'[c] = [does |-> "save", with |-> work[c].with, read |-> disabled \ work[c].with]
      BY <1>0, <3>1 DEF SwitchTypeOK
    <3>3. \A G : LeavesOne(G, disabled \ work[c].with)
      BY DEF LeavesOne
    <3>4. \A G, wish : LeavesOne(G, wish)' <=> LeavesOne(G, wish)
      BY <1>1, <3>1 DEF LeavesOne
    <3>5. AloneInv(c)' /\ WithInv(c)'
      BY <3>1, <3>2, <3>3, <3>4 DEF AloneInv, WithInv
    <3>6. work' \in [Clients -> [does : Steps, with : SUBSET Modules, read : SUBSET Modules]]
      BY <1>0, <2>0, <3>1 DEF SwitchTypeOK, Steps
    <3>7. QED
      BY <1>0, <1>1, <3>1, <3>5, <3>6 DEF SwitchTypeOK, LoadedInv, Installed
  <2>8. QED
    BY <2>1, <2>2, <2>3, <2>4, <2>5, <2>6, <2>7 DEF Proceeds
<1>7. QED
  BY <1>0, <1>1, <1>5, <1>6 DEF SwitchInv, SwitchTypeOK

\* A start finds what is installed.
LEMMA RestartKeeps == ASSUME SwitchInv, Restart PROVE SwitchInv'
<1>1. \A c \in Clients : work'[c] = Idle
  BY DEF Restart
<1>2. SwitchTypeOK' /\ LoadedInv'
  BY SwitchAssumption DEF Restart, SwitchInv, SwitchTypeOK, LoadedInv, Installed, Idle, Steps, Community
<1>3. ASSUME NEW c \in Clients PROVE AloneInv(c)' /\ WithInv(c)'
  BY <1>1, <1>3 DEF AloneInv, WithInv, Idle
<1>4. QED
  BY <1>2, <1>3 DEF SwitchInv

LEMMA SwitchCases ==
  ASSUME SwitchNext
  PROVE  \/ Restart
         \/ \E c \in Clients : Proceeds(c)
         \/ \E c \in Clients :
              \/ \E m \in Modules : Enable(c, m) \/ Disable(c, m) \/ InstallModule(c, m) \/ Uninstall(c, m)
              \/ \E on, off \in SUBSET Profiles : Batch(c, on, off)
  BY DEF SwitchNext, Proceeds

LEMMA SwitchNextInv == SwitchInv /\ [SwitchNext]_switchVars => SwitchInv'
<1> SUFFICES ASSUME SwitchInv, [SwitchNext]_switchVars PROVE SwitchInv'
  OBVIOUS
<1>1. CASE UNCHANGED switchVars
  BY <1>1 DEF switchVars, SwitchInv, SwitchTypeOK, LoadedInv, Installed, AloneInv, WithInv, Others, Group, LeavesOne
<1>2. QED
  BY <1>1, SwitchCases, BeginsKeep, ProceedsKeep, RestartKeeps

---------------------------------------------------------------------------
\* Steps that take nothing away from what the next start finds.
LEMMA NothingLeft ==
  ASSUME NEW G, disabled' \cap G \subseteq disabled, Installed \subseteq Installed', Arriving' \subseteq Arriving
  PROVE  LeftOf(G) \subseteq LeftOf(G)'
  BY DEF LeftOf

LEMMA ArrivingStep ==
  ASSUME SwitchInv, NEW c \in Clients, Proceeds(c)
  PROVE  Arriving' \subseteq Arriving \cup IF Downloaded(c) THEN work[c].with ELSE {}
<1>0. SwitchTypeOK
  BY DEF SwitchInv
<1>1. \A d \in Clients \ {c} : work'[d] = work[d]
  BY ProceedsKeep
<1>2. /\ work'[c].does \in {"forbid", "save_new"} =>
           work'[c].with = work[c].with /\ (Downloaded(c) \/ work[c].does = "forbid")
  BY <1>0 DEF Proceeds, ReadAgain, Save, MakeDirectory, Downloaded, Forbid, RemoveModule, Permit, To, Idle, Doing, SwitchTypeOK
<1>3. Arriving' \subseteq Arriving \cup IF Downloaded(c) THEN work[c].with ELSE {}
  BY <1>1, <1>2 DEF Arriving
<1>4. QED
  BY <1>3

\* A client with which no other came between does not take the last one.
LEMMA AloneLeaves ==
  ASSUME SwitchInv, NEW c \in Clients, Proceeds(c), c \notin overlapped,
         NEW G \in {Profiles, Themes}, removed' \cap G = {}, LeftOf(G) # {}
  PROVE  LeftOf(G)' # {}
<1>0. SwitchTypeOK /\ LoadedInv /\ AloneInv(c) /\ WithInv(c)
  BY DEF SwitchInv
<1>1. CASE ReadAgain(c) \/ MakeDirectory(c) \/ Forbid(c) \/ Permit(c)
  <2>1. UNCHANGED <<disabled, onDisk>> /\ ~Downloaded(c)
    BY <1>1 DEF ReadAgain, MakeDirectory, Forbid, Permit, Downloaded, Doing
  <2>2. Arriving' \subseteq Arriving
    BY <2>1, ArrivingStep
  <2>3. QED
    BY <2>1, <2>2, NothingLeft DEF Installed
<1>2. CASE RemoveModule(c)
  <2>1. /\ disabled' = disabled /\ onDisk' = onDisk \ work[c].with /\ work[c].with \subseteq removed' /\ ~Downloaded(c)
    BY <1>2 DEF RemoveModule, Downloaded, Doing
  <2>2. Arriving' \subseteq Arriving
    BY <2>1, ArrivingStep
  <2>3. QED
    BY <2>1, <2>2 DEF LeftOf, Installed
<1>3. CASE Downloaded(c)
  <2>1. /\ disabled' = disabled /\ work[c].with \cap onDisk = {} /\ work[c].with \subseteq Community
        /\ onDisk' \in {onDisk \cup work[c].with, onDisk \ work[c].with}
    BY <1>0, <1>3 DEF Downloaded, Doing, AloneInv, WithInv
  <2>2. Arriving' \subseteq Arriving \cup work[c].with
    BY <1>3, ArrivingStep
  <2>3. QED
    BY <2>1, <2>2 DEF LeftOf, Installed, Community
<1>4. CASE Save(c)
  <2>1. disabled' = work[c].read /\ UNCHANGED <<onDisk, loaded, removed>> /\ work[c].does \in {"save", "save_new"}
        /\ ~Downloaded(c)
    BY <1>4 DEF Save, Downloaded, Doing
  <2>2. Arriving' \subseteq Arriving
    BY <2>1, ArrivingStep
  <2>3. CASE work[c].does = "save_new"
    <3>1. disabled' = disabled \cup work[c].with
      BY <1>0, <2>1, <2>3 DEF AloneInv
    <3>2. work[c].with \subseteq Arriving
      BY <2>3 DEF Arriving
    <3>3. QED
      BY <2>1, <2>2, <3>1, <3>2 DEF LeftOf, Installed
  <2>4. CASE work[c].does = "save"
    <3>1. LeavesOne(G, work[c].read)
      BY <1>0, <2>4 DEF AloneInv
    <3>2. CASE G \ disabled \subseteq G \ work[c].read
      BY <2>1, <2>2, <3>2 DEF LeftOf, Installed
    <3>3. CASE (G \cap loaded) \ work[c].read # {}
      <4>1. PICK o \in G \cap loaded : o \notin work[c].read
        BY <3>3
      <4>2. o \in Installed
        BY <1>0, <2>1, <4>1 DEF LoadedInv
      <4>3. o \notin Arriving
        <5>1. ASSUME NEW d \in Clients, work[d].does \in {"forbid", "save_new"} PROVE o \notin work[d].with
          BY <4>1, <5>1 DEF SwitchInv, WithInv
        <5>2. QED
          BY <5>1 DEF Arriving
      <4>4. QED
        BY <2>1, <2>2, <4>1, <4>2, <4>3 DEF LeftOf, Installed
    <3>4. QED
      BY <3>1, <3>2, <3>3 DEF LeavesOne
  <2>5. QED
    BY <2>1, <2>3, <2>4
<1>5. QED
  BY <1>1, <1>2, <1>3, <1>4 DEF Proceeds

\* The last profile and the last theme go only with requests that overlapped, or after a
\* removal, for any modules, any clients and any number of requests and restarts
\* (modules_bp.py).
THEOREM LastOneStays == SwitchSpec => OneIsLeft
<1>1. ASSUME SwitchInv, [SwitchNext]_switchVars, NEW G \in {Profiles, Themes}, LeftOf(G) # {}, LeftOf(G)' = {}
      PROVE  (removed' \cap G) # {} \/ \E c \in overlapped : work[c] # work'[c]
  <2>1. CASE UNCHANGED switchVars
    BY <1>1, <2>1 DEF switchVars, LeftOf, Installed, Arriving
  <2>2. CASE Restart
    <3>1. Arriving' = {} /\ UNCHANGED <<disabled, onDisk>>
      BY <2>2 DEF Restart, Arriving, Idle
    <3>2. QED
      BY <1>1, <3>1, NothingLeft DEF Installed
  <2>3. ASSUME NEW c \in Clients,
               \/ \E m \in Modules : Enable(c, m) \/ Disable(c, m) \/ InstallModule(c, m) \/ Uninstall(c, m)
               \/ \E on, off \in SUBSET Profiles : Batch(c, on, off)
        PROVE  FALSE
    <3>1. UNCHANGED <<disabled, onDisk>> /\ Arriving' = Arriving
      BY <1>1, <2>3, BeginsKeep
    <3>2. QED
      BY <1>1, <3>1 DEF LeftOf, Installed
  <2>4. ASSUME NEW c \in Clients, Proceeds(c)
        PROVE  (removed' \cap G) # {} \/ \E d \in overlapped : work[d] # work'[d]
    <3>1. work[c] # work'[c]
      BY <1>1, <2>4 DEF SwitchInv, SwitchTypeOK, Proceeds, ReadAgain, Save, MakeDirectory, Downloaded, Forbid,
                        RemoveModule, Permit, To, Idle, Doing
    <3>2. QED
      BY <1>1, <2>4, <3>1, AloneLeaves
  <2>5. QED
    BY <1>1, <2>1, <2>2, <2>3, <2>4, SwitchCases
<1>2. SwitchInv /\ [SwitchNext]_switchVars
      => [\A G \in {Profiles, Themes} :
                LeftOf(G) # {} /\ LeftOf(G)' = {} =>
                  \/ (removed' \cap G) # {}
                  \/ \E c \in overlapped : work[c] # work'[c]]_switchVars
  BY <1>1
<1>3. QED
  BY SwitchInitInv, SwitchNextInv, <1>2, PTL DEF SwitchSpec, OneIsLeft

---------------------------------------------------------------------------
(***************************************************************************)
(* One launcher runs the application (DesktopInstance).                    *)
(***************************************************************************)
Becoming  == {"clear", "publish", "write"}
Early     == Becoming \cup {"handoff", "coordinate", "probe"}
StartupAt == Cleaning \cup Early \cup {"await", "relaunch", "join", "ended", "failed", "terminate"}
WindowAt  == Cleaning \cup {"window", "join", "terminate"}

LaunchersTyped ==
  /\ life \in [Launchers -> {"unborn", "alive", "gone"}]
  /\ owner \in [Launchers -> BOOLEAN] /\ published \in [Launchers -> BOOLEAN] /\ closed \in [Launchers -> BOOLEAN]
  /\ app \in [Launchers -> Running \cup {"none", "stopped"}]
  /\ step \in [Launchers -> [startup : StartupAt, ui : WindowAt]]
  /\ mutex \in Launchers \cup {NoLauncher}

\* Who is no process owns nothing and is nowhere.
UnbornInv(p) ==
  life[p] # "alive" => /\ ~owner[p] /\ ~closed[p] /\ ~published[p] /\ app[p] = "none"
                       /\ step[p].startup = "coordinate" /\ step[p].ui = "window"

\* The application runs from the written record on, of an owner or one about to end.
ServingInv(p) ==
  /\ owner[p] <=> mutex = p
  /\ step[p].startup \in Early => app[p] = "none" /\ ~published[p]
  /\ app[p] \in Running \/ step[p].startup = "write" => owner[p] \/ Leaving(p)
  /\ Leaving(p) => closed[p]

\* As long as no thread overtook the other, an owner stays one until its cleanup is done.
OwningInv(p) ==
  ~overtaken =>
    /\ step[p].startup \in Becoming => owner[p] /\ ~closed[p] /\ step[p].ui \in {"window", "join"}
    /\ ~(step[p].startup \in Cleaning /\ step[p].ui \in Cleaning)
    /\ step[p].startup = "unlink" \/ step[p].ui = "unlink" => owner[p]

NamedInv(p) ==
  life[p] = "alive" /\ owner[p] /\ published[p] /\ step[p].startup \notin Cleaning /\ step[p].ui \notin Cleaning
    => record = p \/ overtaken

LauncherInv(p) == UnbornInv(p) /\ ServingInv(p) /\ OwningInv(p) /\ NamedInv(p)

DesktopInv == LaunchersTyped /\ \A p \in Launchers : LauncherInv(p)

LEMMA NoneIsNoLauncher == NoLauncher \notin Launchers
  BY LauncherAssumption DEF NoLauncher, Launchers

LEMMA DesktopInitInv == InstanceInit => DesktopInv
<1> SUFFICES ASSUME InstanceInit PROVE DesktopInv
  OBVIOUS
<1>1. LaunchersTyped
  BY DEF InstanceInit, LaunchersTyped, StartupAt, WindowAt, Early
<1>2. ASSUME NEW p \in Launchers PROVE LauncherInv(p)
  BY <1>2, NoneIsNoLauncher DEF InstanceInit, LauncherInv, UnbornInv, ServingInv, OwningInv, NamedInv, Leaving, Threads,
       Running, Becoming, Cleaning
<1>3. QED
  BY <1>1, <1>2 DEF DesktopInv

\* A step of one thread.
LEMMA GotoTo ==
  ASSUME LaunchersTyped, NEW p \in Launchers, NEW t \in Threads, NEW to, Goto(p, t, to),
         to \in IF t = "startup" THEN StartupAt ELSE WindowAt
  PROVE  /\ step' \in [Launchers -> [startup : StartupAt, ui : WindowAt]]
         /\ step'[p].startup = IF t = "startup" THEN to ELSE step[p].startup
         /\ step'[p].ui = IF t = "ui" THEN to ELSE step[p].ui
         /\ \A q \in Launchers \ {p} : step'[q] = step[q]
<1>1. CASE t = "startup"
  BY <1>1 DEF LaunchersTyped, Goto
<1>2. CASE t = "ui"
  BY <1>2 DEF LaunchersTyped, Goto
<1>3. QED
  BY <1>1, <1>2 DEF Threads

\* What another process's step leaves of this one.
LEMMA OthersOwn ==
  ASSUME DesktopInv, NEW p \in Launchers, NEW q \in Launchers \ {p},
         life'[q] = life[q], owner'[q] = owner[q], published'[q] = published[q], closed'[q] = closed[q],
         app'[q] = app[q], step'[q] = step[q], overtaken => overtaken',
         mutex' = mutex \/ (mutex \in {NoLauncher, p} /\ mutex' \in {NoLauncher, p}),
         record' = record \/ overtaken \/ owner[p]
  PROVE  LauncherInv(q)'
<1>0. LauncherInv(q) /\ LauncherInv(p) /\ p # NoLauncher /\ q # NoLauncher
  BY NoneIsNoLauncher DEF DesktopInv
<1>1. UnbornInv(q)' /\ OwningInv(q)'
  BY <1>0 DEF LauncherInv, UnbornInv, OwningInv
<1>2. Leaving(q)' <=> Leaving(q)
  BY DEF Leaving
<1>3. ServingInv(q)'
  BY <1>0, <1>2 DEF LauncherInv, ServingInv
<1>4. NamedInv(q)'
  BY <1>0 DEF LauncherInv, ServingInv, NamedInv
<1>5. QED
  BY <1>1, <1>3, <1>4 DEF LauncherInv
\* A step of p leaves the others as they are, but for the mutex and the record of an owner.
OnlyOwn(p) ==
  /\ \A q \in Launchers \ {p} : /\ life'[q] = life[q] /\ owner'[q] = owner[q] /\ published'[q] = published[q]
                               /\ closed'[q] = closed[q] /\ app'[q] = app[q] /\ step'[q] = step[q]
  /\ overtaken => overtaken'
  /\ mutex' = mutex \/ (mutex \in {NoLauncher, p} /\ mutex' \in {NoLauncher, p})
  /\ record' = record \/ overtaken \/ owner[p]

LEMMA OneSteps ==
  ASSUME DesktopInv, NEW p \in Launchers, OnlyOwn(p), LaunchersTyped', LauncherInv(p)'
  PROVE  DesktopInv'
<1>1. ASSUME NEW q \in Launchers \ {p} PROVE LauncherInv(q)'
  BY OthersOwn DEF OnlyOwn
<1>2. QED
  BY <1>1 DEF DesktopInv

LEMMA LaunchKeeps ==
  ASSUME DesktopInv, NEW p \in Launchers, Launch(p)
  PROVE  DesktopInv'
<1>0. LaunchersTyped /\ LauncherInv(p)
  BY DEF DesktopInv
<1>1. LaunchersTyped'
  BY <1>0 DEF Launch, LaunchersTyped, Goto, StartupAt, WindowAt, Early, Becoming, Cleaning, Running
<1>2. OnlyOwn(p)
  BY <1>0 DEF Launch, OnlyOwn, LaunchersTyped, LauncherInv, UnbornInv, ServingInv, OwningInv, At, Goto, Becoming
<1>3. LauncherInv(p)'
  BY <1>0, NoneIsNoLauncher DEF Launch, LaunchersTyped, LauncherInv, UnbornInv, ServingInv, OwningInv, NamedInv, At, Goto, Leaving, Threads,
       Early, Becoming, Cleaning, Running, Inside
<1>4. QED
  BY <1>1, <1>2, <1>3, OneSteps

LEMMA HandOffKeeps ==
  ASSUME DesktopInv, NEW p \in Launchers, HandOff(p)
  PROVE  DesktopInv'
<1>0. LaunchersTyped /\ LauncherInv(p)
  BY DEF DesktopInv
<1>1. LaunchersTyped'
  BY <1>0 DEF HandOff, LaunchersTyped, Goto, StartupAt, WindowAt, Early, Becoming, Cleaning, Running
<1>2. OnlyOwn(p)
  BY <1>0 DEF HandOff, OnlyOwn, LaunchersTyped, LauncherInv, UnbornInv, ServingInv, OwningInv, At, Goto, Becoming
<1>3. LauncherInv(p)'
  BY <1>0, NoneIsNoLauncher DEF HandOff, LaunchersTyped, LauncherInv, UnbornInv, ServingInv, OwningInv, NamedInv, At, Goto, Leaving, Threads,
       Early, Becoming, Cleaning, Running, Inside
<1>4. QED
  BY <1>1, <1>2, <1>3, OneSteps

LEMMA AcquireKeeps ==
  ASSUME DesktopInv, NEW p \in Launchers, Acquire(p)
  PROVE  DesktopInv'
<1>0. LaunchersTyped /\ LauncherInv(p)
  BY DEF DesktopInv
<1>1. LaunchersTyped'
  BY <1>0 DEF Acquire, LaunchersTyped, Goto, StartupAt, WindowAt, Early, Becoming, Cleaning, Running
<1>2. OnlyOwn(p)
  BY <1>0 DEF Acquire, OnlyOwn, LaunchersTyped, LauncherInv, UnbornInv, ServingInv, OwningInv, At, Goto, Becoming
<1>3. UnbornInv(p)' /\ ServingInv(p)'
  BY <1>0, <1>1, NoneIsNoLauncher DEF Acquire, LaunchersTyped, LauncherInv, UnbornInv, ServingInv, At, Goto, Leaving, Threads,
       Early, Becoming, Running
<1>4. OwningInv(p)' /\ NamedInv(p)'
  BY <1>0, <1>1 DEF Acquire, LaunchersTyped, LauncherInv, ServingInv, OwningInv, NamedInv, At, Goto, Leaving, Threads,
       WindowAt, Early, Becoming, Cleaning
<1>5. QED
  BY <1>1, <1>2, <1>3, <1>4, OneSteps DEF LauncherInv

LEMMA OccupiedKeeps ==
  ASSUME DesktopInv, NEW p \in Launchers, Occupied(p)
  PROVE  DesktopInv'
<1>0. LaunchersTyped /\ LauncherInv(p)
  BY DEF DesktopInv
<1>1. LaunchersTyped'
  BY <1>0 DEF Occupied, LaunchersTyped, Goto, StartupAt, WindowAt, Early, Becoming, Cleaning, Running
<1>2. OnlyOwn(p)
  BY <1>0 DEF Occupied, OnlyOwn, LaunchersTyped, LauncherInv, UnbornInv, ServingInv, OwningInv, At, Goto, Becoming
<1>3. LauncherInv(p)'
  BY <1>0, NoneIsNoLauncher DEF Occupied, LaunchersTyped, LauncherInv, UnbornInv, ServingInv, OwningInv, NamedInv, At, Goto, Leaving, Threads,
       Early, Becoming, Cleaning, Running, Inside
<1>4. QED
  BY <1>1, <1>2, <1>3, OneSteps

LEMMA ProbeOwnerKeeps ==
  ASSUME DesktopInv, NEW p \in Launchers, ProbeOwner(p)
  PROVE  DesktopInv'
<1>0. LaunchersTyped /\ LauncherInv(p)
  BY DEF DesktopInv
<1>1. LaunchersTyped'
  BY <1>0 DEF ProbeOwner, LaunchersTyped, Goto, StartupAt, WindowAt, Early, Becoming, Cleaning, Running
<1>2. OnlyOwn(p)
  BY <1>0 DEF ProbeOwner, OnlyOwn, LaunchersTyped, LauncherInv, UnbornInv, ServingInv, OwningInv, At, Goto, Becoming
<1>3. LauncherInv(p)'
  BY <1>0, NoneIsNoLauncher DEF ProbeOwner, LaunchersTyped, LauncherInv, UnbornInv, ServingInv, OwningInv, NamedInv, At, Goto, Leaving, Threads,
       Early, Becoming, Cleaning, Running, Inside
<1>4. QED
  BY <1>1, <1>2, <1>3, OneSteps

LEMMA GiveUpKeeps ==
  ASSUME DesktopInv, NEW p \in Launchers, GiveUp(p)
  PROVE  DesktopInv'
<1>0. LaunchersTyped /\ LauncherInv(p)
  BY DEF DesktopInv
<1>1. LaunchersTyped'
  BY <1>0 DEF GiveUp, LaunchersTyped, Goto, StartupAt, WindowAt, Early, Becoming, Cleaning, Running
<1>2. OnlyOwn(p)
  BY <1>0 DEF GiveUp, OnlyOwn, LaunchersTyped, LauncherInv, UnbornInv, ServingInv, OwningInv, At, Goto, Becoming
<1>3. LauncherInv(p)'
  BY <1>0, NoneIsNoLauncher DEF GiveUp, LaunchersTyped, LauncherInv, UnbornInv, ServingInv, OwningInv, NamedInv, At, Goto, Leaving, Threads,
       Early, Becoming, Cleaning, Running, Inside
<1>4. QED
  BY <1>1, <1>2, <1>3, OneSteps

LEMMA ClearRecordKeeps ==
  ASSUME DesktopInv, NEW p \in Launchers, ClearRecord(p)
  PROVE  DesktopInv'
<1>0. LaunchersTyped /\ LauncherInv(p)
  BY DEF DesktopInv
<1>1. LaunchersTyped'
  <2>1. step' \in [Launchers -> [startup : StartupAt, ui : WindowAt]]
    BY <1>0 DEF ClearRecord, LaunchersTyped, Goto, StartupAt, Early, Becoming
  <2>2. QED
    BY <1>0, <2>1 DEF ClearRecord, LaunchersTyped, Running
<1>2. OnlyOwn(p)
  BY <1>0 DEF ClearRecord, OnlyOwn, LaunchersTyped, LauncherInv, UnbornInv, ServingInv, OwningInv, At, Goto, Becoming
<1>3. LauncherInv(p)'
  BY <1>0, NoneIsNoLauncher DEF ClearRecord, LaunchersTyped, LauncherInv, UnbornInv, ServingInv, OwningInv, NamedInv, At, Goto, Leaving, Threads,
       Early, Becoming, Cleaning, Running, Inside
<1>4. QED
  BY <1>1, <1>2, <1>3, OneSteps

LEMMA PublishRecordKeeps ==
  ASSUME DesktopInv, NEW p \in Launchers, PublishRecord(p)
  PROVE  DesktopInv'
<1>0. LaunchersTyped /\ LauncherInv(p)
  BY DEF DesktopInv
<1>1. LaunchersTyped'
  BY <1>0 DEF PublishRecord, LaunchersTyped, Goto, StartupAt, WindowAt, Early, Becoming, Cleaning, Running
<1>2. OnlyOwn(p)
  BY <1>0 DEF PublishRecord, OnlyOwn, LaunchersTyped, LauncherInv, UnbornInv, ServingInv, OwningInv, At, Goto, Becoming
<1>3. LauncherInv(p)'
  BY <1>0, NoneIsNoLauncher DEF PublishRecord, LaunchersTyped, LauncherInv, UnbornInv, ServingInv, OwningInv, NamedInv, At, Goto, Leaving, Threads,
       Early, Becoming, Cleaning, Running, Inside
<1>4. QED
  BY <1>1, <1>2, <1>3, OneSteps

LEMMA WriteRecordKeeps ==
  ASSUME DesktopInv, NEW p \in Launchers, WriteRecord(p)
  PROVE  DesktopInv'
<1>0. LaunchersTyped /\ LauncherInv(p)
  BY DEF DesktopInv
<1>1. LaunchersTyped'
  <2>1. step' \in [Launchers -> [startup : StartupAt, ui : WindowAt]]
    <3>1. PICK to \in StartupAt : Goto(p, "startup", to)
      BY DEF WriteRecord, StartupAt
    <3>2. QED
      BY <1>0, <3>1, GotoTo DEF Threads
  <2>2. QED
    BY <1>0, <2>1 DEF WriteRecord, LaunchersTyped, Running
<1>2. OnlyOwn(p)
  BY <1>0 DEF WriteRecord, OnlyOwn, LaunchersTyped, LauncherInv, UnbornInv, ServingInv, OwningInv, At, Goto, Becoming
<1>3. LauncherInv(p)'
  BY <1>0, NoneIsNoLauncher DEF WriteRecord, LaunchersTyped, LauncherInv, UnbornInv, ServingInv, OwningInv, NamedInv, At, Goto, Leaving, Threads,
       Early, Becoming, Cleaning, Running, Inside
<1>4. QED
  BY <1>1, <1>2, <1>3, OneSteps

LEMMA AwaitKeeps ==
  ASSUME DesktopInv, NEW p \in Launchers, Await(p)
  PROVE  DesktopInv'
<1>0. LaunchersTyped /\ LauncherInv(p)
  BY DEF DesktopInv
<1>1. LaunchersTyped'
  BY <1>0 DEF Await, LaunchersTyped, Goto, StartupAt, WindowAt, Early, Becoming, Cleaning, Running
<1>2. OnlyOwn(p)
  BY <1>0 DEF Await, OnlyOwn, LaunchersTyped, LauncherInv, UnbornInv, ServingInv, OwningInv, At, Goto, Becoming
<1>3. LauncherInv(p)'
  BY <1>0, NoneIsNoLauncher DEF Await, LaunchersTyped, LauncherInv, UnbornInv, ServingInv, OwningInv, NamedInv, At, Goto, Leaving, Threads,
       Early, Becoming, Cleaning, Running, Inside
<1>4. QED
  BY <1>1, <1>2, <1>3, OneSteps

LEMMA JoinedKeeps ==
  ASSUME DesktopInv, NEW p \in Launchers, Joined(p)
  PROVE  DesktopInv'
<1>0. LaunchersTyped /\ LauncherInv(p)
  BY DEF DesktopInv
<1>1. LaunchersTyped'
  BY <1>0 DEF Joined, LaunchersTyped, Goto, StartupAt, WindowAt, Early, Becoming, Cleaning, Running
<1>2. OnlyOwn(p)
  BY <1>0 DEF Joined, OnlyOwn, LaunchersTyped, LauncherInv, UnbornInv, ServingInv, OwningInv, At, Goto, Becoming
<1>3. LauncherInv(p)'
  BY <1>0, NoneIsNoLauncher DEF Joined, LaunchersTyped, LauncherInv, UnbornInv, ServingInv, OwningInv, NamedInv, At, Goto, Leaving, Threads,
       Early, Becoming, Cleaning, Running, Inside
<1>4. QED
  BY <1>1, <1>2, <1>3, OneSteps

LEMMA AppStepKeeps ==
  ASSUME DesktopInv, NEW p \in Launchers, AppStep(p)
  PROVE  DesktopInv'
<1>0. LaunchersTyped /\ LauncherInv(p)
  BY DEF DesktopInv
<1>1. LaunchersTyped'
  BY <1>0 DEF AppStep, LaunchersTyped, Goto, StartupAt, WindowAt, Early, Becoming, Cleaning, Running
<1>2. OnlyOwn(p)
  BY <1>0 DEF AppStep, OnlyOwn, LaunchersTyped, LauncherInv, UnbornInv, ServingInv, OwningInv, At, Goto, Becoming
<1>3. LauncherInv(p)'
  BY <1>0, NoneIsNoLauncher DEF AppStep, LaunchersTyped, LauncherInv, UnbornInv, ServingInv, OwningInv, NamedInv, At, Goto, Leaving, Threads,
       Early, Becoming, Cleaning, Running, Inside
<1>4. QED
  BY <1>1, <1>2, <1>3, OneSteps

LEMMA QuitKeeps ==
  ASSUME DesktopInv, NEW p \in Launchers, Quit(p)
  PROVE  DesktopInv'
<1>0. LaunchersTyped /\ LauncherInv(p)
  BY DEF DesktopInv
<1>1. LaunchersTyped'
  BY <1>0 DEF Quit, LaunchersTyped, Goto, StartupAt, WindowAt, Early, Becoming, Cleaning, Running
<1>2. OnlyOwn(p)
  BY <1>0 DEF Quit, OnlyOwn, LaunchersTyped, LauncherInv, UnbornInv, ServingInv, OwningInv, At, Goto, Becoming
<1>3. LauncherInv(p)'
  BY <1>0, NoneIsNoLauncher DEF Quit, LaunchersTyped, LauncherInv, UnbornInv, ServingInv, OwningInv, NamedInv, At, Goto, Leaving, Threads,
       Early, Becoming, Cleaning, Running, Inside
<1>4. QED
  BY <1>1, <1>2, <1>3, OneSteps

LEMMA JoinEndsKeeps ==
  ASSUME DesktopInv, NEW p \in Launchers, JoinEnds(p)
  PROVE  DesktopInv'
<1>0. LaunchersTyped /\ LauncherInv(p)
  BY DEF DesktopInv
<1>1. LaunchersTyped'
  BY <1>0 DEF JoinEnds, LaunchersTyped, Goto, StartupAt, WindowAt, Early, Becoming, Cleaning, Running
<1>2. OnlyOwn(p)
  BY <1>0 DEF JoinEnds, OnlyOwn, LaunchersTyped, LauncherInv, UnbornInv, ServingInv, OwningInv, At, Goto, Becoming
<1>3. LauncherInv(p)'
  BY <1>0, NoneIsNoLauncher DEF JoinEnds, LaunchersTyped, LauncherInv, UnbornInv, ServingInv, OwningInv, NamedInv, At, Goto, Leaving, Threads,
       Early, Becoming, Cleaning, Running, Inside
<1>4. QED
  BY <1>1, <1>2, <1>3, OneSteps

LEMMA LoadOwnKeeps ==
  ASSUME DesktopInv, NEW p \in Launchers, NEW t \in Threads, LoadOwn(p, t)
  PROVE  DesktopInv'
<1>0. LaunchersTyped /\ LauncherInv(p)
  BY DEF DesktopInv
<1>1. LaunchersTyped'
  BY <1>0 DEF LoadOwn, LaunchersTyped, Goto, StartupAt, WindowAt, Cleaning, Threads
<1>2. OnlyOwn(p)
  BY <1>0 DEF LoadOwn, OnlyOwn, LaunchersTyped, Goto, Threads
<1>3. LauncherInv(p)'
  BY <1>0 DEF LoadOwn, LaunchersTyped, LauncherInv, UnbornInv, ServingInv, OwningInv, NamedInv, At, Goto, Leaving, Threads,
       Early, Becoming, Cleaning
<1>4. QED
  BY <1>1, <1>2, <1>3, OneSteps

LEMMA UnlinkKeeps ==
  ASSUME DesktopInv, NEW p \in Launchers, NEW t \in Threads, Unlink(p, t)
  PROVE  DesktopInv'
<1>0. LaunchersTyped /\ LauncherInv(p)
  BY DEF DesktopInv
<1>1. LaunchersTyped'
  BY <1>0 DEF Unlink, LaunchersTyped, Goto, StartupAt, WindowAt, Cleaning, Threads
<1>2. OnlyOwn(p)
  BY <1>0 DEF Unlink, OnlyOwn, LaunchersTyped, Goto, Threads, At, LauncherInv, OwningInv
<1>3. LauncherInv(p)'
  BY <1>0 DEF Unlink, LaunchersTyped, LauncherInv, UnbornInv, ServingInv, OwningInv, NamedInv, At, Goto, Leaving, Threads,
       Early, Becoming, Cleaning
<1>4. QED
  BY <1>1, <1>2, <1>3, OneSteps

LEMMA ReleaseMutexKeeps ==
  ASSUME DesktopInv, NEW p \in Launchers, NEW t \in Threads, ReleaseMutex(p, t)
  PROVE  DesktopInv'
<1>0. LaunchersTyped /\ LauncherInv(p) /\ p # NoLauncher
  BY NoneIsNoLauncher DEF DesktopInv
<1>1. LaunchersTyped'
  BY <1>0 DEF ReleaseMutex, LaunchersTyped, Goto, StartupAt, WindowAt, Threads
<1>2. OnlyOwn(p)
  BY <1>0 DEF ReleaseMutex, OnlyOwn, LaunchersTyped, Goto, Threads
<1>3. LauncherInv(p)'
  BY <1>0 DEF ReleaseMutex, LaunchersTyped, LauncherInv, UnbornInv, ServingInv, OwningInv, NamedInv, At, Goto, Leaving, Threads,
       Early, Becoming, Cleaning
<1>4. QED
  BY <1>1, <1>2, <1>3, OneSteps

LEMMA GoneKeeps ==
  ASSUME DesktopInv, NEW p \in Launchers, Gone(p)
  PROVE  DesktopInv'
<1>0. LaunchersTyped /\ LauncherInv(p) /\ p # NoLauncher
  BY NoneIsNoLauncher DEF DesktopInv
<1>1. LaunchersTyped'
  <2>1. step' \in [Launchers -> [startup : StartupAt, ui : WindowAt]]
    BY <1>0 DEF Gone, LaunchersTyped, StartupAt, Early, WindowAt
  <2>2. QED
    BY <1>0, <2>1 DEF Gone, LaunchersTyped
<1>2. OnlyOwn(p)
  BY <1>0 DEF Gone, OnlyOwn, LaunchersTyped
<1>3. LauncherInv(p)'
  BY <1>0 DEF Gone, LaunchersTyped, LauncherInv, UnbornInv, ServingInv, OwningInv, NamedInv, Leaving, Threads,
       Early, Becoming, Cleaning, Running
<1>4. QED
  BY <1>1, <1>2, <1>3, OneSteps

\* The one step of two processes: the other one is born.
LEMMA RelaunchKeeps ==
  ASSUME DesktopInv, NEW p \in Launchers, NEW t \in Threads, Relaunch(p, t)
  PROVE  DesktopInv'
<1>0. LaunchersTyped /\ LauncherInv(p)
  BY DEF DesktopInv
<1>1. ASSUME NEW q \in Launchers, Unborn(q), life' = [life EXCEPT ![q] = "alive"],
             step' = [step EXCEPT ![q].startup = "handoff", ![p][t] = IF closed[p] THEN "terminate" ELSE "load"],
             overtaken' = (overtaken \/ (~closed[p] /\ \E u \in Threads \ {t} : step[p][u] \in Inside)),
             UNCHANGED <<mutex, record, owner, published, closed, app>>
      PROVE  DesktopInv'
  <2>1. LauncherInv(q) /\ q # p /\ life[p] = "alive"
    BY <1>1 DEF DesktopInv, Unborn, Relaunch, At
  <2> DEFINE to == IF closed[p] THEN "terminate" ELSE "load"
  <2>b. /\ step' \in [Launchers -> [startup : StartupAt, ui : WindowAt]]
        /\ step'[p].startup = (IF t = "startup" THEN to ELSE step[p].startup)
        /\ step'[p].ui = (IF t = "ui" THEN to ELSE step[p].ui)
        /\ step'[q].startup = "handoff" /\ step'[q].ui = step[q].ui
        /\ \A r \in Launchers \ {p, q} : step'[r] = step[r]
    <3>0. to \in StartupAt /\ to \in WindowAt /\ "handoff" \in StartupAt
      BY DEF StartupAt, WindowAt, Early, Cleaning
    <3>1. CASE t = "startup"
      BY <1>0, <1>1, <2>1, <3>0, <3>1 DEF LaunchersTyped
    <3>2. CASE t = "ui"
      BY <1>0, <1>1, <2>1, <3>0, <3>2 DEF LaunchersTyped
    <3>3. QED
      BY <3>1, <3>2 DEF Threads
  <2> HIDE DEF to
  <2>2. LaunchersTyped'
    BY <1>0, <1>1, <2>b DEF LaunchersTyped
  <2>3. LauncherInv(q)'
    BY <1>0, <1>1, <2>1, <2>b DEF Unborn, LaunchersTyped, LauncherInv, UnbornInv, ServingInv, OwningInv, NamedInv, Leaving, Threads,
         Early, Becoming, Cleaning, Running
  <2>4. LauncherInv(p)'
    <3>1. CASE t = "startup"
      <4>1. /\ step'[p].startup = to /\ step'[p].ui = step[p].ui /\ step[p].startup = "relaunch"
            /\ overtaken' = (overtaken \/ (~closed[p] /\ step[p].ui \in Inside))
            /\ life'[p] = "alive"
        BY <1>0, <1>1, <2>1, <2>b, <3>1 DEF Relaunch, At, Threads, LaunchersTyped
      <4>2. UnbornInv(p)' /\ ServingInv(p)'
        BY <1>0, <1>1, <4>1 DEF to, LauncherInv, UnbornInv, ServingInv, Leaving, Threads, Early, Becoming
      <4>3. OwningInv(p)'
        <5>1. CASE closed[p]
          <6>1. step'[p].startup = "terminate" /\ (~overtaken' => ~overtaken)
            BY <4>1, <5>1 DEF to
          <6>2. QED
            BY <1>0, <1>1, <4>1, <5>1, <6>1 DEF LauncherInv, OwningInv, Becoming, Cleaning
        <5>2. CASE ~closed[p]
          <6>1. step'[p].startup = "load" /\ (~overtaken' => ~overtaken /\ step[p].ui \notin Inside)
            BY <4>1, <5>2 DEF to
          <6>2. QED
            BY <1>0, <1>1, <4>1, <6>1 DEF LauncherInv, OwningInv, Becoming, Cleaning, Inside
        <5>3. QED
          BY <5>1, <5>2
      <4>4. NamedInv(p)'
        BY <1>0, <1>1, <2>1, <4>1 DEF to, LauncherInv, NamedInv, Cleaning
      <4>5. QED
        BY <4>2, <4>3, <4>4 DEF LauncherInv
    <3>2. CASE t = "ui"
      <4>1. /\ step'[p].ui = to /\ step'[p].startup = step[p].startup /\ step[p].ui = "window"
            /\ overtaken' = (overtaken \/ (~closed[p] /\ step[p].startup \in Inside))
            /\ life'[p] = "alive"
        BY <1>0, <1>1, <2>1, <2>b, <3>2 DEF Relaunch, At, Threads, LaunchersTyped
      <4>2. UnbornInv(p)' /\ ServingInv(p)'
        BY <1>0, <1>1, <4>1 DEF to, LauncherInv, UnbornInv, ServingInv, Leaving, Threads, Early, Becoming
      <4>3. OwningInv(p)'
        <5>1. CASE closed[p]
          <6>1. step'[p].ui = "terminate" /\ (~overtaken' => ~overtaken)
            BY <4>1, <5>1 DEF to
          <6>2. QED
            BY <1>0, <1>1, <4>1, <5>1, <6>1 DEF LauncherInv, OwningInv, Becoming, Cleaning
        <5>2. CASE ~closed[p]
          <6>1. step'[p].ui = "load" /\ (~overtaken' => ~overtaken /\ step[p].startup \notin Inside)
            BY <4>1, <5>2 DEF to
          <6>2. QED
            BY <1>0, <1>1, <4>1, <6>1 DEF LauncherInv, OwningInv, Becoming, Cleaning, Inside
        <5>3. QED
          BY <5>1, <5>2
      <4>4. NamedInv(p)'
        BY <1>0, <1>1, <2>1, <4>1 DEF to, LauncherInv, NamedInv, Cleaning
      <4>5. QED
        BY <4>2, <4>3, <4>4 DEF LauncherInv
    <3>3. QED
      BY <3>1, <3>2 DEF Threads
  <2>5. ASSUME NEW r \in Launchers \ {p, q} PROVE LauncherInv(r)'
    BY <1>0, <1>1, <2>b, OthersOwn DEF LaunchersTyped
  <2>6. QED
    BY <2>2, <2>3, <2>4, <2>5 DEF DesktopInv
<1>2. ASSUME t = "startup", Goto(p, t, "failed"), UNCHANGED <<life, overtaken, mutex, record, owner, published, closed, app>>
      PROVE  DesktopInv'
  <2>1. LaunchersTyped' /\ OnlyOwn(p)
    BY <1>0, <1>2 DEF LaunchersTyped, OnlyOwn, Goto, StartupAt
  <2>2. LauncherInv(p)'
    BY <1>0, <1>2 DEF Relaunch, At, LaunchersTyped, LauncherInv, UnbornInv, ServingInv, OwningInv, NamedInv, Goto, Leaving,
         Threads, Early, Becoming, Cleaning
  <2>3. QED
    BY <2>1, <2>2, OneSteps
<1>3. QED
  BY <1>1, <1>2 DEF Relaunch

LEMMA DesktopNextInv == DesktopInv /\ [InstanceNext]_instanceVars => DesktopInv'
<1>1. ASSUME DesktopInv, InstanceNext PROVE DesktopInv'
  BY <1>1, LaunchKeeps, HandOffKeeps, AcquireKeeps, OccupiedKeeps, ProbeOwnerKeeps, GiveUpKeeps, ClearRecordKeeps,
     PublishRecordKeeps, WriteRecordKeeps, AwaitKeeps, JoinedKeeps, AppStepKeeps, QuitKeeps, JoinEndsKeeps, GoneKeeps,
     RelaunchKeeps, LoadOwnKeeps, UnlinkKeeps, ReleaseMutexKeeps DEF InstanceNext, Kill, Terminate
<1>2. ASSUME DesktopInv, UNCHANGED instanceVars PROVE DesktopInv'
  BY <1>2 DEF instanceVars, DesktopInv, LaunchersTyped, LauncherInv, UnbornInv, ServingInv, OwningInv, NamedInv, Leaving
<1>3. QED
  BY <1>1, <1>2

LEMMA DesktopSound == DesktopInv => OwnershipIsSound
<1> SUFFICES ASSUME DesktopInv PROVE OwnershipIsSound
  OBVIOUS
<1>1. ASSUME NEW p \in Launchers, NEW q \in Launchers, p # q, app[p] \in Running, app[q] \in Running
      PROVE  Leaving(p) \/ Leaving(q)
  BY <1>1 DEF DesktopInv, LauncherInv, ServingInv
<1>2. RecordNamesOwner
  BY DEF RecordNamesOwner, DesktopInv, LauncherInv, NamedInv, Threads
<1>3. QED
  BY <1>1, <1>2 DEF OwnershipIsSound, OneServes

\* Two launchers never run the application, but for one that is about to end, and the record
\* names its owner: for any number of launchers, started, retried, replaced and killed at any step.
THEOREM OneLauncherOwns == InstanceSpec => []OwnershipIsSound
<1>1. QED
  BY DesktopInitInv, DesktopNextInv, DesktopSound, PTL DEF InstanceSpec

---------------------------------------------------------------------------
(***************************************************************************)
(* Backups and restores at the same time (Backups).                        *)
(***************************************************************************)
Opens(c) == \A d \in Databases \cap DOMAIN c : c[d] # Broken

\* What can be published.
SoundArchive(a) ==
  /\ a.modified \in Nat
  /\ DOMAIN a.content = Files /\ Opens(a.content)
  /\ a.blurred \/ Uniform(a.content)

\* The data directory once r has installed the rest.
Coming(r, f) == IF f \in DOMAIN staged[r] THEN staged[r][f] ELSE data[f]

\* A copy is of the data as they are, unless it is blurred.
CopyInv(w) ==
  writing[w] = "copy" =>
    /\ DOMAIN temporary[w] \subseteq Files /\ Opens(temporary[w])
    /\ w \in blurred \/ (~mixed /\ Installing = {} /\ \A f \in DOMAIN temporary[w] : temporary[w][f] = data[f])

\* What an undisturbed cleanup is still to delete stays old.
ListInv(w) ==
  /\ \A a \in listing[w] : a.modified \in Nat
  /\ w \in disturbed \/ \A a \in listing[w] : Cardinality(Newer(a)) >= Keep

WriterInv(w) == CopyInv(w) /\ ListInv(w) /\ (writing[w] = "publish" => SoundArchive(temporary[w]))

\* The only restore there is will leave the files of one archive.
RestorerInv(r) ==
  /\ restoring[r] = "verify" => DOMAIN staged[r] = Files
  /\ restoring[r] = "install" =>
       /\ DOMAIN staged[r] \subseteq Files /\ Opens(staged[r])
       /\ ~mixed => Installing = {r} /\ \A f, g \in Files : Coming(r, f) = Coming(r, g)

DirectoryInv ==
  /\ DOMAIN data = Files /\ Opens(data)
  /\ mixed \/ Installing # {} \/ Uniform(data)
  /\ written \in Nat /\ IsFiniteSet(archives) /\ \A a \in archives : SoundArchive(a)
  /\ DOMAIN writing = Writers /\ DOMAIN temporary = Writers /\ DOMAIN listing = Writers
  /\ DOMAIN restoring = Restorers /\ DOMAIN staged = Restorers

BackupInv ==
  /\ DirectoryInv
  /\ \A w \in Writers : WriterInv(w)
  /\ \A r \in Restorers : RestorerInv(r)

LEMMA BackupInitInv == BackupInit => BackupInv
<1> SUFFICES ASSUME BackupInit PROVE BackupInv
  OBVIOUS
<1>1. DirectoryInv
  <2>1. Uniform(data) /\ Opens(data)
    BY BackupAssumption DEF BackupInit, Uniform, Opens
  <2>2. \A a \in archives : SoundArchive(a)
    BY <2>1 DEF BackupInit, SoundArchive
  <2>3. IsFiniteSet(archives)
    BY FS_Singleton DEF BackupInit
  <2>4. QED
    BY <2>1, <2>2, <2>3 DEF BackupInit, DirectoryInv
<1>2. ASSUME NEW w \in Writers PROVE WriterInv(w)
  BY <1>2 DEF BackupInit, WriterInv, CopyInv, ListInv
<1>3. ASSUME NEW r \in Restorers PROVE RestorerInv(r)
  BY <1>3 DEF BackupInit, RestorerInv
<1>4. QED
  BY <1>1, <1>2, <1>3 DEF BackupInv

\* More archives, or fewer by an old one: what was old stays old.
LEMMA NewerGrows ==
  ASSUME IsFiniteSet(archives), IsFiniteSet(archives'), archives \subseteq archives', NEW a, Cardinality(Newer(a)) >= Keep
  PROVE  Cardinality({b \in archives' : b.modified > a.modified}) >= Keep
<1> DEFINE S == {b \in archives' : b.modified > a.modified}
<1>1. Newer(a) \subseteq S /\ S \subseteq archives' /\ Newer(a) \subseteq archives
  BY DEF Newer
<1>2. IsFiniteSet(S) /\ IsFiniteSet(Newer(a))
  BY <1>1, FS_Subset
<1>3. Cardinality(Newer(a)) <= Cardinality(S) /\ Cardinality(S) \in Nat /\ Cardinality(Newer(a)) \in Nat
  BY <1>1, <1>2, FS_Subset, FS_CardinalityType
<1>4. QED
  BY <1>3, BackupAssumption

LEMMA OldOneGoes ==
  ASSUME IsFiniteSet(archives), \A c \in archives : c.modified \in Nat,
         NEW a, a.modified \in Nat, Cardinality(Newer(a)) >= Keep,
         NEW b, b.modified \in Nat, Cardinality(Newer(b)) >= Keep
  PROVE  Cardinality({c \in archives \ {b} : c.modified > a.modified}) >= Keep
<1> DEFINE S == {c \in archives \ {b} : c.modified > a.modified}
<1>1. S \subseteq archives /\ Newer(a) \subseteq archives /\ Newer(b) \subseteq archives
  BY DEF Newer
<1>2. Newer(a) \subseteq S \/ Newer(b) \subseteq S
  <2>1. CASE b.modified > a.modified
    BY <2>1 DEF Newer
  <2>2. CASE ~(b.modified > a.modified)
    BY <2>2 DEF Newer
  <2>3. QED
    BY <2>1, <2>2
<1>3. IsFiniteSet(S) /\ IsFiniteSet(Newer(a)) /\ IsFiniteSet(Newer(b))
  BY <1>1, FS_Subset
<1>4. Cardinality(S) \in Nat /\ Cardinality(Newer(a)) \in Nat /\ Cardinality(Newer(b)) \in Nat
  BY <1>3, FS_CardinalityType
<1>5. Cardinality(Newer(a)) <= Cardinality(S) \/ Cardinality(Newer(b)) <= Cardinality(S)
  BY <1>2, <1>3, FS_Subset
<1>6. QED
  BY <1>4, <1>5, BackupAssumption

\* Writers leave the restores as they are.
LEMMA RestoresGoOn ==
  ASSUME NEW r \in Restorers, RestorerInv(r), UNCHANGED restoreVars
  PROVE  RestorerInv(r)'
  BY DEF restoreVars, RestorerInv, Coming, Installing

LEMMA BeginBackupKeepsBackups ==
  ASSUME BackupInv, NEW w \in Writers, BeginBackup(w)
  PROVE  BackupInv'
<1>0. DirectoryInv /\ (\A v \in Writers : WriterInv(v)) /\ (\A r \in Restorers : RestorerInv(r))
  BY DEF BackupInv
<1>1. DirectoryInv'
  BY <1>0 DEF BeginBackup, DirectoryInv, Proceed, restoreVars, Installing
<1>2. ASSUME NEW v \in Writers PROVE WriterInv(v)'
  BY <1>0, <1>2 DEF BeginBackup, DirectoryInv, WriterInv, CopyInv, ListInv, Newer, Proceed, restoreVars, Installing, Opens, Nothing
<1>4. QED
  BY <1>0, <1>1, <1>2, RestoresGoOn DEF BackupInv, BeginBackup

LEMMA CopyKeepsBackups ==
  ASSUME BackupInv, NEW w \in Writers, NEW f \in Files, Copy(w, f)
  PROVE  BackupInv'
<1>0. DirectoryInv /\ (\A v \in Writers : WriterInv(v)) /\ (\A r \in Restorers : RestorerInv(r))
  BY DEF BackupInv
<1>1. DirectoryInv'
  BY <1>0 DEF Copy, DirectoryInv, restoreVars, Installing
<1>2. ASSUME NEW v \in Writers PROVE WriterInv(v)'
  <2>1. ListInv(v)' /\ (writing'[v] = "publish" => SoundArchive(temporary'[v]))
    BY <1>0 DEF Copy, DirectoryInv, WriterInv, ListInv, Newer
  <2>2. CopyInv(v)'
    <3>1. CASE v # w
      BY <1>0, <3>1 DEF Copy, DirectoryInv, WriterInv, CopyInv, restoreVars, Installing
    <3>2. CASE v = w
      <4>1. /\ DOMAIN temporary'[w] = DOMAIN temporary[w] \cup {f}
            /\ temporary'[w][f] = data[f] /\ \A g \in DOMAIN temporary[w] \ {f} : temporary'[w][g] = temporary[w][g]
        BY <1>0 DEF Copy, DirectoryInv
      <4>2. QED
        BY <1>0, <3>2, <4>1 DEF Copy, DirectoryInv, WriterInv, CopyInv, Opens, restoreVars, Installing
    <3>3. QED
      BY <3>1, <3>2
  <2>3. QED
    BY <2>1, <2>2 DEF WriterInv
<1>4. QED
  BY <1>0, <1>1, <1>2, RestoresGoOn DEF BackupInv, Copy

LEMMA EndArchiveKeepsBackups ==
  ASSUME BackupInv, NEW w \in Writers, EndArchive(w)
  PROVE  BackupInv'
<1>0. DirectoryInv /\ (\A v \in Writers : WriterInv(v)) /\ (\A r \in Restorers : RestorerInv(r))
  BY DEF BackupInv
<1>1. DirectoryInv'
  BY <1>0 DEF EndArchive, DirectoryInv, Proceed, restoreVars, Installing
<1>2. ASSUME NEW v \in Writers PROVE WriterInv(v)'
  <2>1. SoundArchive(Stamped(w))
    <3>1. writing[w] = "copy" /\ DOMAIN temporary[w] = Files /\ Opens(temporary[w])
      BY <1>0 DEF EndArchive, Proceed, WriterInv, CopyInv
    <3>0. /\ Stamped(w).modified = written + 1 /\ Stamped(w).content = temporary[w]
          /\ w \in blurred => Stamped(w).blurred
      BY DEF Stamped
    <3>2. CASE w \in blurred
      BY <1>0, <3>0, <3>1, <3>2 DEF DirectoryInv, SoundArchive
    <3>3. CASE w \notin blurred
      <4>1. Uniform(data) /\ \A f \in Files : temporary[w][f] = data[f]
        BY <1>0, <3>1, <3>3 DEF DirectoryInv, WriterInv, CopyInv
      <4>2. Uniform(temporary[w])
        BY <1>0, <3>1, <4>1 DEF DirectoryInv, Uniform
      <4>3. QED
        BY <1>0, <3>0, <3>1, <4>2 DEF DirectoryInv, SoundArchive
    <3>4. QED
      BY <3>2, <3>3
  <2>2. CASE v = w
    BY <1>0, <2>1, <2>2 DEF EndArchive, DirectoryInv, WriterInv, CopyInv, ListInv, Newer, Proceed
  <2>3. CASE v # w
    BY <1>0, <2>3 DEF EndArchive, DirectoryInv, WriterInv, CopyInv, ListInv, Newer, Proceed, restoreVars, Installing
  <2>4. QED
    BY <2>2, <2>3
<1>4. QED
  BY <1>0, <1>1, <1>2, RestoresGoOn DEF BackupInv, EndArchive

LEMMA PublishKeepsBackups ==
  ASSUME BackupInv, NEW w \in Writers, Publish(w)
  PROVE  BackupInv'
<1>0. DirectoryInv /\ (\A v \in Writers : WriterInv(v)) /\ (\A r \in Restorers : RestorerInv(r))
  BY DEF BackupInv
<1>a. IsFiniteSet(archives') /\ archives \subseteq archives' /\ archives' = archives \cup {temporary[w]}
  BY <1>0, FS_AddElement DEF Publish, DirectoryInv
<1>1. DirectoryInv'
  BY <1>0, <1>a DEF Publish, DirectoryInv, WriterInv, Proceed, restoreVars, Installing
<1>2. ASSUME NEW v \in Writers PROVE WriterInv(v)'
  <2>1. ListInv(v)'
    BY <1>0, <1>a, NewerGrows DEF Publish, DirectoryInv, WriterInv, ListInv, Newer
  <2>2. CopyInv(v)' /\ (writing'[v] = "publish" => SoundArchive(temporary'[v]))
    BY <1>0 DEF Publish, DirectoryInv, WriterInv, CopyInv, Proceed, restoreVars, Installing
  <2>3. QED
    BY <2>1, <2>2 DEF WriterInv
<1>4. QED
  BY <1>0, <1>1, <1>2, RestoresGoOn DEF BackupInv, Publish

LEMMA BackupFailsKeepsBackups ==
  ASSUME BackupInv, NEW w \in Writers, BackupFails(w)
  PROVE  BackupInv'
<1>0. DirectoryInv /\ (\A v \in Writers : WriterInv(v)) /\ (\A r \in Restorers : RestorerInv(r))
  BY DEF BackupInv
<1>1. DirectoryInv'
  BY <1>0 DEF BackupFails, DirectoryInv, Proceed, restoreVars, Installing
<1>2. ASSUME NEW v \in Writers PROVE WriterInv(v)'
  BY <1>0, <1>2 DEF BackupFails, DirectoryInv, WriterInv, CopyInv, ListInv, Newer, Proceed, restoreVars, Installing
<1>4. QED
  BY <1>0, <1>1, <1>2, RestoresGoOn DEF BackupInv, BackupFails

LEMMA ListBackupsKeepsBackups ==
  ASSUME BackupInv, NEW w \in Writers, ListBackups(w)
  PROVE  BackupInv'
<1>0. DirectoryInv /\ (\A v \in Writers : WriterInv(v)) /\ (\A r \in Restorers : RestorerInv(r))
  BY DEF BackupInv
<1>1. DirectoryInv'
  BY <1>0 DEF ListBackups, DirectoryInv, Proceed, restoreVars, Installing
<1>2. ASSUME NEW v \in Writers PROVE WriterInv(v)'
  BY <1>0, <1>2 DEF ListBackups, DirectoryInv, WriterInv, CopyInv, ListInv, Newer, Proceed, restoreVars, Installing, Old, SoundArchive
<1>4. QED
  BY <1>0, <1>1, <1>2, RestoresGoOn DEF BackupInv, ListBackups

LEMMA RemoveArchiveKeepsBackups ==
  ASSUME BackupInv, NEW w \in Writers, NEW a \in listing[w], RemoveArchive(w, a)
  PROVE  BackupInv'
<1>0. DirectoryInv /\ (\A v \in Writers : WriterInv(v)) /\ (\A r \in Restorers : RestorerInv(r))
  BY DEF BackupInv
<1>1. DirectoryInv'
  BY <1>0, FS_RemoveElement DEF RemoveArchive, DirectoryInv, Proceed, restoreVars, Installing
<1>2. ASSUME NEW v \in Writers PROVE WriterInv(v)'
  <2>1. CopyInv(v)' /\ (writing'[v] = "publish" => SoundArchive(temporary'[v]))
    BY <1>0 DEF RemoveArchive, DirectoryInv, WriterInv, CopyInv, Proceed, restoreVars, Installing
  <2>2. listing'[v] \subseteq listing[v]
    BY <1>0 DEF RemoveArchive, DirectoryInv
  <2>3. \A b \in listing'[v] : b.modified \in Nat
    BY <1>0, <2>2 DEF WriterInv, ListInv
  <2>4. v \in disturbed' \/ \A b \in listing'[v] : Cardinality(Newer(b))' >= Keep
    <3>1. CASE w \in disturbed \/ v \in disturbed
      BY <3>1 DEF RemoveArchive
    <3>2. ASSUME w \notin disturbed, v \notin disturbed, NEW b \in listing[v] PROVE Cardinality(Newer(b)') >= Keep
      BY <1>0, <3>2, OldOneGoes DEF RemoveArchive, DirectoryInv, SoundArchive, WriterInv, ListInv, Newer
    <3>3. QED
      BY <2>2, <3>1, <3>2
  <2>5. QED
    BY <2>1, <2>3, <2>4 DEF WriterInv, ListInv
<1>4. QED
  BY <1>0, <1>1, <1>2, RestoresGoOn DEF BackupInv, RemoveArchive

LEMMA DeleteBackupKeepsBackups ==
  ASSUME BackupInv, NEW a, DeleteBackup(a)
  PROVE  BackupInv'
<1>0. DirectoryInv /\ (\A v \in Writers : WriterInv(v)) /\ (\A r \in Restorers : RestorerInv(r))
  BY DEF BackupInv
<1>1. DirectoryInv'
  BY <1>0, FS_RemoveElement DEF DeleteBackup, DirectoryInv, restoreVars, Installing
<1>2. ASSUME NEW v \in Writers PROVE WriterInv(v)'
  BY <1>0 DEF DeleteBackup, DirectoryInv, WriterInv, CopyInv, ListInv, restoreVars, Installing
<1>4. QED
  BY <1>0, <1>1, <1>2, RestoresGoOn DEF BackupInv, DeleteBackup

\* A restore that begins or ends without installing is none of the others' business.
LEMMA SoundUploads == DirectoryInv => \A c \in Uploads : DOMAIN c = Files
  BY DEF Uploads, DirectoryInv, SoundArchive

LEMMA StageKeepsBackups ==
  ASSUME BackupInv, NEW r \in Restorers, NEW c \in Uploads, Stage(r, c)
  PROVE  BackupInv'
<1>0. DirectoryInv /\ (\A v \in Writers : WriterInv(v)) /\ (\A q \in Restorers : RestorerInv(q))
  BY DEF BackupInv
<1>a. Installing' = Installing
  BY <1>0 DEF Stage, DirectoryInv, Installing
<1>1. DirectoryInv'
  BY <1>0, <1>a DEF Stage, DirectoryInv, writerVars
<1>2. ASSUME NEW v \in Writers PROVE WriterInv(v)'
  BY <1>0, <1>a DEF Stage, WriterInv, CopyInv, ListInv, Newer, writerVars
<1>3. ASSUME NEW q \in Restorers PROVE RestorerInv(q)'
  BY <1>0, <1>a, SoundUploads DEF Stage, DirectoryInv, RestorerInv, Coming
<1>4. QED
  BY <1>1, <1>2, <1>3 DEF BackupInv

LEMMA RejectKeepsBackups ==
  ASSUME BackupInv, NEW r \in Restorers, Reject(r)
  PROVE  BackupInv'
<1>0. DirectoryInv /\ (\A v \in Writers : WriterInv(v)) /\ (\A q \in Restorers : RestorerInv(q))
  BY DEF BackupInv
<1>a. Installing' = Installing
  BY <1>0 DEF Reject, DirectoryInv, Installing
<1>1. DirectoryInv'
  BY <1>0, <1>a DEF Reject, DirectoryInv, writerVars
<1>2. ASSUME NEW v \in Writers PROVE WriterInv(v)'
  BY <1>0, <1>a DEF Reject, WriterInv, CopyInv, ListInv, Newer, writerVars
<1>3. ASSUME NEW q \in Restorers PROVE RestorerInv(q)'
  BY <1>0, <1>a DEF Reject, DirectoryInv, RestorerInv, Coming
<1>4. QED
  BY <1>1, <1>2, <1>3 DEF BackupInv

LEMMA AcceptKeepsBackups ==
  ASSUME BackupInv, NEW r \in Restorers, Accept(r)
  PROVE  BackupInv'
<1>0. DirectoryInv /\ (\A v \in Writers : WriterInv(v)) /\ (\A q \in Restorers : RestorerInv(q))
  BY DEF BackupInv
<1>a. Installing' = Installing \cup {r}
  BY <1>0 DEF Accept, DirectoryInv, Installing
<1>1. DirectoryInv'
  BY <1>0, <1>a DEF Accept, DirectoryInv
<1>2. ASSUME NEW v \in Writers PROVE WriterInv(v)'
  BY <1>0 DEF Accept, Disturb, WriterInv, CopyInv, ListInv, Newer
<1>3. ASSUME NEW q \in Restorers PROVE RestorerInv(q)'
  <2>1. CASE q = r
    <3>1. DOMAIN staged[r] = Files /\ Opens(staged[r])
      BY <1>0, BackupAssumption DEF Accept, RestorerInv, Verified, Opens
    <3>2. ~mixed' => Installing' = {r} /\ Uniform(staged[r])
      BY <1>a DEF Accept
    <3>3. QED
      BY <1>0, <2>1, <3>1, <3>2 DEF Accept, DirectoryInv, RestorerInv, Coming, Uniform
  <2>2. CASE q # r
    <3>1. restoring'[q] = "install" => mixed'
      BY <1>0, <2>2 DEF Accept, DirectoryInv, Installing
    <3>2. QED
      BY <1>0, <2>2, <3>1 DEF Accept, DirectoryInv, RestorerInv
  <2>3. QED
    BY <2>1, <2>2
<1>4. QED
  BY <1>1, <1>2, <1>3 DEF BackupInv

LEMMA InstallKeepsBackups ==
  ASSUME BackupInv, NEW r \in Restorers, NEW f \in Files, Install(r, f)
  PROVE  BackupInv'
<1>0. DirectoryInv /\ (\A v \in Writers : WriterInv(v)) /\ (\A q \in Restorers : RestorerInv(q))
  BY DEF BackupInv
<1>a. /\ staged' = [staged EXCEPT ![r] = [g \in DOMAIN staged[r] \ {f} |-> staged[r][g]]]
      /\ data' = [data EXCEPT ![f] = staged[r][f]] /\ DOMAIN staged[r] \subseteq Files /\ f \in DOMAIN staged[r]
      /\ r \in Installing
  BY <1>0 DEF Install, DirectoryInv, RestorerInv, Installing
<1>b. \A g \in Files : Coming(r, g)' = Coming(r, g)
  BY <1>0, <1>a DEF DirectoryInv, Coming
<1>1. DirectoryInv'
  <2>1. DOMAIN data' = Files /\ Opens(data')
    BY <1>0, <1>a DEF Install, DirectoryInv, RestorerInv, Opens
  <2>2. mixed' \/ Installing' # {} \/ Uniform(data')
    <3>1. CASE mixed \/ \E q \in Installing' : TRUE
      BY <3>1 DEF Install
    <3>2. CASE ~mixed /\ Installing' = {}
      <4>1. restoring'[r] # "install"
        BY <3>2 DEF Installing
      <4>2. DOMAIN staged[r] = {f}
        BY <1>0, <4>1 DEF Install, DirectoryInv
      <4>3. \A g \in Files : data'[g] = Coming(r, g)
        BY <1>0, <1>a, <4>2 DEF DirectoryInv, Coming
      <4>4. QED
        BY <1>0, <3>2, <2>1, <4>3 DEF Install, RestorerInv, Uniform
    <3>3. QED
      BY <3>1, <3>2
  <2>3. QED
    BY <1>0, <2>1, <2>2 DEF Install, DirectoryInv, writerVars
<1>2. ASSUME NEW v \in Writers PROVE WriterInv(v)'
  BY <1>0, <1>a DEF Install, WriterInv, CopyInv, ListInv, Newer, writerVars
<1>3. ASSUME NEW q \in Restorers PROVE RestorerInv(q)'
  <2>1. CASE q = r
    <3>1. Installing' \subseteq Installing
      BY <1>0 DEF Install, DirectoryInv, Installing
    <3>2. restoring'[r] = "install" => r \in Installing'
      BY DEF Installing
    <3>3. DOMAIN staged'[r] \subseteq Files /\ Opens(staged'[r])
      BY <1>0, <1>a DEF Install, DirectoryInv, RestorerInv, Opens
    <3>4. QED
      BY <1>0, <1>b, <2>1, <3>1, <3>2, <3>3 DEF Install, DirectoryInv, RestorerInv
  <2>2. CASE q # r
    <3>1. restoring'[q] = "install" => mixed'
      BY <1>0, <1>a, <2>2 DEF Install, DirectoryInv, RestorerInv
    <3>2. QED
      BY <1>0, <2>2, <3>1 DEF Install, DirectoryInv, RestorerInv
  <2>3. QED
    BY <2>1, <2>2
<1>4. QED
  BY <1>1, <1>2, <1>3 DEF BackupInv

LEMMA RestoreFailsKeepsBackups ==
  ASSUME BackupInv, NEW r \in Restorers, RestoreFails(r)
  PROVE  BackupInv'
<1>0. DirectoryInv /\ (\A v \in Writers : WriterInv(v)) /\ (\A q \in Restorers : RestorerInv(q))
  BY DEF BackupInv
<1>a. Installing' = Installing \ {r} /\ (~mixed' => Installing' = Installing)
  BY <1>0 DEF RestoreFails, DirectoryInv, Installing
<1>1. DirectoryInv'
  BY <1>0, <1>a DEF RestoreFails, DirectoryInv, writerVars
<1>2. ASSUME NEW v \in Writers PROVE WriterInv(v)'
  BY <1>0 DEF RestoreFails, WriterInv, CopyInv, ListInv, Newer, writerVars, Installing, DirectoryInv
<1>3. ASSUME NEW q \in Restorers PROVE RestorerInv(q)'
  <2>1. CASE q = r
    BY <1>0, <2>1 DEF RestoreFails, DirectoryInv, RestorerInv
  <2>2. CASE q # r
    <3>1. restoring'[q] = restoring[q] /\ staged'[q] = staged[q] /\ UNCHANGED data /\ (mixed => mixed')
      BY <1>0, <2>2 DEF RestoreFails, DirectoryInv
    <3>2. QED
      BY <1>0, <1>a, <3>1 DEF RestorerInv, Coming
  <2>3. QED
    BY <2>1, <2>2
<1>4. QED
  BY <1>1, <1>2, <1>3 DEF BackupInv

LEMMA BackupNextInv == BackupInv /\ [BackupNext]_backupVars => BackupInv'
<1>1. ASSUME BackupInv, BackupNext PROVE BackupInv'
  BY <1>1, BeginBackupKeepsBackups, CopyKeepsBackups, EndArchiveKeepsBackups, PublishKeepsBackups, BackupFailsKeepsBackups,
     ListBackupsKeepsBackups, RemoveArchiveKeepsBackups, DeleteBackupKeepsBackups, StageKeepsBackups, RejectKeepsBackups,
     AcceptKeepsBackups, InstallKeepsBackups, RestoreFailsKeepsBackups DEF BackupNext
<1>2. ASSUME BackupInv, UNCHANGED backupVars PROVE BackupInv'
  BY <1>2 DEF backupVars, writerVars, restoreVars, BackupInv, DirectoryInv, WriterInv, CopyInv, ListInv, RestorerInv, Newer,
       Installing, Coming
<1>3. QED
  BY <1>1, <1>2

LEMMA TogetherFollows == BackupInv => FilesBelongTogether
  BY BackupAssumption DEF BackupInv, DirectoryInv, FilesBelongTogether, SoundArchive, Opens

LEMMA CleanupKeeps == BackupInv /\ [BackupNext]_backupVars => NewestAreKept
<1> SUFFICES ASSUME BackupInv, [BackupNext]_backupVars,
                    NEW w \in Writers, NEW a \in (listing[w] \ listing'[w]) \cap (archives \ archives')
             PROVE  w \in disturbed \/ Cardinality(Newer(a)) >= Keep
  BY DEF NewestAreKept
<1>1. ListInv(w)
  BY DEF BackupInv, WriterInv
<1>2. QED
  BY <1>1 DEF ListInv

\* What is published and what is installed is readable and of one time, but for what is known to
\* be mixed, and cleanups keep the newest archives: for any number of backups, restores and
\* deletions at the same time, each failing or crashing at any step.
THEOREM BackupsStaySound == BackupSpec => BackupsAreSound
<1>0. BackupInv' => FilesBelongTogether'
  BY TogetherFollows, PTL
<1>1. BackupInv /\ [BackupNext]_backupVars => [FilesBelongTogether' /\ NewestAreKept]_backupVars
  BY BackupNextInv, CleanupKeeps, <1>0
<1>2. QED
  BY BackupInitInv, BackupNextInv, <1>1, PTL DEF BackupSpec, BackupsAreSound

=================================================================================
