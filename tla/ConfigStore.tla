----------------------------- MODULE ConfigStore -----------------------------
(***************************************************************************)
(* The settings (app/config.py): a dict in memory, which save() changes in *)
(* place and _load() replaces, and config.json, which save() truncates and *)
(* writes anew.  Four web threads call save(); after a save on the         *)
(* settings page the same thread reloads the file (main.py,                *)
(* _handle_config_changed).  No lock and no temporary file is involved.    *)
(*                                                                         *)
(* A configuration is the set of saves whose settings it holds: every      *)
(* request saves keys of its own, beside those of the setup wizard.        *)
(***************************************************************************)
CONSTANTS
  Requests,   \* web requests, each with one save
  Settings,   \* those from the settings page, which reload the file
  Setup,      \* the save that completed the setup: is_configured()
  Truncated,  \* config.json after open("w"), before its contents are flushed
  Garbage,    \* config.json that is no JSON
  Serial,     \* bound on the environment: requests wait for each other
  Faults      \* bound on the environment: writes fail, the process crashes

ASSUME ConfigAssumption ==
  /\ Settings \subseteq Requests /\ Setup \notin Requests
  /\ Serial \in BOOLEAN /\ Faults \in BOOLEAN

VARIABLES
  disk,       \* config.json
  dict,       \* the dicts: one per process start, one per reload
  current,    \* the dict _file_config refers to
  pc,         \* [Requests -> where the request is]
  dumped,     \* [Requests -> the dict json.dump walks through]
  seen,       \* [Requests -> what that dict held when the walk began]
  acked,      \* history: the saves that were answered with success
  torn        \* history: the process started or reloaded from an unreadable file

configVars == <<disk, dict, current, pc, dumped, seen, acked, torn>>

Saves   == Requests \cup {Setup}
Configs == SUBSET Saves
Dicts   == Requests \cup {Setup}
Final   == {"done", "failed", "lost"}
Active(r) == pc[r] \notin Final \cup {"idle"}
AtRest  == \A r \in Requests : ~Active(r)
Readable == disk \notin {Truncated, Garbage}

TypeOK ==
  /\ disk \in Configs \cup {Truncated, Garbage}
  /\ dict \in [Dicts -> Configs]
  /\ current \in Dicts
  /\ pc \in [Requests -> {"idle", "open", "dump", "close", "reload"} \cup Final]
  /\ dumped \in [Requests -> Dicts]
  /\ seen \in [Requests -> Configs]
  /\ acked \subseteq Saves
  /\ torn \in BOOLEAN

\* A process that runs on a finished setup.
ConfigInit ==
  /\ disk = {Setup}
  /\ dict = [d \in Dicts |-> IF d = Setup THEN {Setup} ELSE {}]
  /\ current = Setup
  /\ pc = [r \in Requests |-> "idle"]
  /\ dumped = [r \in Requests |-> Setup]
  /\ seen = [r \in Requests |-> {}]
  /\ acked = {Setup}
  /\ torn = FALSE

Go(r, from, to) == pc[r] = from /\ pc' = [pc EXCEPT ![r] = to]

---------------------------------------------------------------------------
\* Mutant of Merge: the new settings replace the old ones.
MergeReplaces(r) ==
  /\ Serial => AtRest
  /\ Go(r, "idle", "open")
  /\ dict' = [dict EXCEPT ![current] = {r}]
  /\ UNCHANGED <<disk, current, dumped, seen, acked, torn>>

\* save(), up to the merge with _file_config.
Merge(r) ==
  /\ Serial => AtRest
  /\ Go(r, "idle", "open")
  /\ dict' = [dict EXCEPT ![current] = @ \cup {r}]
  /\ UNCHANGED <<disk, current, dumped, seen, acked, torn>>

\* open(config_path, "w") empties the file, or fails before it does.
Open(r) ==
  /\ Go(r, "open", "dump")
  /\ disk' = Truncated
  /\ UNCHANGED <<dict, current, dumped, seen, acked, torn>>

OpenFails(r) ==
  /\ Faults
  /\ Go(r, "open", "failed")
  /\ UNCHANGED <<disk, dict, current, dumped, seen, acked, torn>>

\* json.dump evaluates _file_config and begins to walk through the dict.
Dump(r) ==
  /\ Go(r, "dump", "close")
  /\ dumped' = [dumped EXCEPT ![r] = current]
  /\ seen' = [seen EXCEPT ![r] = dict[current]]
  /\ UNCHANGED <<disk, dict, current, acked, torn>>

\* Mutant of Written: the data of the request alone.
WrittenDataOnly(r) == {{r}}

\* What the walk may have written: settings merged meanwhile or not.
Written(r) == {c \in Configs : seen[r] \subseteq c /\ c \subseteq dict[dumped[r]]}

\* Contents are flushed at offset 0: over a longer file, one with settings they
\* lack, they leave its tail.
Overwrite(c) == IF Readable /\ ~(disk \subseteq c) THEN {c, Garbage} ELSE {c}

Answer(r) ==
  /\ Go(r, "close", IF r \in Settings THEN "reload" ELSE "done")
  /\ acked' = IF r \in Settings THEN acked ELSE acked \cup {r}

\* The walk ends, and closing the file flushes what it wrote.
Close(r) ==
  /\ Answer(r)
  /\ \E c \in Written(r) : disk' \in Overwrite(c)
  /\ UNCHANGED <<dict, current, dumped, seen, torn>>

\* A dict that grew under the walk raises RuntimeError; a full disk cuts the
\* contents off.  Closing the file flushes the part that was written, which
\* changes nothing in a file another save has just written from that dict.
CloseFails(r) ==
  /\ Faults \/ dict[dumped[r]] # seen[r]
  /\ Go(r, "close", "failed")
  /\ disk' = IF Readable THEN disk ELSE Garbage
  /\ UNCHANGED <<dict, current, dumped, seen, acked, torn>>

\* _load: an unreadable file counts as an empty configuration.
Loaded == IF Readable THEN disk ELSE {}

\* _handle_config_changed, and the answer.
Reload(r) ==
  /\ Go(r, "reload", "done")
  /\ dict' = [dict EXCEPT ![r] = Loaded]
  /\ current' = r
  /\ acked' = acked \cup {r}
  /\ torn' = (torn \/ ~Readable)
  /\ UNCHANGED <<disk, dumped, seen>>

\* The process ends at any point and starts again.
Crash ==
  /\ Faults
  /\ pc' = [r \in Requests |-> IF Active(r) THEN "lost" ELSE pc[r]]
  /\ dict' = [dict EXCEPT ![Setup] = Loaded]
  /\ current' = Setup
  /\ torn' = (torn \/ ~Readable)
  /\ UNCHANGED <<disk, dumped, seen, acked>>

ConfigNext ==
  \/ Crash
  \/ \E r \in Requests :
       \/ Merge(r) \/ Open(r) \/ OpenFails(r) \/ Dump(r)
       \/ Close(r) \/ CloseFails(r) \/ Reload(r)

ConfigSpec == ConfigInit /\ [][ConfigNext]_configVars

---------------------------------------------------------------------------
\* With saves that wait for each other the process keeps every setting it
\* answered for, through failed writes and crashes, unless it read a file that
\* a crash had left unreadable; and so does the file, whenever it can be read: a failed
\* write or a crash leaves the old contents, the new ones or none, never some of them.
AnswersAreKept ==
  Serial /\ ~torn =>
    /\ acked \subseteq dict[current]
    /\ Readable => acked \subseteq disk

\* A file spoilt by a failed write is healed by the next save: what that save
\* writes is all the process knows.
SaveHeals(r) ==
  Serial /\ pc[r] = "close" /\ pc'[r] \in {"reload", "done"} => disk' = dict[current]

\* Saves that wait for each other keep what they were answered for (config.py,
\* save), in memory through every failure but a crash, in the file as long as it
\* can be read, and from the next save on again if it could not.
SavesAreKept ==
  [][AnswersAreKept' /\ \A r \in Requests : SaveHeals(r)]_configVars

\* ARCHITECTURE.md:256: "All shared state is protected by locks".  Then web
\* requests at the same time lose no setting they were answered for.
NoSaveIsLost == AtRest /\ ~Faults => Readable /\ acked \subseteq disk
=============================================================================
