---------------------------- MODULE ModuleSwitches ----------------------------
(***************************************************************************)
(* Enabling, disabling, installing and removing modules, of which one      *)
(* threshold profile and one theme at least should stay enabled            *)
(* (app/blueprints/modules_bp.py).  Handlers of several web threads read   *)
(* disabled_modules, ask the loader, whose list is that of the start, and  *)
(* save the whole setting.  Left out: what a module contributes, and why   *)
(* a download or a manifest is rejected.                                   *)
(***************************************************************************)
EXTENDS Integers, FiniteSets

CONSTANTS
  Profiles, Themes,     \* modules of which only one should be active
  Shipped,              \* built-in ones; the others are of the community
  Clients,              \* web threads
  MaxRequests           \* bound

Modules   == Profiles \cup Themes
Community == Modules \ Shipped

ASSUME SwitchAssumption ==
  /\ Profiles \cap Themes = {} /\ Shipped \subseteq Modules /\ MaxRequests \in Nat

VARIABLES
  disabled,     \* disabled_modules
  onDisk,       \* community modules below MODULES_DIR with a manifest
  started,      \* community modules whose directory exists, but no manifest yet
  loaded,       \* loader.get_modules()
  work,         \* of each client: what it does, with which modules, and what it has read
  asked,
  removed,      \* history: modules removed since the start
  overlapped    \* history: clients since whose beginning another saved, installed or removed

switchVars == <<disabled, onDisk, started, loaded, work, asked, removed, overlapped>>

Idle       == [does |-> "nothing", with |-> {}, read |-> {}]
Group(m)   == IF m \in Profiles THEN Profiles ELSE Themes
Others(m)  == (Group(m) \cap loaded) \ {m}
Installed  == Shipped \cup onDisk

SwitchInit ==
  /\ disabled = {} /\ onDisk = {} /\ started = {} /\ loaded = Shipped
  /\ work = [c \in Clients |-> Idle] /\ asked = 0 /\ removed = {} /\ overlapped = {}

Busy(c)      == work[c] # Idle
Doing(c, step)  == work[c].does = step
To(c, step, M, read) == work' = [work EXCEPT ![c] = [does |-> step, with |-> M, read |-> read]]
Begin(c)     == ~Busy(c) /\ asked < MaxRequests /\ asked' = asked + 1 /\ overlapped' = overlapped \ {c}
Overlap(c)   == overlapped' = overlapped \cup {d \in Clients \ {c} : Busy(d)}

\* api_module_enable: the other ones of its kind are disabled with it.
Enable(c, m) ==
  /\ Begin(c) /\ m \in loaded
  /\ To(c, "save", {m}, (disabled \cup Others(m)) \ {m})
  /\ UNCHANGED <<disabled, onDisk, started, loaded, removed>>

\* Mutant of MayDisable: the module itself counts.
MayDisableCountsItself(m) == (Group(m) \cap loaded) \ disabled # {}

\* "Cannot disable the only active threshold profile."
MayDisable(m) == Others(m) \ disabled # {}

\* api_module_disable: the setting is read for the test, and again for the change.
Disable(c, m) ==
  /\ Begin(c) /\ m \in loaded /\ MayDisable(m)
  /\ To(c, "disable", {m}, {})
  /\ UNCHANGED <<disabled, onDisk, started, loaded, removed>>

ReadAgain(c) ==
  /\ Doing(c, "disable")
  /\ To(c, "save", work[c].with, disabled \cup work[c].with)
  /\ UNCHANGED <<disabled, onDisk, started, loaded, asked, removed, overlapped>>

\* api_modules_batch: "Exactly one threshold profile must be active."
Batch(c, on, off) ==
  /\ Begin(c) /\ on \cup off # {} /\ on \cap off = {} /\ on \cup off \subseteq Profiles \cap loaded
  /\ LET wish == (disabled \ on) \cup off
     IN  /\ Cardinality((Profiles \cap loaded) \ wish) = 1
         /\ To(c, "save", on \cup off, wish)
  /\ UNCHANGED <<disabled, onDisk, started, loaded, removed>>

Save(c) ==
  /\ work[c].does \in {"save", "save_new"}
  /\ disabled' = work[c].read
  /\ work' = [work EXCEPT ![c] = Idle] /\ Overlap(c)
  /\ UNCHANGED <<onDisk, started, loaded, asked, removed>>

\* api_modules_install and api_themes_install: only if there is nothing of the name; ...
InstallModule(c, m) ==
  /\ Begin(c) /\ m \in Community /\ m \notin onDisk \cup started
  /\ m \in Profiles => m \notin loaded
  /\ To(c, "download", {m}, {})
  /\ UNCHANGED <<disabled, onDisk, started, loaded, removed>>

MakeDirectory(c) ==
  /\ Doing(c, "download")
  /\ started' = started \cup work[c].with
  /\ To(c, "validate", work[c].with, {})
  /\ UNCHANGED <<disabled, onDisk, loaded, asked, removed, overlapped>>

\* ... a failed download or a bad manifest removes the directory, whoever else fills it.
Downloaded(c) ==
  /\ Doing(c, "validate")
  /\ started' = started \ work[c].with /\ Overlap(c)
  /\ \/ /\ work[c].with \subseteq started \cup onDisk
        /\ onDisk' = onDisk \cup work[c].with
        /\ IF work[c].with \subseteq Profiles THEN To(c, "forbid", work[c].with, {})
           ELSE work' = [work EXCEPT ![c] = Idle]
     \/ onDisk' = onDisk \ work[c].with /\ work' = [work EXCEPT ![c] = Idle]
  /\ UNCHANGED <<disabled, loaded, asked, removed>>

\* "Persist as disabled-by-default"
Forbid(c) ==
  /\ Doing(c, "forbid")
  /\ To(c, "save_new", work[c].with, disabled \cup work[c].with)
  /\ UNCHANGED <<disabled, onDisk, started, loaded, asked, removed, overlapped>>

\* api_modules_uninstall: the directory goes, and then the entry in disabled_modules.
Uninstall(c, m) ==
  /\ Begin(c) /\ m \in onDisk
  /\ To(c, "remove", {m}, {})
  /\ UNCHANGED <<disabled, onDisk, started, loaded, removed>>

RemoveModule(c) ==
  /\ Doing(c, "remove")
  /\ onDisk' = onDisk \ work[c].with /\ removed' = removed \cup work[c].with
  /\ To(c, "permit", work[c].with, {}) /\ Overlap(c)
  /\ UNCHANGED <<disabled, started, loaded, asked>>

Permit(c) ==
  /\ Doing(c, "permit")
  /\ To(c, "save", work[c].with, disabled \ work[c].with)
  /\ UNCHANGED <<disabled, onDisk, started, loaded, asked, removed, overlapped>>

\* The process ends, in the middle of requests, and starts again: load_all.
Restart ==
  /\ loaded' = Installed /\ removed' = {}
  /\ work' = [c \in Clients |-> Idle] /\ overlapped' = {}
  /\ UNCHANGED <<disabled, onDisk, started, asked>>

SwitchNext ==
  \/ Restart
  \/ \E c \in Clients :
       \/ ReadAgain(c) \/ Save(c) \/ MakeDirectory(c) \/ Downloaded(c) \/ Forbid(c) \/ RemoveModule(c) \/ Permit(c)
       \/ \E m \in Modules : Enable(c, m) \/ Disable(c, m) \/ InstallModule(c, m) \/ Uninstall(c, m)
       \/ \E on, off \in SUBSET Profiles : Batch(c, on, off)

SwitchSpec == SwitchInit /\ [][SwitchNext]_switchVars

---------------------------------------------------------------------------
\* What the next start finds enabled, without modules whose installation is not done.
Arriving  == UNION {work[c].with : c \in {d \in Clients : work[d].does \in {"forbid", "save_new"}}}
LeftOf(G) == ((G \cap Installed) \ Arriving) \ disabled

\* Whatever is enabled, disabled and installed, the next start finds a threshold profile
\* and a theme enabled: the last ones go only by a request that overlapped another, or
\* after one of their kind was removed, which the loader's list does not show.
OneIsLeft ==
  [][\A G \in {Profiles, Themes} :
       LeftOf(G) # {} /\ LeftOf(G)' = {} =>
         \/ (removed' \cap G) # {}
         \/ \E c \in overlapped : work[c] # work'[c]]_switchVars

\* "Cannot disable the only active threshold profile. Enable a different one first.",
\* "Exactly one threshold profile must be active.": no request that disables modules,
\* alone or in a batch, takes the last profile away.
DisablingLeavesAProfile ==
  [][\A c \in Clients :
       Doing(c, "save") /\ work[c].with \subseteq disabled' \ disabled /\ LeftOf(Profiles) # {}
         => LeftOf(Profiles)' # {}]_switchVars
=============================================================================
