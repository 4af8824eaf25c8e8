---------------------------- MODULE DesktopInstance ----------------------------
(***************************************************************************)
(* The launchers of one Windows user (src/packaging/windows): who owns the *)
(* named mutex, whom runtime.json names, and which of them runs the        *)
(* application, while launchers are started twice, retried, quit, killed   *)
(* and replaced by fresh ones.  Left out: how a port is found, and what    *)
(* the window shows (LauncherWindow).                                      *)
(***************************************************************************)
EXTENDS Integers

CONSTANTS
  MaxLaunchers,   \* bound: processes
  MaxStarts,      \* bound: of them, those the user may start
  MaxKills        \* bound: processes that end without any cleanup

ASSUME LauncherAssumption == {MaxLaunchers, MaxStarts, MaxKills} \subseteq Nat

Launchers  == 1..MaxLaunchers       \* in the order in which they are started
NoLauncher == 0

VARIABLES
  kills,
  life,           \* of each process
  parent,         \* the launcher whose handle it inherited
  retried,        \* BIND_RETRY_ENV in its environment
  step,           \* where its startup worker and its UI thread are
  found,          \* the record its coordinate() has read
  mutex,          \* the process that owns the named mutex
  record,         \* the process that runtime.json names
  owner, published, closed,       \* fields of its DesktopInstance
  app,            \* its application thread
  portLost,       \* the application could not bind
  closeRequested, \* of its ServerLifecycleController
  overtaken       \* history: one thread was in cleanup() and the other inside the DesktopInstance

instanceVars == <<kills, life, parent, retried, step, found, mutex, record, owner, published, closed,
                  app, portLost, closeRequested, overtaken>>

Threads  == {"startup", "ui"}
Cleaning == {"load", "unlink", "release"}
Inside   == Cleaning \cup {"clear", "publish", "write"}      \* a method of DesktopInstance
Running  == {"starting", "serving", "closing"}

InstanceTypeOK ==
  /\ kills \in 0..MaxKills
  /\ life \in [Launchers -> {"unborn", "alive", "gone"}]
  /\ {mutex, record} \subseteq Launchers \cup {NoLauncher}
  /\ {parent, found} \subseteq [Launchers -> Launchers \cup {NoLauncher}]
  /\ {retried, owner, published, closed, portLost, closeRequested} \subseteq [Launchers -> BOOLEAN]
  /\ app \in [Launchers -> Running \cup {"none", "stopped"}]
  /\ \A p \in Launchers : step[p] \in
       [startup : Cleaning \cup {"handoff", "coordinate", "probe", "clear", "publish", "write", "await",
                                 "relaunch", "join", "ended", "failed", "terminate"},
        ui      : Cleaning \cup {"window", "join", "terminate"}]

At(p, t, s)  == life[p] = "alive" /\ step[p][t] = s
Goto(p, t, to) == step' = [step EXCEPT ![p][t] = to]

InstanceInit ==
  /\ kills = 0 /\ mutex = NoLauncher /\ record = NoLauncher /\ overtaken = FALSE
  /\ life = [p \in Launchers |-> "unborn"]
  /\ parent = [p \in Launchers |-> NoLauncher] /\ found = parent
  /\ retried = [p \in Launchers |-> FALSE]
  /\ owner = retried /\ published = retried /\ closed = retried
  /\ portLost = retried /\ closeRequested = retried
  /\ step = [p \in Launchers |-> [startup |-> "coordinate", ui |-> "window"]]
  /\ app = [p \in Launchers |-> "none"]

Unborn(p) == life[p] = "unborn" /\ \A q \in 1..(p - 1) : life[q] # "unborn"

\* The user starts a launcher.
Launch(p) ==
  /\ Unborn(p) /\ p <= MaxStarts /\ life' = [life EXCEPT ![p] = "alive"]
  /\ UNCHANGED <<kills, parent, retried, step, found, mutex, record, owner, published, closed,
                 app, portLost, closeRequested, overtaken>>

(***************************************************************************)
(* The startup worker.                                                     *)
(***************************************************************************)

\* wait_for_previous_launcher: until the parent is gone, or 10 s.
HandOff(p) ==
  /\ At(p, "startup", "handoff")
  /\ Goto(p, "startup", IF life[parent[p]] = "gone" THEN "coordinate" ELSE "failed")
  /\ parent' = [parent EXCEPT ![p] = NoLauncher]
  /\ UNCHANGED <<kills, life, retried, found, mutex, record, owner, published, closed,
                 app, portLost, closeRequested, overtaken>>

\* Mutant of Acquire: an owner that does not answer is taken for dead.
AcquireFromSilent(p) ==
  /\ At(p, "startup", "coordinate") /\ ~closed[p]
  /\ mutex = NoLauncher \/ (record # NoLauncher /\ app[record] # "serving")
  /\ mutex' = p /\ owner' = [owner EXCEPT ![p] = TRUE] /\ Goto(p, "startup", "clear")
  /\ UNCHANGED <<kills, life, parent, retried, found, record, published, closed,
                 app, portLost, closeRequested, overtaken>>

\* A turn of coordinate(): the mutex, or else the record (read at once), or in the end neither.
Acquire(p) ==
  /\ At(p, "startup", "coordinate") /\ ~closed[p] /\ mutex = NoLauncher
  /\ mutex' = p /\ owner' = [owner EXCEPT ![p] = TRUE]
  /\ Goto(p, "startup", "clear")
  /\ overtaken' = (overtaken \/ step[p].ui \in Cleaning)
  /\ UNCHANGED <<kills, life, parent, retried, found, record, published, closed,
                 app, portLost, closeRequested>>

Occupied(p) ==
  /\ At(p, "startup", "coordinate") /\ ~closed[p] /\ mutex # NoLauncher /\ record # NoLauncher
  /\ found' = [found EXCEPT ![p] = record] /\ Goto(p, "startup", "probe")
  /\ UNCHANGED <<kills, life, parent, retried, mutex, record, owner, published, closed,
                 app, portLost, closeRequested, overtaken>>

\* _is_valid_running_state: only the server that exported the token answers to it.
Valid(p) == life[p] = "alive" /\ app[p] = "serving"

\* A follower opens the browser and ends; its window follows the EXIT event.
ProbeOwner(p) ==
  /\ At(p, "startup", "probe")
  /\ closed' = [closed EXCEPT ![p] = @ \/ Valid(found[p])]
  /\ found' = [found EXCEPT ![p] = NoLauncher]
  /\ Goto(p, "startup", IF Valid(found[p]) THEN "ended" ELSE "coordinate")
  /\ UNCHANGED <<kills, life, parent, retried, mutex, record, owner, published,
                 app, portLost, closeRequested, overtaken>>

\* Not ready in 10 s, a record that cannot be read, or a window that closed meanwhile.
GiveUp(p) ==
  /\ At(p, "startup", "coordinate")
  /\ closed' = [closed EXCEPT ![p] = TRUE] /\ Goto(p, "startup", "failed")
  /\ UNCHANGED <<kills, life, parent, retried, found, mutex, record, owner, published,
                 app, portLost, closeRequested, overtaken>>

\* _become_owner: a record that the last owner left goes first; if it cannot be removed,
\* or the process cannot identify itself, ownership is given up again.
ClearRecord(p) ==
  /\ At(p, "startup", "clear")
  /\ \/ record' = NoLauncher /\ Goto(p, "startup", "publish") /\ UNCHANGED <<mutex, owner, closed>>
     \/ /\ record' \in {record, NoLauncher} /\ Goto(p, "startup", "failed")
        /\ mutex' = IF mutex = p THEN NoLauncher ELSE mutex
        /\ owner' = [owner EXCEPT ![p] = FALSE] /\ closed' = [closed EXCEPT ![p] = TRUE]
  /\ UNCHANGED <<kills, life, parent, retried, found, published, app, portLost, closeRequested,
                 overtaken>>

\* select_port and publish: checked, written, and then the application thread; or no port,
\* or no record.
PublishRecord(p) ==
  /\ At(p, "startup", "publish")
  /\ \E to \in {"failed"} \cup IF owner[p] /\ ~closed[p] THEN {"write"} ELSE {} : Goto(p, "startup", to)
  /\ UNCHANGED <<kills, life, parent, retried, found, mutex, record, owner, published, closed,
                 app, portLost, closeRequested, overtaken>>

WriteRecord(p) ==
  /\ At(p, "startup", "write")
  /\ \/ /\ record' = p /\ published' = [published EXCEPT ![p] = TRUE]
        /\ app' = [app EXCEPT ![p] = "starting"] /\ Goto(p, "startup", "await")
     \/ Goto(p, "startup", "failed") /\ UNCHANGED <<record, published, app>>
  /\ UNCHANGED <<kills, life, parent, retried, found, mutex, owner, closed,
                 portLost, closeRequested, overtaken>>

\* _wait_for_ready and open_browser.  Late, or without a browser, the worker ends and the
\* application goes on.
Await(p) ==
  /\ At(p, "startup", "await")
  /\ \/ /\ app[p] = "stopped"
        /\ Goto(p, "startup", IF portLost[p] /\ ~closeRequested[p] /\ ~retried[p] THEN "relaunch" ELSE "failed")
        /\ UNCHANGED retried
     \/ Valid(p) /\ retried' = [retried EXCEPT ![p] = FALSE] /\ \E to \in {"join", "failed"} : Goto(p, "startup", to)
     \/ app[p] # "stopped" /\ Goto(p, "startup", "failed") /\ UNCHANGED retried
  /\ UNCHANGED <<kills, life, parent, found, mutex, record, owner, published, closed,
                 app, portLost, closeRequested, overtaken>>

\* The application ended: by itself (EXIT) or with an exception.
Joined(p) ==
  /\ At(p, "startup", "join") /\ app[p] = "stopped"
  /\ \E to \in {"ended", "failed"} : Goto(p, "startup", to)
  /\ UNCHANGED <<kills, life, parent, retried, found, mutex, record, owner, published, closed,
                 app, portLost, closeRequested, overtaken>>

(***************************************************************************)
(* The application thread.                                                 *)
(***************************************************************************)
AppStep(p) ==
  /\ life[p] = "alive"
  /\ \/ /\ app[p] = "starting"
        /\ app' = [app EXCEPT ![p] = IF closeRequested[p] THEN "closing" ELSE "serving"]   \* attach
        /\ UNCHANGED portLost
     \/ app[p] = "starting" /\ app' = [app EXCEPT ![p] = "stopped"] /\ portLost' = [portLost EXCEPT ![p] = TRUE]
     \/ app[p] \in Running /\ app' = [app EXCEPT ![p] = "stopped"] /\ UNCHANGED portLost
  /\ UNCHANGED <<kills, life, parent, retried, step, found, mutex, record, owner, published, closed,
                 closeRequested, overtaken>>

(***************************************************************************)
(* The UI thread.                                                          *)
(***************************************************************************)

\* DesktopShutdown.request: Quit, or the window follows EXIT.
Quit(p) ==
  /\ At(p, "ui", "window")
  /\ closeRequested' = [closeRequested EXCEPT ![p] = TRUE]
  /\ app' = [app EXCEPT ![p] = IF @ = "serving" THEN "closing" ELSE @]
  /\ Goto(p, "ui", "join")
  /\ UNCHANGED <<kills, life, parent, retried, found, mutex, record, owner, published, closed,
                 portLost, overtaken>>

\* worker.join: until the worker is done, or 12 s.  The worker of coordinate() is bounded
\* by 10 s, so a worker that is still busy waits for the application or relaunches.
JoinEnds(p) ==
  /\ At(p, "ui", "join")
  /\ step[p].startup \notin {"handoff", "coordinate", "probe", "clear", "publish", "write"}
  /\ Goto(p, "ui", IF closed[p] THEN "terminate" ELSE "load")
  /\ overtaken' = (overtaken \/ (~closed[p] /\ step[p].startup \in Inside))
  /\ UNCHANGED <<kills, life, parent, retried, found, mutex, record, owner, published, closed,
                 app, portLost, closeRequested>>

(***************************************************************************)
(* Relaunch, cleanup and the end, by either thread.                        *)
(***************************************************************************)

\* relaunch_launcher: the child inherits a handle of this process, which then cleans up.
\* If no child can be spawned, nothing else happens.  The window offers Retry after a
\* failure of the startup, and of the window or the tray, which can come at any time.
Relaunch(p, t) ==
  /\ \/ t = "startup" /\ At(p, t, "relaunch")
     \/ t = "ui" /\ At(p, t, "window")
  /\ \/ \E q \in Launchers :
          /\ Unborn(q) /\ life' = [life EXCEPT ![q] = "alive"]
          /\ parent' = [parent EXCEPT ![q] = p] /\ retried' = [retried EXCEPT ![q] = (t = "startup")]
          /\ step' = [step EXCEPT ![q].startup = "handoff", ![p][t] = IF closed[p] THEN "terminate" ELSE "load"]
          /\ overtaken' = (overtaken \/ (~closed[p] /\ \E u \in Threads \ {t} : step[p][u] \in Inside))
     \/ t = "startup" /\ Goto(p, t, "failed") /\ UNCHANGED <<life, parent, retried, overtaken>>
  /\ UNCHANGED <<kills, found, mutex, record, owner, published, closed, app, portLost, closeRequested>>

\* cleanup(): the record only if it is this owner's, read first and removed then.
LoadOwn(p, t) ==
  /\ At(p, t, "load")
  /\ Goto(p, t, IF owner[p] /\ published[p] /\ record = p THEN "unlink" ELSE "release")
  /\ UNCHANGED <<kills, life, parent, retried, found, mutex, record, owner, published, closed,
                 app, portLost, closeRequested, overtaken>>

Unlink(p, t) ==
  /\ At(p, t, "unlink")
  /\ record' \in {record, NoLauncher}       \* it may be held open by another program
  /\ Goto(p, t, "release")
  /\ UNCHANGED <<kills, life, parent, retried, found, mutex, owner, published, closed,
                 app, portLost, closeRequested, overtaken>>

ReleaseMutex(p, t) ==
  /\ At(p, t, "release")
  /\ mutex' = IF mutex = p THEN NoLauncher ELSE mutex
  /\ owner' = [owner EXCEPT ![p] = FALSE] /\ closed' = [closed EXCEPT ![p] = TRUE]
  /\ Goto(p, t, "terminate")
  /\ UNCHANGED <<kills, life, parent, retried, found, record, published,
                 app, portLost, closeRequested, overtaken>>

\* The process is gone, and all it knew with it; a mutex it held is abandoned.
Gone(p) ==
  /\ life' = [life EXCEPT ![p] = "gone"]
  /\ mutex' = IF mutex = p THEN NoLauncher ELSE mutex
  /\ step' = [step EXCEPT ![p] = [startup |-> "coordinate", ui |-> "window"]] /\ app' = [app EXCEPT ![p] = "none"]
  /\ parent' = [parent EXCEPT ![p] = NoLauncher] /\ found' = [found EXCEPT ![p] = NoLauncher]
  /\ retried' = [retried EXCEPT ![p] = FALSE] /\ closed' = [closed EXCEPT ![p] = FALSE]
  /\ owner' = [owner EXCEPT ![p] = FALSE] /\ published' = [published EXCEPT ![p] = FALSE]
  /\ portLost' = [portLost EXCEPT ![p] = FALSE]
  /\ closeRequested' = [closeRequested EXCEPT ![p] = FALSE]
  /\ UNCHANGED <<record, overtaken>>

Terminate(p, t) == At(p, t, "terminate") /\ Gone(p) /\ UNCHANGED kills
Kill(p)         == life[p] = "alive" /\ kills < MaxKills /\ kills' = kills + 1 /\ Gone(p)

InstanceNext ==
  \E p \in Launchers :
    \/ Launch(p) \/ HandOff(p) \/ Acquire(p) \/ Occupied(p) \/ ProbeOwner(p) \/ GiveUp(p)
    \/ ClearRecord(p) \/ PublishRecord(p) \/ WriteRecord(p) \/ Await(p) \/ Joined(p) \/ AppStep(p)
    \/ Quit(p) \/ JoinEnds(p) \/ Kill(p)
    \/ \E t \in Threads : Relaunch(p, t) \/ LoadOwn(p, t) \/ Unlink(p, t) \/ ReleaseMutex(p, t) \/ Terminate(p, t)

InstanceSpec == InstanceInit /\ [][InstanceNext]_instanceVars

\* "or leave a second owner": two launchers run the application at once only while one of
\* them has nothing left to do but to end, however they were started, retried or killed.
Leaving(p)  == \E t \in Threads : step[p][t] = "terminate"
OneServes ==
  \A p, q \in Launchers :
    p # q /\ app[p] \in Running /\ app[q] \in Running => Leaving(p) \/ Leaving(q)

\* "Remove only this owner's state": the record names the owner from the moment it is
\* published until the owner cleans up; nobody else removes or replaces it.
RecordNamesOwner ==
  \A p \in Launchers :
    life[p] = "alive" /\ owner[p] /\ published[p] /\ (\A t \in Threads : step[p][t] \notin Cleaning)
      => record = p \/ overtaken

OwnershipIsSound == OneServes /\ RecordNamesOwner
=============================================================================
