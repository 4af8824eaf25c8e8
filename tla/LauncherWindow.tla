---------------------------- MODULE LauncherWindow ----------------------------
(***************************************************************************)
(* One desktop launcher from the inside (src/packaging/windows): the       *)
(* startup worker and the tray icon talk to the window through two queues, *)
(* the window hides behind the tray once the application is ready, and     *)
(* shows itself again with a way out when anything fails.  Left out: texts *)
(* and phases, the tray's commands to open things, and what other          *)
(* launchers do (DesktopInstance).                                         *)
(***************************************************************************)
EXTENDS Integers, SequencesExt

CONSTANTS
  MaxFaults,      \* bound: failures of the window, and attempts to spawn a child that fail
  None

VARIABLES
  faults,
  running,        \* the process
  startup,        \* where the worker is
  application,    \* its application thread
  queued,         \* LauncherController.events
  commands,       \* TrayCommandDispatcher
  view,           \* LauncherState
  visible,        \* the window is not withdrawn
  tray            \* the icon; "none" until it is started

windowVars == <<faults, running, startup, application, queued, commands, view, visible, tray>>

Codes == {"no_free_port", "readiness_timeout", "app_thread_failure", "browser_open_failure",
          "startup_failure", "relaunch_failure"}

ASSUME WindowAssumption == MaxFaults \in Nat /\ None \notin Codes

Views == [attempt : Nat, ready : BOOLEAN, owns : BOOLEAN, closed : BOOLEAN, recovery : Codes \cup {None}]

WindowTypeOK ==
  /\ faults \in 0..MaxFaults /\ {running, visible} \subseteq BOOLEAN
  /\ startup \in {"prepare", "follow", "wait", "open", "join", "done"}
  /\ application \in {"none", "up", "stopped"}
  /\ view \in Views /\ tray \in {"none", "starting", "shown", "failed"}
  /\ \A i \in DOMAIN commands : commands[i] \in {"quit", "startup_failed"}

Event(a, kind, value) == [attempt |-> a, kind |-> kind, value |-> value]
Mine     == 1        \* the attempt of the worker; Retry starts others
FreshView(a) == [attempt |-> a, ready |-> FALSE, owns |-> FALSE, closed |-> FALSE, recovery |-> None]

WindowInit ==
  /\ faults = 0 /\ running = TRUE /\ visible = TRUE /\ tray = "none"
  /\ startup = "prepare" /\ application = "none"
  /\ queued = <<>> /\ commands = <<>> /\ view = FreshView(1)

(***************************************************************************)
(* StartupRunner.run                                                       *)
(***************************************************************************)
Emit(kind, value) == queued' = Append(queued, Event(Mine, kind, value))
Fail(code)        == Emit("error", code) /\ startup' = "done"

Work ==
  /\ running
  /\ \/ startup = "prepare" /\ startup' \in {"follow", "wait"} /\ UNCHANGED queued
        /\ application' = IF startup' = "wait" THEN "up" ELSE "none"
     \/ startup = "prepare" /\ \E c \in {"no_free_port", "readiness_timeout", "startup_failure"} : Fail(c)
        /\ UNCHANGED application
     \/ startup = "wait" /\ application = "up" /\ startup' = "open" /\ UNCHANGED <<queued, application>>
     \/ startup = "wait" /\ application = "up" /\ Fail("readiness_timeout") /\ UNCHANGED application
     \/ startup = "wait" /\ application = "stopped" /\ Fail("app_thread_failure") /\ UNCHANGED application
     \/ startup \in {"follow", "open"} /\ Fail("browser_open_failure") /\ UNCHANGED application
     \/ startup = "open" /\ Emit("ready", TRUE) /\ startup' = "join" /\ UNCHANGED application
     \/ /\ startup = "follow" /\ startup' = "done"
        /\ queued' = queued \o <<Event(Mine, "ready", FALSE), Event(Mine, "exit", None)>>
        /\ UNCHANGED application
     \/ startup = "join" /\ application = "stopped" /\ Fail("app_thread_failure") /\ UNCHANGED application
     \/ startup = "join" /\ application = "stopped" /\ Emit("exit", None) /\ startup' = "done"
        /\ UNCHANGED application
  /\ UNCHANGED <<faults, running, commands, view, visible, tray>>

ApplicationEnds ==
  /\ running /\ application = "up" /\ application' = "stopped"
  /\ UNCHANGED <<faults, running, startup, queued, commands, view, visible, tray>>

(***************************************************************************)
(* The tray's own thread.                                                  *)
(***************************************************************************)
TraySetup ==
  /\ running /\ tray = "starting"
  /\ \/ tray' = "shown" /\ UNCHANGED commands
     \/ tray' = "failed" /\ commands' = Append(commands, "startup_failed")
  /\ UNCHANGED <<faults, running, startup, application, queued, view, visible>>

\* The tray's Quit, or the window's close button.
AskToQuit ==
  /\ running /\ (visible \/ tray = "shown") /\ "quit" \notin {commands[i] : i \in DOMAIN commands}
  /\ commands' = Append(commands, "quit")
  /\ UNCHANGED <<faults, running, startup, application, queued, view, visible, tray>>

(***************************************************************************)
(* The UI thread: poll, with all that it calls.                            *)
(***************************************************************************)

\* LauncherController._apply; an event of an earlier attempt is dropped.
Apply(v, e) ==
  CASE e.attempt # v.attempt -> v
    [] e.attempt = v.attempt /\ e.kind = "ready" -> [v EXCEPT !.ready = TRUE, !.owns = e.value]
    [] e.attempt = v.attempt /\ e.kind = "error" ->
         [v EXCEPT !.ready = (e.value = "browser_open_failure"), !.recovery = e.value]
    [] e.attempt = v.attempt /\ e.kind = "exit" -> [v EXCEPT !.closed = TRUE]

\* _recover_ui_failure_type
Recovered(v) == [v EXCEPT !.ready = FALSE, !.recovery = "startup_failure"]

\* _show_tray_failure leaves an earlier recovery alone.
TrayFailure(v) == IF v.recovery # None THEN v ELSE Recovered(v)

\* _render_full
ShownBy(v) == v.recovery # None \/ (visible /\ ~(v.ready /\ v.owns))

\* _ensure_tray_started
WantsTray(v) == tray = "none" /\ v.ready /\ v.recovery = None /\ v.owns

\* Mutant of Handled: a window that is ready takes the icon for started.
HandledUnlessReady(v) ==
  IF "startup_failed" \in {commands[i] : i \in DOMAIN commands} /\ ~v.ready THEN TrayFailure(v) ELSE v

Handled(v) == IF "startup_failed" \in {commands[i] : i \in DOMAIN commands} THEN TrayFailure(v) ELSE v

End == running' = FALSE /\ UNCHANGED <<faults, view, visible, tray>>

PollWindow ==
  LET drained == FoldLeft(Apply, Handled(view), queued) IN
  /\ running
  /\ commands' = <<>>
  /\ IF "quit" \in {commands[i] : i \in DOMAIN commands} \/ drained.closed
       THEN End /\ queued' = <<>>
       ELSE /\ UNCHANGED running
            /\ \/ \* nothing fails; the tray's thread is started after the window has hidden
                  /\ queued' = <<>> /\ view' = drained /\ visible' = ShownBy(drained)
                  /\ tray' = IF WantsTray(drained) THEN "starting" ELSE tray
                  /\ UNCHANGED faults
               \/ \* the tray cannot be started
                  /\ faults < MaxFaults /\ faults' = faults + 1
                  /\ WantsTray(drained) /\ queued' = <<>>
                  /\ tray' = "failed" /\ view' = TrayFailure(drained) /\ visible' = ShownBy(view')
               \/ \* a command raises, or rendering does
                  /\ faults < MaxFaults /\ faults' = faults + 1
                  /\ \/ view' = Recovered(Handled(view)) /\ UNCHANGED queued
                     \/ view' = Recovered(drained) /\ queued' = <<>>
                  /\ visible' = TRUE /\ UNCHANGED tray
  /\ UNCHANGED <<startup, application>>

\* _retry: a fresh launcher, and the end of this one; or no child can be spawned.
Retry ==
  /\ running /\ visible /\ view.recovery # None
  /\ \/ End /\ UNCHANGED queued
     \/ /\ faults < MaxFaults /\ faults' = faults + 1
        /\ view' = FreshView(view.attempt + 1)
        /\ queued' = Append(queued, Event(view.attempt + 1, "error", "relaunch_failure"))
        /\ UNCHANGED <<running, visible, tray>>
  /\ UNCHANGED <<startup, application, commands>>

WindowNext == Work \/ ApplicationEnds \/ TraySetup \/ AskToQuit \/ PollWindow \/ Retry

WindowSpec == WindowInit /\ [][WindowNext]_windowVars

Pending(kind) == \E i \in DOMAIN queued : queued[i].kind = kind /\ queued[i].attempt = view.attempt

\* "A tray-start failure never hides the only control path": between two polls the user
\* has the window or the icon, or is about to get one of them back.
ControlPath ==
  running => visible \/ tray \in {"starting", "shown"} \/ "startup_failed" \in {commands[i] : i \in DOMAIN commands}

\* A window that is hidden hears of the end of its application: the worker still waits for
\* it on behalf of the attempt that is shown, or has told it.
EndIsHeard ==
  running /\ ~visible => (startup = "join" /\ view.attempt = Mine) \/ Pending("exit") \/ Pending("error")

NeverOutOfReach == ControlPath /\ EndIsHeard
=============================================================================
