----------------------------- MODULE Supervisor -----------------------------
(***************************************************************************)
(* run_vnc_env.py: it starts the VNC server, the game and the controller,  *)
(* and then looks every five seconds whether all three still run.          *)
(*                                                                         *)
(* A process started through a shell (the game, the controller) runs some  *)
(* time after its Popen, or never; any process may end at any time.  The   *)
(* VNC server is pointed at a window by its title, and started only while  *)
(* exactly one window has it; an explorer window of the game's folder has  *)
(* the same title (vnc.py).  What the server then shows is left out.       *)
(***************************************************************************)
EXTENDS FiniteSets, Naturals

Processes == {"vnc", "controller", "gtav"}

VARIABLES
  running,     \* what tasklist lists
  launched,    \* started through a shell, not running yet
  gameWindow,  \* the game has opened its window
  folder,      \* the user has the game's folder open
  runner,      \* where the script is
  seen,        \* running_procs
  started      \* started

supervisorVars == <<running, launched, gameWindow, folder, runner, seen, started>>

RunnerStep ==
  {"killController", "findGame", "killCompeting", "startGame", "waitGame",
   "killVnc", "startVnc", "findWindow", "findWindowAgain", "shareWindow",
   "startController", "cleanup", "killLeftovers", "look", "judge", "raised"}

SupervisorTypeOK ==
  /\ running \subseteq Processes
  /\ launched \subseteq {"gtav", "controller"}
  /\ gameWindow \in BOOLEAN /\ folder \in BOOLEAN
  /\ runner \in RunnerStep
  /\ seen \subseteq Processes
  /\ started \in BOOLEAN
  /\ gameWindow => "gtav" \in running

\* Anything may be left over from an earlier run.
InitSupervisor ==
  /\ running \in SUBSET Processes
  /\ launched = {}
  /\ gameWindow \in {FALSE, "gtav" \in running}
  /\ folder \in BOOLEAN
  /\ runner = "killController"
  /\ seen = {} /\ started = FALSE

-----------------------------------------------------------------------------
(* The machine.                                                            *)

\* Ended processes take their window with them.
End(P) ==
  /\ running' = running \ P
  /\ gameWindow' = (gameWindow /\ "gtav" \notin P)

Begin(p) == running' = running \union {p}

Appear(p) ==
  /\ p \in launched
  /\ launched' = launched \ {p}
  /\ Begin(p)
  /\ UNCHANGED <<gameWindow, folder, runner, seen, started>>

Crash(p) ==
  /\ p \in running
  /\ End({p})
  /\ UNCHANGED <<launched, folder, runner, seen, started>>

OpenGameWindow ==
  /\ "gtav" \in running /\ ~ gameWindow
  /\ gameWindow' = TRUE
  /\ UNCHANGED <<running, launched, folder, runner, seen, started>>

ToggleFolder ==
  /\ folder' = ~ folder
  /\ UNCHANGED <<running, launched, gameWindow, runner, seen, started>>

Machine ==
  \/ \E p \in Processes : Appear(p) \/ Crash(p)
  \/ OpenGameWindow
  \/ ToggleFolder

-----------------------------------------------------------------------------
(* The script.                                                             *)

RunnerAt(from, to) == runner = from /\ runner' = to

\* taskkill of the processes P.
Kill(P, from, to) ==
  /\ RunnerAt(from, to)
  /\ End(P)
  /\ UNCHANGED <<launched, folder, seen, started>>

Goto(from, to) ==
  /\ RunnerAt(from, to)
  /\ UNCHANGED <<running, launched, gameWindow, folder, seen, started>>

\* A Popen through a shell, which succeeds whether or not the program starts.
Launch(p, from, to) ==
  /\ RunnerAt(from, to)
  /\ launched' = launched \union {p}
  /\ UNCHANGED <<running, gameWindow, folder, seen, started>>

KillController == Kill({"controller"}, "killController", "findGame")

FindGame ==
  Goto("findGame", IF "gtav" \in running THEN "killVnc" ELSE "killCompeting")

KillCompeting == Kill({"vnc", "controller"}, "killCompeting", "startGame")

StartGame == Launch("gtav", "startGame", "waitGame")

\* while not processes_are_running(GTA5.exe): without a limit.
WaitGame == "gtav" \in running /\ Goto("waitGame", "killVnc")

KillVnc == Kill({"vnc"}, "killVnc", "startVnc")

StartVnc ==
  /\ RunnerAt("startVnc", "findWindow")
  /\ Begin("vnc")
  /\ UNCHANGED <<launched, gameWindow, folder, seen, started>>

Titles == {w \in {"game", "folder"} : (w = "game" /\ gameWindow) \/ (w = "folder" /\ folder)}

\* configure_tvnserver_command returns when exactly one window has the title;
\* it runs once for the log and once for the command.
FindWindow == Cardinality(Titles) = 1 /\ Goto("findWindow", "findWindowAgain")

FindWindowAgain ==
  Cardinality(Titles) = 1 /\ Goto("findWindowAgain", "shareWindow")

\* A second tvnserver tells the running one to show the window of that title.
ShareWindow == Goto("shareWindow", "startController")

StartController == Launch("controller", "startController", "look")

\* try_stuff: an exception of popen, such as a Popen of a missing program.
PopenFails ==
  \/ Goto("startVnc", "cleanup")
  \/ Goto("shareWindow", "cleanup")
  \/ Goto("startController", "cleanup")

Look ==
  /\ RunnerAt("look", "judge")
  /\ seen' = running
  /\ UNCHANGED <<running, launched, gameWindow, folder, started>>

\* Variant: the latest look alone counts.
Judge_Forgets ==
  /\ RunnerAt("judge", "look")
  /\ started' = (seen = Processes)
  /\ seen' = {}
  /\ UNCHANGED <<running, launched, gameWindow, folder>>

Judge ==
  /\ RunnerAt("judge", IF seen # Processes /\ started THEN "cleanup" ELSE "look")
  /\ started' = (started \/ seen = Processes)
  /\ seen' = {}
  /\ UNCHANGED <<running, launched, gameWindow, folder>>

\* popen_cleanup: the handles first.  The controller's is the handle of its
\* shell, and the game is left running on purpose.
Cleanup == Kill({"vnc"}, "cleanup", "killLeftovers")

\* Variant: the handles are all there is to kill.
KillLeftovers_Skipped == Goto("killLeftovers", "raised")

KillLeftovers == Kill({"vnc", "controller"}, "killLeftovers", "raised")

Runner ==
  \/ KillController \/ FindGame \/ KillCompeting \/ StartGame \/ WaitGame
  \/ KillVnc \/ StartVnc \/ FindWindow \/ FindWindowAgain \/ ShareWindow
  \/ StartController \/ Look \/ Judge \/ Cleanup \/ KillLeftovers

NextSupervisor == Machine \/ Runner \/ PopenFails

SupervisorSpec == InitSupervisor /\ [][NextSupervisor]_supervisorVars

\* The script runs on; what the processes and the user do is up to them.
FairSupervisor == SupervisorSpec /\ WF_supervisorVars(Runner)

-----------------------------------------------------------------------------
(* Properties.                                                             *)

(* When the script gives up, neither a VNC server nor a controller is left to
   disturb its next run, although the handle it kills is the shell's and not
   the controller's own (run_vnc_env.py:112, 127-143, 222). *)
NothingLeftBehind ==
  runner = "raised" => running \union launched \subseteq {"gtav"}

(* Once the script has seen all three, it does not miss that one is gone: it
   reports it, or the three are complete again and again
   (run_vnc_env.py:214-224). *)
SeenCrashIsReported ==
  <>started => (<>(runner = "raised") \/ []<>(running = Processes))
=============================================================================
