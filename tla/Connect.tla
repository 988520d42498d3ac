------------------------------ MODULE Connect -------------------------------
(***************************************************************************)
(* How the controller gets hold of the game, and reloads it.               *)
(*                                                                         *)
(* The main thread runs GTAVEnv::connect: it looks for the shared memory   *)
(* the game script maps, and either reuses the running game or mashes keys *)
(* until the story mode has loaded.  The websocket server has been         *)
(* listening since before, so that Env::reset and change_settings may run  *)
(* on its thread at any moment of this.                                    *)
(*                                                                         *)
(* Both threads reload the game with the same reset_game: a sequence of    *)
(* keystrokes, then a wait until the clock the script publishes has moved. *)
(* The game (external) takes the last key and starts loading some time     *)
(* later; while it loads its script does not tick.                         *)
(***************************************************************************)
EXTENDS Naturals

CONSTANTS
  SkipLoading,   \* skip_loading_saved_game_: sleep for a second instead
  MaxResets      \* bound on the agent's reset requests

ASSUME ConnectAssumption ==
  /\ SkipLoading \in BOOLEAN
  /\ MaxResets \in Nat

Thread == {"main", "server"}

VARIABLES
  game,      \* "menu": story mode not loaded, "driving", "onFoot", "loading"
  mapped,    \* the script has created the shared memory
  asked,     \* the keys of a reload are in, the game has not begun it
  shared,    \* shared_ points to the mapping
  main,      \* where the main thread is
  server,    \* where the server's thread is
  moved,     \* for each thread: the clock has moved since it read it
  resets,    \* reset requests so far
  crashed    \* the controller has used shared_ while it was null

connectVars == <<game, mapped, asked, shared, main, server, moved, resets, crashed>>

GameState == {"menu", "driving", "onFoot", "loading"}

Reloading == {"keys", "read", "sleep", "compare"}

ConnectTypeOK ==
  /\ game \in GameState
  /\ mapped \in BOOLEAN /\ asked \in BOOLEAN
  /\ shared \in BOOLEAN /\ crashed \in BOOLEAN
  /\ main \in {"probe", "minute", "mash", "probeLong", "reset", "loop"} \union Reloading
  /\ server \in {"idle", "before", "reset", "after"} \union Reloading
  /\ moved \in [Thread -> BOOLEAN]
  /\ resets \in 0 .. MaxResets
  /\ shared => mapped
  /\ game # "menu" => mapped
  /\ (main \in {"reset", "loop"} \union Reloading) => shared

\* The controller starts next to a game at its menu or in the middle of play.
InitConnect ==
  /\ game \in {"menu", "driving", "onFoot"}
  /\ mapped = (game # "menu")
  /\ asked = FALSE
  /\ shared = FALSE
  /\ main = "probe"
  /\ server = "idle"
  /\ moved = [t \in Thread |-> FALSE]
  /\ resets = 0
  /\ crashed = FALSE

-----------------------------------------------------------------------------
(* The game and its script.                                                *)

Controller == <<shared, main, server, resets, crashed>>

\* allocate_shared_agent_memory: Script::main maps the memory, or takes over the
\* mapping of an earlier script.  Windows refuses neither here.
AllocateSharedMemory == mapped' = TRUE

\* Story mode loads once the player, or a lucky key, has chosen it.
LoadStory ==
  /\ game = "menu"
  /\ game' \in {"driving", "onFoot"}
  /\ AllocateSharedMemory
  /\ UNCHANGED <<asked, moved, Controller>>

\* The script publishes the clock only while the player sits in a vehicle.
Tick ==
  /\ game = "driving"
  /\ moved' = [t \in Thread |-> TRUE]
  /\ UNCHANGED <<game, mapped, asked, Controller>>

BeginLoading ==
  /\ asked
  /\ asked' = FALSE
  /\ game' = "loading"
  /\ UNCHANGED <<mapped, moved, Controller>>

EndLoading ==
  /\ game = "loading"
  /\ game' \in {"driving", "onFoot"}
  /\ UNCHANGED <<mapped, asked, moved, Controller>>

\* The player gets in or out.
Walk ==
  /\ game \in {"driving", "onFoot"}
  /\ game' \in {"driving", "onFoot"} \ {game}
  /\ UNCHANGED <<mapped, asked, moved, Controller>>

-----------------------------------------------------------------------------
(* The main thread: connect.                                               *)

MainAt(from, to) == main = from /\ main' = to

Alive == ~ crashed

Environment == <<game, mapped, asked, server, moved, resets, crashed>>

\* wait_for_shared_agent_memory: the mapping as soon as there is one, or null
\* after as many milliseconds as it is given.
WaitForSharedMemory == shared' = mapped

\* Ten milliseconds: is the game already open?
Probe ==
  /\ Alive
  /\ MainAt("probe", IF mapped THEN "reset" ELSE "minute")
  /\ WaitForSharedMemory
  /\ UNCHANGED Environment

\* A minute of sleep, then try_loading_story_mode, which has no effect that
\* the game is sure to take.
Minute == Alive /\ MainAt("minute", "mash") /\ UNCHANGED <<shared, Environment>>

Mash == Alive /\ MainAt("mash", "probeLong") /\ UNCHANGED <<shared, Environment>>

\* Twenty seconds for each round of keys.
ProbeLong ==
  /\ Alive
  /\ MainAt("probeLong", IF mapped THEN "loop" ELSE "mash")
  /\ WaitForSharedMemory
  /\ UNCHANGED Environment

-----------------------------------------------------------------------------
(* reset_game, on either thread.                                           *)

At(t, from, to) ==
  IF t = "main" THEN MainAt(from, to) /\ UNCHANGED server
                ELSE server = from /\ server' = to /\ UNCHANGED main

Done(t) == IF t = "main" THEN "loop" ELSE "after"

ResetGame(t) ==
  /\ Alive
  /\ At(t, "reset", IF SkipLoading THEN "read" ELSE "keys")
  /\ UNCHANGED <<game, mapped, asked, shared, moved, resets, crashed>>

\* The last key of load_saved_game.  Keys of two sequences that meet in the
\* menu may choose anything, which is left out.
Keys(t) ==
  /\ Alive
  /\ At(t, "keys", "read")
  /\ asked' \in {TRUE, asked}
  /\ UNCHANGED <<game, mapped, shared, moved, resets, crashed>>

\* Variant: one copy of game_seconds for both threads.
Read_Static(t) ==
  /\ Alive
  /\ At(t, "read", "sleep")
  /\ moved' = [u \in Thread |-> FALSE]
  /\ UNCHANGED <<game, mapped, asked, shared, resets, crashed>>

Read(t) ==
  /\ Alive
  /\ At(t, "read", "sleep")
  /\ moved' = [moved EXCEPT ![t] = FALSE]
  /\ UNCHANGED <<game, mapped, asked, shared, resets, crashed>>

\* 311 ms, some ten seconds of the game's clock: if the game runs, it has moved.
Sleep(t) ==
  /\ Alive
  /\ At(t, "sleep", "compare")
  /\ game = "driving" => moved[t]
  /\ UNCHANGED <<game, mapped, asked, shared, moved, resets, crashed>>

Compare(t) ==
  /\ Alive
  /\ At(t, "compare", IF moved[t] THEN Done(t) ELSE "read")
  /\ UNCHANGED <<game, mapped, asked, shared, moved, resets, crashed>>

Reload(t) == ResetGame(t) \/ Keys(t) \/ Read(t) \/ Sleep(t) \/ Compare(t)

-----------------------------------------------------------------------------
(* The server's thread.                                                    *)

\* Env::reset.  The server handles one message after the other, and connect()
\* does not take the lock.
ResetRequest ==
  /\ Alive
  /\ server = "idle" /\ server' = "before"
  /\ resets < MaxResets
  /\ resets' = resets + 1
  /\ UNCHANGED <<game, mapped, asked, shared, main, moved, crashed>>

\* before_reset writes the destination to *shared_.
BeforeReset ==
  /\ Alive
  /\ server = "before" /\ server' = "reset"
  /\ crashed' = ~ shared
  /\ UNCHANGED <<game, mapped, asked, shared, main, moved, resets>>

AfterReset ==
  /\ Alive
  /\ server = "after" /\ server' = "idle"
  /\ UNCHANGED <<game, mapped, asked, shared, main, moved, resets, crashed>>

\* A camera setting: stored to *shared_ as well.
SettingsRequest ==
  /\ Alive
  /\ server = "idle"
  /\ crashed' = ~ shared
  /\ UNCHANGED <<game, mapped, asked, shared, main, server, moved, resets>>

Main   == Probe \/ Minute \/ Mash \/ ProbeLong \/ Reload("main")
Server == BeforeReset \/ Reload("server") \/ AfterReset
Game   == LoadStory \/ Tick \/ BeginLoading \/ EndLoading \/ Walk

NextConnect == Main \/ Server \/ Game \/ ResetRequest \/ SettingsRequest

ConnectSpec == InitConnect /\ [][NextConnect]_connectVars

\* The threads run, the clock of a running game moves, and a load ends.  That
\* story mode is chosen, or that the player sits in a car, is not assumed.
FairConnect ==
  /\ ConnectSpec
  /\ WF_connectVars(Main)
  /\ WF_connectVars(Server)
  /\ WF_connectVars(Tick)
  /\ WF_connectVars(EndLoading)

-----------------------------------------------------------------------------
(* Properties.                                                             *)

(* Both threads' waits end, if the player is in a vehicle from some time on and
   nothing has used the memory before it was there: connect() reaches its loop,
   and every reset ends and gives the lock back.  Two threads that wait for the
   clock do not take each other's movement away (GTAVEnv.cpp:70-90, Env.h:53-61,
   GTAVKeyboardController.cpp:96-107). *)
WaitsEnd ==
  <>[](game = "driving") =>
    /\ <>(main = "loop" \/ crashed)
    /\ server = "before" ~> (server = "idle" \/ crashed)
=============================================================================
