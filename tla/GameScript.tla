----------------------------- MODULE GameScript -----------------------------
(***************************************************************************)
(* The script's thread inside the game (Script::deep_drive): what a tick   *)
(* does with the player's vehicle, the camera and the keyboard.            *)
(*                                                                         *)
(* The script asks the game for the player's vehicle only once in every    *)
(* RefreshTicks ticks, keeps the answer, and measures that vehicle.  The   *)
(* player may change vehicles, the agent the camera and the window thread  *)
(* the key states between any two steps of a tick.                         *)
(*                                                                         *)
(* reset_agent is one step here: its stores are those of ResetHandshake.   *)
(* A camera offset stands for the three axes.  Nothing ever assigns        *)
(* curr_cam_x_offset and its fellows, so that they are NoOffset for good.  *)
(* No code raises should_game_drive, so that nothing is driven by the      *)
(* game.  The clock's unit is the WAIT of one tick.                        *)
(***************************************************************************)
EXTENDS Integers

CONSTANTS
  Vehicle,       \* the ids of the game's vehicles, all positive
  Offset,        \* camera offsets
  NoOffset,      \* the zero offset
  ResetOffset,   \* the offset that reset_agent sets
  RefreshTicks,  \* 100 in the code
  NowPeriod,     \* 100 ms in the code
  TickCounts,    \* GetTickCount() counts modulo this: 2^32 in the code
  MaxEvents      \* bound on what happens outside the script

ASSUME ScriptAssumption ==
  /\ Vehicle \subseteq Nat \ {0}
  /\ NoOffset \in Offset /\ ResetOffset \in Offset \ {NoOffset}
  /\ RefreshTicks \in Nat \ {0}
  /\ TickCounts \in Nat \ {0} /\ NowPeriod \in 0 .. TickCounts - 1
  /\ MaxEvents \in Nat

Unknown == -1     \* the vehicle before the first refresh
OnFoot == 0

Key == {"F10", "F11"}

VARIABLES
  script,     \* where the script's thread is in its tick
  iter,       \* iter % 100
  vehicle,    \* the script's idea of the player's vehicle
  attach,     \* set_camera has found that it needs a new camera
  first_camera_load,
  camera,     \* the vehicle deep_drive_cam is attached to, and where
  rendered,   \* the camera the game renders: "original" or "script"
  show_debug_status_text,
  inUse,      \* the vehicle the player is using
  use_custom_camera, desired, should_reset_agent,   \* SharedAgentMemory
  controller, \* "idle", or "use" between the two stores of change_settings
  window,     \* "idle", or the key whose message the window thread is storing
  keyStates,  \* of each key, when it last moved and whether it went up
  clock,      \* GetTickCount()
  events      \* what has happened outside the script so far

VARIABLES     \* history, read by no action
  staleFor,   \* WAITs since inUse changed, up to RefreshTicks + 1
  owed        \* keys that went up and were not acted upon since

cameraVars  == <<attach, first_camera_load, camera, rendered>>
sharedVars  == <<use_custom_camera, desired, should_reset_agent>>
scriptVars  == <<script, iter, vehicle, cameraVars, show_debug_status_text>>
outsideVars == <<inUse, controller, clock, events, staleFor>>
vars == <<scriptVars, sharedVars, outsideVars, window, keyStates, owed>>

Step == {"refresh", "attach", "drive", "toggle", "poll", "consume", "reset",
         "measure", "wait"}

\* What memset leaves of a key, and what every key starts as.
Cleared == [time |-> 0, isUpNow |-> FALSE]

TypeOK ==
  /\ script \in Step /\ iter \in 0 .. RefreshTicks - 1
  /\ vehicle \in Vehicle \union {Unknown, OnFoot}
  /\ attach \in BOOLEAN /\ first_camera_load \in BOOLEAN
  /\ camera \in [on : Vehicle \union {OnFoot}, at : Offset]
  /\ rendered \in {"original", "script"}
  /\ show_debug_status_text \in BOOLEAN
  /\ inUse \in Vehicle \union {OnFoot}
  /\ use_custom_camera \in BOOLEAN /\ desired \in Offset
  /\ should_reset_agent \in BOOLEAN
  /\ controller \in {"idle", "use"}
  /\ window \in Key \union {"idle"}
  /\ keyStates \in [Key -> [time : 0 .. TickCounts - 1, isUpNow : BOOLEAN]]
  /\ clock \in 0 .. TickCounts - 1
  /\ events \in 0 .. MaxEvents
  /\ staleFor \in 0 .. RefreshTicks + 1
  /\ owed \subseteq Key

\* Script::main has run reset_agent once.
Init ==
  /\ script = "refresh" /\ iter = 0 /\ vehicle = Unknown
  /\ attach = FALSE /\ first_camera_load = TRUE
  /\ camera = [on |-> OnFoot, at |-> NoOffset] /\ rendered = "original"
  /\ show_debug_status_text = FALSE
  /\ inUse \in Vehicle \union {OnFoot}
  /\ use_custom_camera = FALSE /\ desired = ResetOffset
  /\ should_reset_agent = FALSE
  /\ controller = "idle"
  /\ window = "idle"
  /\ keyStates = [k \in Key |-> Cleared]
  /\ clock = 0 /\ events = 0
  /\ staleFor = 0 /\ owed = {}

-----------------------------------------------------------------------------
(* The script's thread.                                                    *)

From(step) == script = step

\* Variant: the offsets are not compared.
NeedsCamera_SameOffset(v) == first_camera_load \/ vehicle # v

\* set_camera's condition for a new camera, on the vehicle v.
NeedsCamera(v) == first_camera_load \/ vehicle # v \/ desired # NoOffset

\* After the refresh, with a vehicle the tick goes on, without one it waits.
Proceed(v) == IF v > 0 THEN "drive" ELSE "wait"

\* Variant: the refresh keeps the vehicle it knows, as long as it has one.
Refresh_KeepsVehicle ==
  /\ From("refresh") /\ iter = 0
  /\ vehicle' = IF vehicle > 0 THEN vehicle ELSE inUse
  /\ script' = Proceed(vehicle')
  /\ UNCHANGED <<iter, cameraVars, show_debug_status_text, sharedVars,
                 outsideVars, window, keyStates, owed>>

\* refresh, and set_camera up to the new camera.
Refresh ==
  /\ From("refresh") /\ iter = 0
  /\ vehicle' = inUse
  /\ attach' = (use_custom_camera /\ inUse # OnFoot /\ NeedsCamera(inUse))
  /\ rendered' = IF use_custom_camera /\ inUse = OnFoot THEN "original" ELSE rendered
  /\ script' = IF attach' THEN "attach" ELSE Proceed(inUse)
  /\ UNCHANGED <<iter, first_camera_load, camera, show_debug_status_text,
                 sharedVars, outsideVars, window, keyStates, owed>>

NoRefresh ==
  /\ From("refresh") /\ iter # 0
  /\ script' = Proceed(vehicle)
  /\ UNCHANGED <<iter, vehicle, cameraVars, show_debug_status_text, sharedVars,
                 outsideVars, window, keyStates, owed>>

\* The offsets are read again.
Attach ==
  /\ From("attach")
  /\ attach' = FALSE
  /\ camera' = [on |-> vehicle, at |-> desired]
  /\ rendered' = "script"
  /\ first_camera_load' = FALSE
  /\ script' = Proceed(vehicle)
  /\ UNCHANGED <<iter, vehicle, show_debug_status_text, sharedVars, outsideVars,
                 window, keyStates, owed>>

\* DWORD arithmetic: the end of the period wraps, and the clock with it.
IsKeyJustUp(k) ==
  /\ clock < (keyStates[k].time + NowPeriod) % TickCounts
  /\ keyStates[k].isUpNow

Drive ==
  /\ From("drive")
  /\ script' = IF IsKeyJustUp("F10") THEN "toggle" ELSE "poll"
  /\ UNCHANGED <<iter, vehicle, cameraVars, show_debug_status_text, sharedVars,
                 outsideVars, window, keyStates, owed>>

\* Variant: isKeyJustUp is not asked for exclusive use.
Consume_Shared(k) ==
  /\ owed' = owed \ {k}
  /\ UNCHANGED keyStates

\* A key is acted upon: resetKeyState clears its state.
Consume(k) ==
  /\ keyStates' = [keyStates EXCEPT ![k] = Cleared]
  /\ owed' = owed \ {k}

Toggle ==
  /\ From("toggle")
  /\ Consume("F10")
  /\ show_debug_status_text' = ~ show_debug_status_text
  /\ script' = "poll"
  /\ UNCHANGED <<iter, vehicle, cameraVars, sharedVars, outsideVars, window>>

\* The key is not looked at when the flag is up.
Poll ==
  /\ From("poll")
  /\ script' = IF should_reset_agent THEN "reset"
               ELSE IF IsKeyJustUp("F11") THEN "consume" ELSE "measure"
  /\ UNCHANGED <<iter, vehicle, cameraVars, show_debug_status_text, sharedVars,
                 outsideVars, window, keyStates, owed>>

ConsumeF11 ==
  /\ From("consume")
  /\ Consume("F11")
  /\ script' = "reset"
  /\ UNCHANGED <<iter, vehicle, cameraVars, show_debug_status_text, sharedVars,
                 outsideVars, window>>

\* reset_agent, and the flag lowered: the camera goes on being rendered.
ResetAgent ==
  /\ From("reset")
  /\ use_custom_camera' = FALSE
  /\ desired' = ResetOffset
  /\ should_reset_agent' = FALSE
  /\ script' = "measure"
  /\ UNCHANGED <<iter, vehicle, cameraVars, show_debug_status_text, outsideVars,
                 window, keyStates, owed>>

\* set_reward_and_info_shared_mem measures `vehicle', whichever is in use.
Measure ==
  /\ From("measure")
  /\ script' = "wait"
  /\ UNCHANGED <<iter, vehicle, cameraVars, show_debug_status_text, sharedVars,
                 outsideVars, window, keyStates, owed>>

Tick(n) == (n + 1) % TickCounts

\* WAIT lets the clock move by one tick, and iter goes up.
Wait ==
  /\ From("wait")
  /\ clock' = Tick(clock)
  /\ staleFor' = IF staleFor > RefreshTicks THEN staleFor ELSE staleFor + 1
  /\ iter' = IF iter = RefreshTicks - 1 THEN 0 ELSE iter + 1
  /\ script' = "refresh"
  /\ UNCHANGED <<vehicle, cameraVars, show_debug_status_text, sharedVars, inUse,
                 controller, events, window, keyStates, owed>>

Script == \/ Refresh \/ NoRefresh \/ Attach \/ Drive \/ Toggle \/ Poll
          \/ ConsumeF11 \/ ResetAgent \/ Measure \/ Wait

-----------------------------------------------------------------------------
(* Everything else.                                                        *)

Event == events < MaxEvents /\ events' = events + 1

\* The player gets into a vehicle, or out of one.
Board ==
  /\ Event
  /\ inUse' \in (Vehicle \union {OnFoot}) \ {inUse}
  /\ staleFor' = 0
  /\ UNCHANGED <<scriptVars, sharedVars, controller, clock, window, keyStates, owed>>

\* change_settings of the agent: use_custom_camera is set, or an offset...
SetUse ==
  /\ Event /\ controller = "idle"
  /\ use_custom_camera' \in BOOLEAN
  /\ UNCHANGED <<scriptVars, desired, should_reset_agent, inUse, controller,
                 clock, staleFor, window, keyStates, owed>>

SetOffset ==
  /\ Event /\ controller = "idle"
  /\ desired' \in Offset
  /\ controller' = "use"
  /\ UNCHANGED <<scriptVars, use_custom_camera, should_reset_agent, inUse,
                 clock, staleFor, window, keyStates, owed>>

\* ... and then use_custom_camera with it.
SetUseToo ==
  /\ controller = "use"
  /\ use_custom_camera' = TRUE
  /\ controller' = "idle"
  /\ UNCHANGED <<scriptVars, desired, should_reset_agent, inUse, clock, events,
                 staleFor, window, keyStates, owed>>

RequestReset ==
  /\ Event
  /\ should_reset_agent' = TRUE
  /\ UNCHANGED <<scriptVars, use_custom_camera, desired, inUse, controller,
                 clock, staleFor, window, keyStates, owed>>

\* The window thread: a key goes down or up.  The time is stored first...
OnKeyboardMessage ==
  /\ Event /\ window = "idle"
  /\ window' \in Key
  /\ keyStates' = [keyStates EXCEPT ![window'].time = clock]
  /\ UNCHANGED <<scriptVars, sharedVars, inUse, controller, clock, staleFor, owed>>

\* ... and then which of the two it was.
StoreIsUpNow ==
  /\ window \in Key
  /\ \E up \in BOOLEAN :
       /\ keyStates' = [keyStates EXCEPT ![window].isUpNow = up]
       /\ owed' = IF up THEN owed \union {window} ELSE owed
  /\ window' = "idle"
  /\ UNCHANGED <<scriptVars, sharedVars, outsideVars>>

Outside == Board \/ SetUse \/ SetOffset \/ SetUseToo \/ RequestReset
           \/ OnKeyboardMessage \/ StoreIsUpNow

Next == Script \/ Outside

\* The script's thread goes on, and so does a handler that has begun.
Fairness == WF_vars(Script) /\ WF_vars(SetUseToo)

Spec == Init /\ [][Next]_vars /\ Fairness

-----------------------------------------------------------------------------
(* Properties.                                                             *)

\* What is measured, and scored, is the vehicle in use, unless the player
\* changed vehicles less than one refresh period ago.
MeasuresVehicleInUse ==
  script = "measure" /\ staleFor >= RefreshTicks => vehicle = inUse

\* A key that went up once is acted upon at most once, though it counts as
\* "just up" for many ticks and the window thread writes its state meanwhile.
KeyActsOnce ==
  [][/\ show_debug_status_text' # show_debug_status_text => "F10" \in owed
     /\ script = "consume" /\ script' = "reset" => "F11" \in owed]_vars

\* An agent that asks for a camera, with some offset, has it rendered on the
\* vehicle in use and at that offset in the end, whatever went on before.  An
\* offset of zero is not honoured unless the vehicle changes as well.
CameraFollows ==
  \A v \in Vehicle, at \in Offset \ {NoOffset} :
    <>[](inUse = v /\ use_custom_camera /\ desired = at)
      => <>[](camera = [on |-> v, at |-> at] /\ rendered = "script")

=============================================================================
