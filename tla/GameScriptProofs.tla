-------------------------- MODULE GameScriptProofs --------------------------
(***************************************************************************)
(* Proofs about the script's tick for any vehicles, offsets and periods.   *)
(*                                                                         *)
(* The vehicle in use can differ from the one the script knows only if it  *)
(* changed since the last refresh, iter ticks ago (Known); before the next *)
(* refresh that is RefreshTicks at most.  A key that the script has found  *)
(* just up, or could still find so, is owed an action (Owing).             *)
(***************************************************************************)
EXTENDS GameScript, TLAPS

\* WAITs since the last refresh, which the step "refresh" is about to repeat.
SinceRefresh == IF script = "refresh" /\ iter = 0 THEN RefreshTicks ELSE iter

Known == vehicle = inUse \/ staleFor <= SinceRefresh

Owing ==
  /\ \A k \in Key : keyStates[k].isUpNow => k \in owed
  /\ script = "toggle" => "F10" \in owed
  /\ script = "consume" => "F11" \in owed

\* set_camera attaches the camera to a vehicle, never to nothing.
Attaching == script = "attach" => vehicle \in Vehicle

IInv == TypeOK /\ Attaching /\ Known /\ Owing

(* The first tick is about to refresh, and no key is up. *)
LEMMA InitIInv == Init => IInv
<1> SUFFICES ASSUME Init PROVE IInv
  OBVIOUS
<1> USE ScriptAssumption DEF Init, OnFoot, Unknown
<1>1. keyStates \in [Key -> [time : 0 .. TickCounts - 1, isUpNow : BOOLEAN]]
  BY DEF Cleared
<1>2. camera \in [on : Vehicle \union {OnFoot}, at : Offset]
  OBVIOUS
<1>3. TypeOK
  <2>1. script \in Step
    BY DEF Step
  <2>2. iter \in 0 .. RefreshTicks - 1
    OBVIOUS
  <2>3. vehicle \in Vehicle \union {Unknown, OnFoot}
    OBVIOUS
  <2>4. /\ attach \in BOOLEAN /\ first_camera_load \in BOOLEAN
        /\ rendered \in {"original", "script"}
        /\ show_debug_status_text \in BOOLEAN
    OBVIOUS
  <2>5. /\ inUse \in Vehicle \union {OnFoot}
        /\ use_custom_camera \in BOOLEAN /\ desired \in Offset
        /\ should_reset_agent \in BOOLEAN
        /\ controller \in {"idle", "use"}
    OBVIOUS
  <2>6. /\ clock \in 0 .. TickCounts - 1
        /\ events \in 0 .. MaxEvents
        /\ staleFor \in 0 .. RefreshTicks + 1
        /\ owed \subseteq Key
        /\ window \in Key \union {"idle"}
    OBVIOUS
  <2> QED
    BY <1>1, <1>2, <2>1, <2>2, <2>3, <2>4, <2>5, <2>6 DEF TypeOK
<1>4. Attaching /\ Known
  BY DEF Attaching, Known, SinceRefresh
<1>5. Owing
  BY DEF Owing, Cleared
<1> QED
  BY <1>3, <1>4, <1>5 DEF IInv

(* A step of the script keeps the inductive invariant. *)
LEMMA ScriptStep == IInv /\ Script => IInv'
<1> SUFFICES ASSUME IInv, Script PROVE IInv'
  OBVIOUS
<1> USE ScriptAssumption
    DEF IInv, TypeOK, Attaching, Known, Owing, SinceRefresh, From, Step, Key, Unknown,
        OnFoot, Proceed, sharedVars, outsideVars, cameraVars
<1>1. CASE Refresh
  BY <1>1 DEF Refresh
<1>2. CASE NoRefresh
  BY <1>2 DEF NoRefresh
<1>3. CASE Attach
  BY <1>3 DEF Attach
<1>4. CASE Drive
  BY <1>4 DEF Drive, IsKeyJustUp
<1>5. CASE Toggle
  BY <1>5 DEF Toggle, Consume, Cleared
<1>6. CASE Poll
  BY <1>6 DEF Poll, IsKeyJustUp
<1>7. CASE ConsumeF11
  BY <1>7 DEF ConsumeF11, Consume, Cleared
<1>8. CASE ResetAgent
  <2>1. /\ use_custom_camera' \in BOOLEAN /\ desired' \in Offset
        /\ should_reset_agent' \in BOOLEAN /\ script' \in Step
    BY <1>8 DEF ResetAgent
  <2>2. UNCHANGED <<iter, vehicle, attach, first_camera_load, camera, rendered,
                    show_debug_status_text, inUse, controller, clock, events,
                    staleFor, window, keyStates, owed>>
    BY <1>8 DEF ResetAgent
  <2>3. script = "reset" /\ script' = "measure"
    BY <1>8 DEF ResetAgent
  <2> QED
    BY <2>1, <2>2, <2>3
<1>9. CASE Measure
  BY <1>9 DEF Measure
<1>10. CASE Wait
  <2>1. Tick(clock) \in 0 .. TickCounts - 1
    BY DEF Tick
  <2> QED
    BY <1>10, <2>1 DEF Wait
<1> QED
  BY <1>1, <1>2, <1>3, <1>4, <1>5, <1>6, <1>7, <1>8, <1>9, <1>10 DEF Script

(* What happens outside the script keeps the inductive invariant. *)
LEMMA OutsideStep == IInv /\ Outside => IInv'
<1> SUFFICES ASSUME IInv, Outside PROVE IInv'
  OBVIOUS
<1> USE ScriptAssumption
    DEF IInv, TypeOK, Attaching, Known, Owing, SinceRefresh, Event, Key, scriptVars,
        sharedVars, cameraVars
<1>1. CASE Board
  BY <1>1 DEF Board
<1>2. CASE SetUse
  BY <1>2 DEF SetUse
<1>3. CASE SetOffset
  BY <1>3 DEF SetOffset
<1>4. CASE SetUseToo
  BY <1>4 DEF SetUseToo
<1>5. CASE RequestReset
  BY <1>5 DEF RequestReset
<1>6. CASE OnKeyboardMessage
  BY <1>6 DEF OnKeyboardMessage
<1>7. CASE StoreIsUpNow
  BY <1>7 DEF StoreIsUpNow, outsideVars
<1> QED
  BY <1>1, <1>2, <1>3, <1>4, <1>5, <1>6, <1>7 DEF Outside

(* A stuttering step keeps the inductive invariant. *)
LEMMA StutterStep == IInv /\ UNCHANGED vars => IInv'
BY DEF IInv, TypeOK, Attaching, Known, Owing, SinceRefresh, vars, scriptVars,
       sharedVars, cameraVars, outsideVars

(* The inductive invariant holds in every behaviour of the script. *)
LEMMA Inductive == Spec => []IInv
<1>1. IInv /\ [Next]_vars => IInv'
  BY ScriptStep, OutsideStep, StutterStep DEF Next
<1> QED
  BY InitIInv, <1>1, PTL DEF Spec

(* Every variable has its type, whatever the tick counter wraps at. *)
THEOREM TypeCorrect == Spec => []TypeOK
<1>1. IInv => TypeOK
  BY DEF IInv
<1> QED
  BY Inductive, <1>1, PTL

(* What deep_drive measures is the vehicle in use, unless the player changed  *)
(* vehicles within one refresh period: for every length of the period.        *)
THEOREM MeasuredVehicle == Spec => []MeasuresVehicleInUse
<1>1. IInv => MeasuresVehicleInUse
  BY ScriptAssumption DEF IInv, TypeOK, Known, SinceRefresh, MeasuresVehicleInUse
<1> QED
  BY Inductive, <1>1, PTL

(* isKeyJustUp with exclusive use lets a key that went up act at most once,   *)
(* for every NOW_PERIOD and whenever the tick count wraps.                    *)
THEOREM KeysActOnce == Spec => KeyActsOnce
<1> DEFINE Acts ==
      /\ show_debug_status_text' # show_debug_status_text => "F10" \in owed
      /\ script = "consume" /\ script' = "reset" => "F11" \in owed
<1>1. IInv /\ [Next]_vars => [Acts]_vars
  <2> SUFFICES ASSUME IInv, [Next]_vars PROVE Acts \/ UNCHANGED vars
    OBVIOUS
  <2>1. script = "consume" => "F11" \in owed
    BY DEF IInv, Owing
  <2>2. CASE Toggle
    BY <2>1, <2>2 DEF IInv, Owing, Toggle, From
  <2>3. CASE Next /\ ~ Toggle
    <3>1. UNCHANGED show_debug_status_text
      BY <2>3 DEF Next, Script, Outside, Refresh, NoRefresh, Attach, Drive, Poll,
                  ConsumeF11, ResetAgent, Measure, Wait, Board, SetUse, SetOffset,
                  SetUseToo, RequestReset, OnKeyboardMessage, StoreIsUpNow, scriptVars
    <3> QED
      BY <2>1, <3>1
  <2> QED
    BY <2>2, <2>3
<1> QED
  BY Inductive, <1>1, PTL DEF Spec, KeyActsOnce

=============================================================================
