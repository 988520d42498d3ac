--------------------------- MODULE ResetHandshake ---------------------------
(***************************************************************************)
(* The reset request that crosses SharedAgentMemory, store by store.       *)
(*                                                                         *)
(* The controller raises should_reset_agent (GTAVRewardCalculator::reset,  *)
(* called from both of its threads).  The game's script thread polls it    *)
(* every tick, wipes what it has accumulated and what it has published,    *)
(* lowers the flag, and goes on measuring and publishing.  No lock is      *)
(* shared, so a request, or a camera setting of the agent, can arrive      *)
(* between any two stores of the tick.                                     *)
(*                                                                         *)
(* Of the published fields the two that outlive a tick are kept: the last  *)
(* collision and the jariness, each as the set of request numbers it was   *)
(* measured after.  A tick without a vehicle does nothing and is no step.  *)
(***************************************************************************)
EXTENDS Naturals

CONSTANT MaxRequests   \* bound on the requests

ASSUME RequestsAssumption == MaxRequests \in Nat

Field == {"collision", "jariness"}

VARIABLES
  requests,             \* history: resets asked for so far
  should_reset_agent,   \* the flag
  measured,             \* the script's own last_collision_time and jariness
  published,            \* their copies in the shared memory
  camera,               \* "default", or "agent" when the agent has set it
  script,               \* where the script thread is in its tick
  kept                  \* history: no reset was asked for, before or since,
                        \*   that could undo the agent's camera setting

handshakeVars == <<requests, should_reset_agent, measured, published, camera, script, kept>>

Wipe == {"wipeCamera", "wipeMeasured", "wipeCollision", "wipeJariness"}

ScriptStep == Wipe \union {"poll", "lower", "measure", "publishJariness",
                           "publishCollision"}

HandshakeTypeOK ==
  /\ requests \in 0 .. MaxRequests
  /\ should_reset_agent \in BOOLEAN
  /\ measured \in [Field -> SUBSET (0 .. requests)]
  /\ published \in [Field -> SUBSET (0 .. requests)]
  /\ camera \in {"default", "agent"}
  /\ script \in ScriptStep
  /\ kept \in BOOLEAN

\* Script::main has allocated the memory and run reset_agent once.
InitHandshake ==
  /\ requests = 0
  /\ should_reset_agent = FALSE
  /\ measured = [f \in Field |-> {}]
  /\ published = [f \in Field |-> {}]
  /\ camera = "default"
  /\ script = "poll"
  /\ kept = FALSE

-----------------------------------------------------------------------------
(* The controller.                                                         *)

RequestReset ==
  /\ requests < MaxRequests
  /\ requests' = requests + 1
  /\ should_reset_agent' = TRUE
  /\ kept' = FALSE
  /\ UNCHANGED <<measured, published, camera, script>>

\* GTAVEnv::change_settings, for the camera settings an agent may send.
ChangeSettings ==
  /\ camera' = "agent"
  /\ kept' = (~ should_reset_agent /\ script \notin Wipe)
  /\ UNCHANGED <<requests, should_reset_agent, measured, published, script>>

-----------------------------------------------------------------------------
(* The script thread: one tick of deep_drive.                              *)

ScriptAt(from, to) == script = from /\ script' = to

PollQuiet ==
  /\ ScriptAt("poll", "measure")
  /\ ~ should_reset_agent
  /\ UNCHANGED <<requests, should_reset_agent, measured, published, camera, kept>>

\* Variants of the poll: the flag is lowered as soon as it has been seen, and
\* the test of the F11 key is the wrong way round.
PollReset_LowersFirst ==
  /\ ScriptAt("poll", "wipeCamera")
  /\ should_reset_agent
  /\ should_reset_agent' = FALSE
  /\ UNCHANGED <<requests, measured, published, camera, kept>>

PollReset_KeyInverted ==
  /\ ScriptAt("poll", "wipeCamera")
  /\ UNCHANGED <<requests, should_reset_agent, measured, published, camera, kept>>

PollReset ==
  /\ ScriptAt("poll", "wipeCamera")
  /\ should_reset_agent
  /\ UNCHANGED <<requests, should_reset_agent, measured, published, camera, kept>>

\* F11 in the game window: the same branch, without a request.
PollF11 ==
  /\ ScriptAt("poll", "wipeCamera")
  /\ ~ should_reset_agent
  /\ kept' = FALSE
  /\ UNCHANGED <<requests, should_reset_agent, measured, published, camera>>

\* reset_agent, in the order of its stores.
WipeCamera ==
  /\ ScriptAt("wipeCamera", "wipeMeasured")
  /\ camera' = "default"
  /\ UNCHANGED <<requests, should_reset_agent, measured, published, kept>>

\* Variant: the script's own jariness survives the reset.
WipeMeasured_KeepsJariness ==
  /\ ScriptAt("wipeMeasured", "wipeCollision")
  /\ measured' = [measured EXCEPT !["collision"] = {}]
  /\ UNCHANGED <<requests, should_reset_agent, published, camera, kept>>

WipeMeasured ==
  /\ ScriptAt("wipeMeasured", "wipeCollision")
  /\ measured' = [f \in Field |-> {}]
  /\ UNCHANGED <<requests, should_reset_agent, published, camera, kept>>

WipePublished(f, from, to) ==
  /\ ScriptAt(from, to)
  /\ published' = [published EXCEPT ![f] = {}]
  /\ UNCHANGED <<requests, should_reset_agent, measured, camera, kept>>

WipeCollision == WipePublished("collision", "wipeCollision", "wipeJariness")

WipeJariness == WipePublished("jariness", "wipeJariness", "lower")

\* Variant: nobody lowers the flag.
LowerFlag_Forgotten ==
  /\ ScriptAt("lower", "measure")
  /\ UNCHANGED <<requests, should_reset_agent, measured, published, camera, kept>>

\* shared->should_reset_agent = false, once reset_agent has returned.
LowerFlag ==
  /\ ScriptAt("lower", "measure")
  /\ should_reset_agent' = FALSE
  /\ UNCHANGED <<requests, measured, published, camera, kept>>

\* set_reward_and_info_shared_mem, first half: the car may have hit something,
\* and may have been accelerated beyond comfort, since the last tick.
Measure ==
  /\ ScriptAt("measure", "publishJariness")
  /\ \E hit \in SUBSET Field :
       measured' = [f \in Field |-> IF f \in hit THEN measured[f] \union {requests}
                                                 ELSE measured[f]]
  /\ UNCHANGED <<requests, should_reset_agent, published, camera, kept>>

\* Second half: the stores, jariness before the collision.
Publish(f, from, to) ==
  /\ ScriptAt(from, to)
  /\ published' = [published EXCEPT ![f] = measured[f]]
  /\ UNCHANGED <<requests, should_reset_agent, measured, camera, kept>>

PublishJariness == Publish("jariness", "publishJariness", "publishCollision")

PublishCollision == Publish("collision", "publishCollision", "poll")

Script ==
  \/ PollQuiet \/ PollReset \/ PollF11
  \/ WipeCamera \/ WipeMeasured \/ WipeCollision \/ WipeJariness \/ LowerFlag
  \/ Measure \/ PublishJariness \/ PublishCollision

NextHandshake == RequestReset \/ ChangeSettings \/ Script

HandshakeSpec == InitHandshake /\ [][NextHandshake]_handshakeVars

\* The game calls the script every tick while the player sits in a vehicle.
FairHandshake == HandshakeSpec /\ WF_handshakeVars(Script)

-----------------------------------------------------------------------------
(* Properties.                                                             *)

(* Once the flag is down, no collision and no jariness from before the latest
   request is visible any more, although a request may have come in the middle
   of the wipe and been lowered together with the one before it
   (script.cpp:456-463, 511-522, GTAVRewardCalculator.cpp:327). *)
FreshWhenLowered ==
  ~ should_reset_agent => \A f \in Field : published[f] \subseteq {requests}

(* A camera setting the agent made while no reset was pending stays until the
   next one is asked for (GTAVEnv.cpp:205-230, script.cpp:486-500). *)
SettingKept == kept => camera = "agent"

(* Every request is answered: the flag comes down with everything that is
   published wiped or measured since (script.cpp:456-461). *)
RequestServed ==
  should_reset_agent ~>
    (~ should_reset_agent /\ \A f \in Field : published[f] \subseteq {requests})

\* The two sides together keep the promise of the mailbox.
Mailbox == INSTANCE ResetMailbox WITH
  pending <- should_reset_agent, report <- published

(* Store by store, the shared memory behaves like the atomic mailbox. *)
KeepsPromise == Mailbox!Spec
=============================================================================
