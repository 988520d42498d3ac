----------------------------- MODULE Rewarder ------------------------------
(***************************************************************************)
(* The reward bookkeeping of one environment (Rewarder.cpp).  Its three    *)
(* counters are plain members that the loop's thread and the websocket     *)
(* thread both write, so every read-modify-write is a load and a store     *)
(* with other steps in between; the thread's copy is the argument "loaded".*)
(*                                                                         *)
(* episode_step_counter only matters by how it compares with the warm-up,  *)
(* so it saturates one above it.  episode_return is 0 until a reward other *)
(* than 0 is added and 1 from then on.                                     *)
(***************************************************************************)
EXTENDS Naturals

CONSTANTS
  kWarmUpSteps,   \* steps whose reward is not sent: 5 in the code
  MaxEpisode      \* bound: no reset is requested at this episode number

ASSUME RewarderAssumption ==
  /\ kWarmUpSteps \in Nat
  /\ MaxEpisode \in Nat

VARIABLES episode_step_counter, episode_counter, episode_return

rewarderVars == <<episode_step_counter, episode_counter, episode_return>>

StepCount == 0 .. kWarmUpSteps + 1
Episode   == 0 .. MaxEpisode

RewarderTypeOK ==
  /\ episode_step_counter \in StepCount
  /\ episode_counter \in Episode
  /\ episode_return \in {0, 1}

RewarderInit ==
  /\ episode_step_counter = 0
  /\ episode_counter = 0
  /\ episode_return = 0

\* ++ on a loaded step counter, saturating.
NextStepCount(loaded) == IF loaded > kWarmUpSteps THEN loaded ELSE loaded + 1

\* "episode_step_counter > 5": the reward of this step is sent.
PastWarmUp(loaded) == NextStepCount(loaded) > kWarmUpSteps

\* episode_return += reward, for a reward of 0 (r = 0) or any other (r = 1).
AddReward(loaded, r) == IF r = 0 THEN loaded ELSE 1
=============================================================================
