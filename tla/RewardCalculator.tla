-------------------------- MODULE RewardCalculator --------------------------
(***************************************************************************)
(* The distance reward and the end of an episode (GTAVRewardCalculator).   *)
(*                                                                         *)
(* get_reward runs on the loop's thread, reset on either thread: the loop  *)
(* calls it when an episode ends and when nobody is connected, the server  *)
(* before and after it reloads the game.  embarked_ and closest_distance_  *)
(* have no lock, so one action here is one read or one store of them.      *)
(*                                                                         *)
(* A pathfinder answer that is not a whole number changes nothing, exactly *)
(* like the -1 of no answer, and is the same value here.  Time is the      *)
(* seconds since last_closest_distance_time_.  The reward mode is          *)
(* SaneDriving; the penalties, which end no episode, are left out.         *)
(***************************************************************************)
EXTENDS Integers

CONSTANTS
  kEndDistance,          \* 10 in the code
  kMaxSecondsNoProgress, \* 20 in the code
  MaxDistance,           \* bound on the distances the pathfinder answers
  GetRewardIsShort       \* no get_reward outlasts the reload of the game

ASSUME CalculatorAssumption ==
  /\ kEndDistance \in Nat
  /\ kMaxSecondsNoProgress \in Nat
  /\ MaxDistance \in Nat /\ kEndDistance <= MaxDistance
  /\ GetRewardIsShort \in BOOLEAN

VARIABLES
  embarked,    \* embarked_
  closest,     \* closest_distance_
  is_done,     \* is_done_
  resetting,   \* the reset lock is held
  stalledFor,  \* seconds since last_closest_distance_time_, up to the limit + 1
  loop,        \* where the loop's thread is
  distance,    \* current_distance_, used by get_reward alone
  reward,      \* its distance_reward
  done,        \* its done
  server,      \* where the server's thread is
  again        \* the server is in after_reset, not before_reset

VARIABLES      \* history, read by no action
  start,       \* the distance the car embarked at
  nearest,     \* the least distance beyond kEndDistance sampled since then
  paid         \* the sum of the distance rewards since then

loopVars    == <<loop, distance, reward, done>>
serverVars  == <<server, again>>
historyVars == <<start, nearest, paid>>
vars == <<embarked, closest, is_done, resetting, stalledFor, loopVars,
          serverVars, historyVars>>

Missing  == -1
Distance == {Missing} \union (0 .. MaxDistance)

Rewarding == {"sample", "embark", "setClosest", "embarkedTest", "compare",
              "progress", "setProgress", "arrive", "crash"}

LoopStep == Rewarding \union {"idle", "resetEmbarked", "resetClosest", "setDone"}

ServerStep == {"idle", "resetEmbarked", "resetClosest", "resetDone", "reload",
               "unlock"}

TypeOK ==
  /\ embarked \in BOOLEAN
  /\ closest \in 0 .. MaxDistance
  /\ is_done \in BOOLEAN
  /\ resetting \in BOOLEAN
  /\ stalledFor \in 0 .. kMaxSecondsNoProgress + 1
  /\ loop \in LoopStep
  /\ distance \in Distance
  /\ reward \in -MaxDistance .. MaxDistance
  /\ done \in BOOLEAN
  /\ server \in ServerStep
  /\ again \in BOOLEAN
  /\ start \in 0 .. MaxDistance
  /\ nearest \in 0 .. MaxDistance
  /\ paid \in Int

\* The last_ times of a new calculator are at the epoch.
Init ==
  /\ embarked = FALSE /\ closest = 0
  /\ is_done = FALSE
  /\ resetting = FALSE
  /\ stalledFor = kMaxSecondsNoProgress + 1
  /\ loop = "idle" /\ distance = Missing /\ reward = 0 /\ done = FALSE
  /\ server = "idle" /\ again = FALSE
  /\ start = 0 /\ nearest = 0 /\ paid = 0

-----------------------------------------------------------------------------
(* The loop's thread.                                                      *)

LoopAt(from, to) == loop = from /\ loop' = to

LoopShared == <<resetting, serverVars>>

\* The guard of GTAVEnv::loop, then sendReward_ calls get_reward.
StartReward ==
  /\ LoopAt("idle", "sample")
  /\ ~ is_done /\ ~ resetting
  /\ reward' = 0 /\ done' = FALSE
  /\ UNCHANGED <<LoopShared, embarked, closest, is_done, stalledFor, distance,
                 historyVars>>

Nearer(d) == IF kEndDistance < d /\ d < nearest THEN d ELSE nearest

Sample ==
  /\ LoopAt("sample", "embark")
  /\ \E d \in Distance :
       /\ distance' = d
       /\ nearest' = Nearer(d)
  /\ UNCHANGED <<LoopShared, embarked, closest, is_done, stalledFor, reward,
                 done, start, paid>>

\* Variant: the boundary test is forgotten.
Embark_NoBoundary ==
  /\ LoopAt("embark", IF embarked THEN "embarkedTest" ELSE "setClosest")
  /\ embarked' = TRUE
  /\ UNCHANGED <<LoopShared, closest, is_done, stalledFor, distance, reward,
                 done, historyVars>>

\* if ( ! embarked_ && current_distance_ >= kEndDistance) embarked_ = true
Embark ==
  /\ IF ~ embarked /\ distance >= kEndDistance
     THEN LoopAt("embark", "setClosest") /\ embarked' = TRUE
     ELSE LoopAt("embark", "embarkedTest") /\ UNCHANGED embarked
  /\ UNCHANGED <<LoopShared, closest, is_done, stalledFor, distance, reward,
                 done, historyVars>>

SetClosest ==
  /\ LoopAt("setClosest", "embarkedTest")
  /\ closest' = distance
  /\ stalledFor' = 0
  /\ start' = distance /\ nearest' = distance /\ paid' = 0
  /\ UNCHANGED <<LoopShared, embarked, is_done, distance, reward, done>>

\* if ( ! embarked_) return 0; then where the distance leads.
EmbarkedTest ==
  /\ LoopAt("embarkedTest",
            IF ~ embarked THEN "crash"
            ELSE IF distance > kEndDistance THEN "compare"
            ELSE IF distance \in 0 .. kEndDistance - 1 THEN "arrive"
            ELSE "crash")
  /\ UNCHANGED <<LoopShared, embarked, closest, is_done, stalledFor, distance,
                 reward, done, historyVars>>

CompareNearer ==
  /\ LoopAt("compare", "progress")
  /\ closest > distance
  /\ UNCHANGED <<LoopShared, embarked, closest, is_done, stalledFor, distance,
                 reward, done, historyVars>>

\* Variant: every sample restarts the clock.
CompareNotNearer_Restarts ==
  /\ LoopAt("compare", "crash")
  /\ ~ (closest > distance)
  /\ done' = (stalledFor > kMaxSecondsNoProgress)
  /\ stalledFor' = 0
  /\ UNCHANGED <<LoopShared, embarked, closest, is_done, distance, reward,
                 historyVars>>

CompareNotNearer ==
  /\ LoopAt("compare", "crash")
  /\ ~ (closest > distance)
  /\ done' = (stalledFor > kMaxSecondsNoProgress)
  /\ UNCHANGED <<LoopShared, embarked, closest, is_done, stalledFor, distance,
                 reward, historyVars>>

\* distance_reward = closest_distance_ - current_distance_: a second read.
Progress ==
  /\ LoopAt("progress", "setProgress")
  /\ reward' = closest - distance
  /\ paid' = paid + (closest - distance)
  /\ UNCHANGED <<LoopShared, embarked, closest, is_done, stalledFor, distance,
                 done, start, nearest>>

\* Variant: the clock is restarted, the distance forgotten.
SetProgress_KeepsClosest ==
  /\ LoopAt("setProgress", "crash")
  /\ stalledFor' = 0
  /\ UNCHANGED <<LoopShared, embarked, closest, is_done, distance, reward, done,
                 historyVars>>

SetProgress ==
  /\ LoopAt("setProgress", "crash")
  /\ closest' = distance
  /\ stalledFor' = 0
  /\ UNCHANGED <<LoopShared, embarked, is_done, distance, reward, done,
                 historyVars>>

\* The Euclidean distance may or may not agree that the car is there.
Arrive ==
  /\ LoopAt("arrive", "crash")
  /\ done' \in BOOLEAN
  /\ UNCHANGED <<LoopShared, embarked, closest, is_done, stalledFor, distance,
                 reward, historyVars>>

\* calc_sane_driving: a collision or driving against the traffic ends it too.
\* get_reward: if (done) reset(shared).
Crash ==
  /\ loop = "crash"
  /\ done' \in {done, TRUE}
  /\ loop' = IF done' THEN "resetEmbarked" ELSE "setDone"
  /\ UNCHANGED <<LoopShared, embarked, closest, is_done, stalledFor, distance,
                 reward, historyVars>>

\* GTAVEnv::when_no_clients calls the same reset from the loop.
NoClients ==
  /\ LoopAt("idle", "resetEmbarked")
  /\ done' = FALSE
  /\ UNCHANGED <<LoopShared, embarked, closest, is_done, stalledFor, distance,
                 reward, historyVars>>

LoopResetEmbarked ==
  /\ LoopAt("resetEmbarked", "resetClosest")
  /\ embarked' = FALSE
  /\ UNCHANGED <<LoopShared, closest, is_done, stalledFor, distance, reward,
                 done, historyVars>>

LoopResetClosest ==
  /\ LoopAt("resetClosest", "setDone")
  /\ closest' = 0
  /\ UNCHANGED <<LoopShared, embarked, is_done, stalledFor, distance, reward,
                 done, historyVars>>

\* is_done_ = false at the end of reset, and is_done_ = done in get_reward.
SetDone ==
  /\ LoopAt("setDone", "idle")
  /\ is_done' = done
  /\ distance' = Missing /\ reward' = 0 /\ done' = FALSE
  /\ UNCHANGED <<LoopShared, embarked, closest, stalledFor, historyVars>>

Loop ==
  \/ StartReward \/ Sample \/ Embark \/ SetClosest \/ EmbarkedTest
  \/ CompareNearer \/ CompareNotNearer \/ Progress \/ SetProgress \/ Arrive
  \/ Crash \/ LoopResetEmbarked \/ LoopResetClosest \/ SetDone

-----------------------------------------------------------------------------
(* The server's thread: Env::reset calls reset before and after the reload. *)

ServerAt(from, to) == server = from /\ server' = to

ServerShared == <<stalledFor, loopVars, historyVars>>

BeginReset ==
  /\ ServerAt("idle", "resetEmbarked")
  /\ resetting' = TRUE
  /\ again' = FALSE
  /\ UNCHANGED <<ServerShared, embarked, closest, is_done>>

ResetEmbarked ==
  /\ ServerAt("resetEmbarked", "resetClosest")
  /\ embarked' = FALSE
  /\ UNCHANGED <<ServerShared, again, closest, is_done, resetting>>

ResetClosest ==
  /\ ServerAt("resetClosest", "resetDone")
  /\ closest' = 0
  /\ UNCHANGED <<ServerShared, again, embarked, is_done, resetting>>

ResetDone ==
  /\ ServerAt("resetDone", IF again THEN "unlock" ELSE "reload")
  /\ is_done' = FALSE
  /\ UNCHANGED <<ServerShared, again, embarked, closest, resetting>>

\* Variant: after_reset leaves the calculator alone.
Reload_NoAfterReset ==
  /\ ServerAt("reload", "unlock")
  /\ GetRewardIsShort => loop \notin Rewarding
  /\ again' = TRUE
  /\ UNCHANGED <<ServerShared, embarked, closest, is_done, resetting>>

\* reset_game takes a second at the least, then after_reset begins.
Reload ==
  /\ ServerAt("reload", "resetEmbarked")
  /\ GetRewardIsShort => loop \notin Rewarding
  /\ again' = TRUE
  /\ UNCHANGED <<ServerShared, embarked, closest, is_done, resetting>>

Unlock ==
  /\ ServerAt("unlock", "idle")
  /\ resetting' = FALSE
  /\ again' = FALSE
  /\ UNCHANGED <<ServerShared, embarked, closest, is_done>>

Server ==
  \/ ResetEmbarked \/ ResetClosest \/ ResetDone \/ Reload \/ Unlock

\* A second passes.
Tick ==
  /\ stalledFor <= kMaxSecondsNoProgress
  /\ stalledFor' = stalledFor + 1
  /\ UNCHANGED <<embarked, closest, is_done, resetting, loopVars, serverVars,
                 historyVars>>

Next == Loop \/ NoClients \/ Server \/ BeginReset \/ Tick

Spec == Init /\ [][Next]_vars

\* Both threads and the clock keep running; who connects and who asks for a
\* reset is up to the agents.
FairSpec ==
  /\ Spec
  /\ WF_vars(Loop)
  /\ WF_vars(Server)
  /\ WF_vars(Tick)

-----------------------------------------------------------------------------
(* Properties.                                                             *)

(* No metre is paid for twice: whatever resets run into the computation, the
   distance rewards since the car embarked add up to no more than the way it
   has come nearer (GTAVRewardCalculator.cpp:91-113). *)
NoOverpay == paid <= start - nearest

(* Every metre is paid for: outside a reset, the rewards add up to exactly the
   way the car has come nearer.  A reward that runs into before_reset can break
   this, and after_reset repairs it, provided no get_reward lasts as long as
   the reload between the two (GTAVRewardCalculator.cpp:91-113, 319-332). *)
PaidInFull ==
  (GetRewardIsShort /\ loop = "idle" /\ embarked /\ ~ resetting)
     => paid = start - nearest

(* A car that gets nowhere is not driven for ever: an episode that never ends
   is one whose distance, from some time on, is never a whole number beyond
   kEndDistance (GTAVRewardCalculator.cpp:104-128). *)
StalledEpisodeEnds == <>[]embarked => <>[](distance <= kEndDistance)
=============================================================================
