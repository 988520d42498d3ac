------------------------------ MODULE Episodes ------------------------------
(***************************************************************************)
(* What the controller promises its agents, without threads or messages on *)
(* their way: episodes that are played, and resets from one to the next.   *)
(*                                                                         *)
(* A reset, once asked for, goes through its stages to the end, and tells  *)
(* its agent of each in turn.  While it does nobody comes, leaves or       *)
(* drives; the next episode has the next number; and it begins with the    *)
(* car at rest.  Two things may go wrong, each once: a reward or a done of *)
(* the episode before is sent after the reset has begun, and the numbers   *)
(* start from 0 again with an agent there.  GTAVEnv shows how the two      *)
(* threads keep this promise.                                              *)
(***************************************************************************)
EXTENDS Naturals

CONSTANTS Clients, NoClient

VARIABLES
  agents,    \* who is connected
  stage,     \* how far the reset is, or "playing"
  asker,     \* who asked for it
  episode,   \* the number of the episode
  said,      \* the number in the last description of the environment
  wipes,     \* times the numbers started from 0 since an agent first came
  late,      \* rewards and dones sent since the reset was asked for
  car        \* "neutral" or "driven"

vars == <<agents, stage, asker, episode, said, wipes, late, car>>

Init ==
  /\ agents = {}
  /\ stage = "playing" /\ asker = NoClient
  /\ episode = 0 /\ said = 0 /\ wipes = 0
  /\ late = 0
  /\ car = "neutral"

(***************************************************************************)
(* What agents do, between resets only.                                    *)
(***************************************************************************)

Come(c) ==
  /\ stage = "playing"
  /\ c \notin agents
  /\ agents' = agents \union {c}
  /\ wipes' = IF agents = {} THEN 0 ELSE wipes
  /\ UNCHANGED <<stage, asker, episode, said, late, car>>

Leave(c) ==
  /\ stage = "playing"
  /\ c \in agents
  /\ agents' = agents \ {c}
  /\ UNCHANGED <<stage, asker, episode, said, wipes, late, car>>

Drive(c) ==
  /\ stage = "playing"
  /\ c \in agents
  /\ car' \in {"neutral", "driven"}
  /\ UNCHANGED <<agents, stage, asker, episode, said, wipes, late>>

Ask(c) ==
  /\ stage = "playing" /\ stage' = "asked"
  /\ c \in agents
  /\ asker' = c
  /\ late' = 0
  /\ UNCHANGED <<agents, episode, said, wipes, car>>

(***************************************************************************)
(* The reset: a reply, "resetting", the next number, "running".            *)
(***************************************************************************)

Answer ==
  /\ stage = "asked" /\ stage' = "answered"
  /\ UNCHANGED <<agents, asker, episode, said, wipes, late, car>>

Announce ==
  /\ stage = "answered" /\ stage' = "resetting"
  /\ said' = episode
  /\ UNCHANGED <<agents, asker, episode, wipes, late, car>>

\* A number that was wiped meanwhile may come back with its successor.
Renumber ==
  /\ stage = "resetting" /\ stage' = "renumbered"
  /\ episode' = episode + 1 \/ (wipes = 1 /\ episode' = said + 1)
  /\ UNCHANGED <<agents, asker, said, wipes, late, car>>

Start ==
  /\ stage = "renumbered" /\ stage' = "running"
  /\ wipes = 0 => episode = said + 1
  /\ said' = episode
  /\ UNCHANGED <<agents, asker, episode, wipes, late, car>>

End ==
  /\ stage = "running" /\ stage' = "playing"
  /\ car = "neutral"
  /\ asker' = NoClient /\ said' = 0
  /\ UNCHANGED <<agents, episode, wipes, late, car>>

(***************************************************************************)
(* What may happen at any time.                                            *)
(***************************************************************************)

Halt ==
  /\ car' = "neutral"
  /\ UNCHANGED <<agents, stage, asker, episode, said, wipes, late>>

Wipe ==
  /\ episode' = 0
  /\ IF agents = {} THEN UNCHANGED wipes ELSE wipes = 0 /\ wipes' = 1
  /\ UNCHANGED <<agents, stage, asker, said, late, car>>

\* Between resets rewards are sent as they come.
TellLate ==
  /\ stage # "playing"
  /\ late = 0 /\ late' = 1
  /\ UNCHANGED <<agents, stage, asker, episode, said, wipes, car>>

Next ==
  \/ \E c \in Clients : Come(c) \/ Leave(c) \/ Drive(c) \/ Ask(c)
  \/ Answer \/ Announce \/ Renumber \/ Start \/ End
  \/ Halt \/ Wipe \/ TellLate

Spec == Init /\ [][Next]_vars
=============================================================================
