------------------------- MODULE MCRewardCalculator -------------------------
(***************************************************************************)
(* Instance of RewardCalculator and Penalties for TLC.  The two share no   *)
(* state, so that one is explored with the other at rest, and the          *)
(* penalties are explored in two scenes: a car that is driven well or      *)
(* badly, and a car on the road that jerks and is reset.                   *)
(***************************************************************************)
EXTENDS RewardCalculator, Penalties

VARIABLE scene

MCLimit == [p \in Penalty |-> IF p = "offRoad" THEN 1 ELSE 0]

Scenes == {"distance", "driving", "jerking"}

MCInit == Init /\ InitPenalties /\ scene \in Scenes

InScene(s, A) == scene = s /\ A /\ UNCHANGED scene

Distance_(A) == InScene("distance", A) /\ UNCHANGED penaltyVars

Driving(A) == InScene("driving", A) /\ UNCHANGED <<jerks, raised, tick, vars>>

\* Time passes only between two looks, where the discomfort penalty waits for it,
\* and no jerk goes up, which the calculator is not told of.
Jerking(A) ==
  /\ InScene("jerking", A)
  /\ on_road' /\ speed' = "fine"
  /\ Second => since["discomfort"] <= Limit["discomfort"] /\ thread["loop"] = Idle
  /\ jerks'["z"] = 0
  /\ UNCHANGED vars

MCNext == Distance_(Next) \/ Driving(NextPenalties) \/ Jerking(NextPenalties)

MCVars == <<vars, penaltyVars, scene>>

MCSpec ==
  /\ MCInit /\ [][MCNext]_MCVars
  /\ WF_MCVars(Distance_(Loop)) /\ WF_MCVars(Distance_(Server)) /\ WF_MCVars(Distance_(Tick))
  /\ WF_MCVars(Driving(Look)) /\ WF_MCVars(Driving(Second))
=============================================================================
