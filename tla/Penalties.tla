------------------------------ MODULE Penalties ------------------------------
(***************************************************************************)
(* What a look at the car costs (GTAVRewardCalculator): leaving the road,  *)
(* driving too slowly or too fast, and jerking.                            *)
(*                                                                         *)
(* The script adds up the jariness of the car and publishes it axis by     *)
(* axis; get_reward charges the growth since the look before, axis by      *)
(* axis, and remembers each axis in a second read.  A reset, from either   *)
(* thread of the controller, forgets what was remembered at once, while    *)
(* the memory keeps the old sums until the script comes to wipe them: no   *)
(* lock is shared, and any of these stores may fall between two others.    *)
(***************************************************************************)
EXTENDS Integers

CONSTANTS
  Limit,    \* seconds of [offRoad, slow, speeding, discomfort]: kMaxOffroadSeconds,
            \*   kSlowPenaltyPeriod, kSpeedingPenaltyPeriod, kDiscomfortPenaltyPeriod
  MaxFelt,  \* bound on the jariness of a component
  MaxCharged \* bound: no look begins once an axis has been charged for more

Penalty == {"offRoad", "slow", "speeding", "discomfort"}

ASSUME PenaltyAssumption == Limit \in [Penalty -> Nat] /\ MaxFelt \in Nat /\ MaxCharged \in Nat

\* The axes in the order they are read and stored, and the component of the
\* script's jariness each is stored from (script.cpp:385-387).
Axis == 1 .. 3
Source == <<"y", "x", "x">>

VARIABLES
  on_road, speed,         \* shared memory: "slow", "fine" or "fast"
  jariness,               \* shared memory: forward, lateral and vertical
  raised,                 \* shared memory: should_reset_agent
  jerks,                  \* the script's own jariness
  tick,                   \* where the script is, and at which axis
  last,                   \* last_forward_jariness_ and so on
  since,                  \* seconds since the last_ times, up to the limit + 1
  delivered,              \* the delivered_first_ flags
  over,                   \* is_done_
  thread,                 \* where the loop and the server are, and at which axis
  following,              \* where they go on after the calculator's reset
  penalty                 \* what the look has charged so far

VARIABLES                 \* history, read by no action but for the bound
  charged,                \* by axis: what looks charged since it was wiped
  forgotten               \* by axis: how much of that a reset has forgotten

Component == {"x", "y", "z"}
Thread == {"loop", "server"}

sharedVars == <<on_road, speed, jariness, raised>>
scriptVars == <<jerks, tick>>
calcVars == <<last, since, delivered, penalty>>
pastVars == <<charged, forgotten>>
penaltyVars == <<sharedVars, scriptVars, calcVars, over, thread, following, pastVars>>

Larger(a, b) == IF a < b THEN b ELSE a

At(step, axis) == [step |-> step, axis |-> axis]
Idle == At("idle", 1)

InitPenalties ==
  /\ on_road = TRUE /\ speed = "fine"
  /\ jariness = [a \in Axis |-> 0] /\ raised = FALSE
  /\ jerks = [c \in Component |-> 0] /\ tick = At("poll", 1)
  /\ last = [a \in Axis |-> 0]
  /\ since = [p \in Penalty |-> Limit[p] + 1]
  /\ delivered = {}
  /\ over = FALSE
  /\ thread = [t \in Thread |-> Idle] /\ following = [t \in Thread |-> "idle"]
  /\ penalty = [p \in Penalty |-> 0]
  /\ charged = [a \in Axis |-> 0] /\ forgotten = [a \in Axis |-> 0]

-----------------------------------------------------------------------------
(* The look, on the loop's thread.                                         *)

Go(t, from, to) == thread[t] = from /\ thread' = [thread EXCEPT ![t] = to]

\* GTAVEnv::loop looks at a car only while no reset is under way and the episode
\* is not over.
StartLook ==
  /\ Go("loop", Idle, At("offRoad", 1))
  /\ thread["server"] = Idle
  /\ ~ over
  /\ \A a \in Axis : charged[a] <= MaxCharged
  /\ penalty' = [p \in Penalty |-> 0]
  /\ UNCHANGED <<sharedVars, scriptVars, last, since, delivered, over, following, pastVars>>

\* Variant: the clock restarts at every look.
OffRoad_Restarts ==
  /\ Go("loop", At("offRoad", 1), At("speed", 1))
  /\ penalty' = [penalty EXCEPT !["offRoad"] =
                   IF ~ on_road /\ since["offRoad"] > Limit["offRoad"] THEN 10 ELSE 0]
  /\ since' = [since EXCEPT !["offRoad"] = 0]
  /\ UNCHANGED <<sharedVars, scriptVars, last, delivered, over, following, pastVars>>

\* get_offroad_penalty
OffRoad ==
  /\ Go("loop", At("offRoad", 1), At("speed", 1))
  /\ LET late == ~ on_road /\ since["offRoad"] > Limit["offRoad"]
     IN /\ penalty' = [penalty EXCEPT !["offRoad"] = IF late THEN 10 ELSE 0]
        /\ since' = [since EXCEPT !["offRoad"] = IF on_road \/ late THEN 0 ELSE @]
  /\ UNCHANGED <<sharedVars, scriptVars, last, delivered, over, following, pastVars>>

Due(p) == p \notin delivered \/ since[p] > Limit[p]

Deliver(p, amount) ==
  /\ since' = [since EXCEPT ![p] = 0]
  /\ penalty' = [penalty EXCEPT ![p] = amount]
  /\ delivered' = delivered \union {p}

\* get_speed_penalties; the square of the excess is 1 here.
Speed ==
  /\ Go("loop", At("speed", 1), At("discomfort", 1))
  /\ CASE speed = "fast" /\ Due("speeding") -> Deliver("speeding", 1)
       [] speed = "slow" /\ Due("slow")     -> Deliver("slow", 1)
       [] OTHER -> UNCHANGED <<since, penalty, delivered>>
  /\ UNCHANGED <<sharedVars, scriptVars, last, over, following, pastVars>>

\* get_discomfort_penalty
Discomfort ==
  /\ IF Due("discomfort")
     THEN /\ Go("loop", At("discomfort", 1), At("charge", 1))
          /\ since' = [since EXCEPT !["discomfort"] = 0]
          /\ delivered' = delivered \union {"discomfort"}
     ELSE /\ Go("loop", At("discomfort", 1), At("settle", 1))
          /\ UNCHANGED <<since, delivered>>
  /\ UNCHANGED <<sharedVars, scriptVars, last, penalty, over, following, pastVars>>

NextAxis(step, axis, then) == IF axis + 1 \in Axis THEN At(step, axis + 1) ELSE At(then, 1)

Charge(a) ==
  /\ Go("loop", At("charge", a), NextAxis("charge", a, "remember"))
  /\ penalty' = [penalty EXCEPT !["discomfort"] = @ + jariness[a] - last[a]]
  /\ charged' = [charged EXCEPT ![a] = @ + Larger(0, jariness[a] - last[a])]
  /\ UNCHANGED <<sharedVars, scriptVars, last, since, delivered, over, following, forgotten>>

\* Variant: the sums are forgotten after every look.
Remember_Nothing(a) ==
  /\ Go("loop", At("remember", a), NextAxis("remember", a, "settle"))
  /\ last' = [last EXCEPT ![a] = 0]
  /\ UNCHANGED <<sharedVars, scriptVars, since, delivered, penalty, over, following, pastVars>>

Remember(a) ==
  /\ Go("loop", At("remember", a), NextAxis("remember", a, "settle"))
  /\ last' = [last EXCEPT ![a] = jariness[a]]
  /\ UNCHANGED <<sharedVars, scriptVars, since, delivered, penalty, over, following, pastVars>>

\* get_reward stores whether the episode is done, and before that resets when it is.
Settle ==
  /\ \/ /\ Go("loop", At("settle", 1), Idle)
        /\ over' = FALSE
        /\ UNCHANGED following
     \/ /\ Go("loop", At("settle", 1), At("raise", 1))
        /\ following' = [following EXCEPT !["loop"] = "done"]
        /\ UNCHANGED over
  /\ penalty' = [p \in Penalty |-> 0]
  /\ UNCHANGED <<sharedVars, scriptVars, last, since, delivered, pastVars>>

Done ==
  /\ Go("loop", At("done", 1), Idle)
  /\ over' = TRUE
  /\ UNCHANGED <<sharedVars, scriptVars, calcVars, following, pastVars>>

-----------------------------------------------------------------------------
(* GTAVRewardCalculator::reset, on either thread.                          *)

\* The loop without clients, or the server before it reloads.
BeginForgetting(t) ==
  /\ Go(t, Idle, At("raise", 1))
  /\ following' = [following EXCEPT ![t] = IF t = "server" THEN "reload" ELSE "idle"]
  /\ UNCHANGED <<sharedVars, scriptVars, calcVars, over, pastVars>>

\* reset_game is over: after_reset resets the calculator again.
Reloaded ==
  /\ Go("server", At("reload", 1), At("raise", 1))
  /\ following' = [following EXCEPT !["server"] = "idle"]
  /\ UNCHANGED <<sharedVars, scriptVars, calcVars, over, pastVars>>

Raise(t) ==
  /\ Go(t, At("raise", 1), At("forget", 1))
  /\ raised' = TRUE
  /\ UNCHANGED <<on_road, speed, jariness, scriptVars, calcVars, over, following, pastVars>>

\* The store to is_done_ comes right after the last axis.
Forget(t, a) ==
  /\ Go(t, At("forget", a), NextAxis("forget", a, following[t]))
  /\ last' = [last EXCEPT ![a] = 0]
  /\ over' = (over /\ a + 1 \in Axis)
  /\ forgotten' = [forgotten EXCEPT ![a] = charged[a]]
  /\ UNCHANGED <<sharedVars, scriptVars, since, delivered, penalty, following, charged>>

-----------------------------------------------------------------------------
(* The script, and time.                                                   *)

TickAt(from, to) == tick = from /\ tick' = to

\* reset_agent, for the flag or for F11: first the script's own sums, then the
\* memory, axis by axis.
StartWipe ==
  /\ TickAt(At("poll", 1), At("wipe", 1))
  /\ jerks' = [c \in Component |-> 0]
  /\ UNCHANGED <<sharedVars, calcVars, over, thread, following, pastVars>>

WipeAxis(a) ==
  /\ TickAt(At("wipe", a), NextAxis("wipe", a, "lower"))
  /\ jariness' = [jariness EXCEPT ![a] = 0]
  /\ charged' = [charged EXCEPT ![a] = 0]
  /\ forgotten' = [forgotten EXCEPT ![a] = 0]
  /\ UNCHANGED <<on_road, speed, raised, jerks, calcVars, over, thread, following>>

\* The first reading of the speed after a reset tells no acceleration yet.
LowerRaised ==
  /\ TickAt(At("lower", 1), At("publish", 1))
  /\ raised' = FALSE
  /\ UNCHANGED <<on_road, speed, jariness, jerks, calcVars, over, thread, following, pastVars>>

\* get_acceleration: beyond what is comfortable, on any component.
Jerk ==
  /\ ~ raised
  /\ TickAt(At("poll", 1), At("publish", 1))
  /\ \E hit \in SUBSET Component :
       /\ \A c \in hit : jerks[c] < MaxFelt
       /\ jerks' = [c \in Component |-> IF c \in hit THEN jerks[c] + 1 ELSE jerks[c]]
  /\ UNCHANGED <<sharedVars, calcVars, over, thread, following, pastVars>>

PublishAxis(a) ==
  /\ TickAt(At("publish", a), NextAxis("publish", a, "poll"))
  /\ jariness' = [jariness EXCEPT ![a] = jerks[Source[a]]]
  /\ UNCHANGED <<on_road, speed, raised, jerks, calcVars, over, thread, following, pastVars>>

\* The script publishes how the car is driven.
Drive ==
  /\ on_road' \in BOOLEAN
  /\ speed' \in {"slow", "fine", "fast"}
  /\ UNCHANGED <<jariness, raised, scriptVars, calcVars, over, thread, following, pastVars>>

Second ==
  /\ \E p \in Penalty : since[p] <= Limit[p]
  /\ since' = [p \in Penalty |-> IF since[p] <= Limit[p] THEN since[p] + 1 ELSE since[p]]
  /\ UNCHANGED <<sharedVars, scriptVars, last, delivered, penalty, over, thread, following,
                 pastVars>>

Look ==
  \/ OffRoad \/ Speed \/ Discomfort \/ Settle \/ Done
  \/ \E a \in Axis : Charge(a) \/ Remember(a)

Reset(t) == BeginForgetting(t) \/ Raise(t) \/ \E a \in Axis : Forget(t, a)

Tell == StartWipe \/ LowerRaised \/ Jerk \/ \E a \in Axis : WipeAxis(a) \/ PublishAxis(a)

NextPenalties ==
  \/ StartLook \/ Look \/ Tell \/ Drive \/ Second \/ Reloaded
  \/ \E t \in Thread : Reset(t)

\* A look that has begun is finished, and time passes.
FairPenalties ==
  /\ InitPenalties /\ [][NextPenalties]_penaltyVars
  /\ WF_penaltyVars(Look)
  /\ WF_penaltyVars(Second)

-----------------------------------------------------------------------------
(* Properties.                                                             *)

(* Between two resets an axis is not charged for more than it holds: the look
   reads it twice, once to charge it and once to remember it, while the script
   publishes, while F11 or a reset wipes the sums, and while the other thread
   forgets what was remembered (GTAVRewardCalculator.cpp:231-257, 319-332,
   script.cpp:385-387, 517-522).  The vertical axis holds the lateral sum. *)
ChargedOnceBetweenResets == \A a \in Axis : charged[a] - forgotten[a] <= jariness[a]

(* "Return the rewards that we have aggregated since the last call"
   (GTAVRewardCalculator.cpp:26): what the script has added up is charged once,
   and not again by the first look after a reset. *)
NothingChargedTwice == \A a \in Axis : charged[a] <= jariness[a]

(* A car that stays off the road pays for it again and again, as long as it is
   looked at (GTAVRewardCalculator.cpp:208-229). *)
OffRoadKeepsCosting ==
  (<>[] ~ on_road /\ []<>(thread["loop"].step = "speed"))
     => []<>(penalty["offRoad"] > 0)
=============================================================================
