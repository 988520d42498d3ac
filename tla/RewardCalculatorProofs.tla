----------------------- MODULE RewardCalculatorProofs -----------------------
(***************************************************************************)
(* For every kEndDistance, kMaxSecondsNoProgress and MaxDistance: types,   *)
(* no metre paid twice, and every metre paid once a reset has finished.    *)
(* Then the penalties, for every Limit and however far the sums grow:      *)
(* between two resets no axis is charged for more than it holds.           *)
(***************************************************************************)
EXTENDS RewardCalculator, Penalties, TLAPS

USE DEF LoopAt, ServerAt, LoopShared, ServerShared, loopVars, serverVars,
        historyVars, Missing, Distance, Rewarding, LoopStep, ServerStep

\* What a place in get_reward says of the sampled distance.
Sampled ==
  /\ loop = "setClosest" => distance >= kEndDistance
  /\ loop \in {"compare", "progress", "setProgress"} => distance > kEndDistance

\* What has been paid so far, and what may still be claimed from closest.
Budget ==
  /\ paid <= start - nearest
  /\ distance > kEndDistance => nearest <= distance
  /\ (closest # 0 /\ loop # "setProgress") => paid + closest <= start
  /\ loop = "setProgress" => paid + distance <= start

\* The lock is held exactly while the server works, and, if no get_reward
\* outlasts the reload, nothing is computed in the second half of a reset.
Quiet ==
  /\ resetting <=> server # "idle"
  /\ again => server \notin {"idle", "reload"}
  /\ server = "unlock" => again
  /\ (again /\ GetRewardIsShort) => loop \notin Rewarding
  /\ (again /\ GetRewardIsShort /\ server # "resetEmbarked") => ~ embarked
  /\ loop = "resetClosest" => ~ embarked

\* Between resets: how the books stand at each place of the loop.
Account ==
  /\ loop \in {"idle", "sample", "arrive", "crash", "resetEmbarked", "setDone"}
       => closest = nearest /\ paid = start - nearest
  /\ loop \in {"embark", "embarkedTest", "compare"}
       => /\ paid = start - closest
          /\ nearest = IF kEndDistance < distance /\ distance < closest
                       THEN distance ELSE closest
  /\ loop = "progress" => nearest = distance /\ paid = start - closest
  /\ loop = "setProgress" => nearest = distance /\ paid = start - nearest

Books == (GetRewardIsShort /\ embarked /\ ~ resetting) => Account

(* A step keeps the types; closest_distance_ is never -1. *)
LEMMA TypeStep == TypeOK /\ Sampled /\ [Next]_vars => TypeOK'
<1> SUFFICES ASSUME TypeOK /\ Sampled, [Next]_vars PROVE TypeOK'
  OBVIOUS
<1> USE CalculatorAssumption DEF TypeOK, Sampled
<1>1. CASE StartReward
  <2>1. /\ done' \in BOOLEAN /\ is_done' \in BOOLEAN /\ embarked' \in BOOLEAN
        /\ resetting' \in BOOLEAN /\ again' \in BOOLEAN
    BY <1>1, Zenon DEF StartReward
  <2> QED
    BY <1>1, <2>1 DEF StartReward
<1>2. CASE Sample
  BY <1>2 DEF Sample, Nearer
<1>3. CASE Embark
  BY <1>3 DEF Embark
<1>4. CASE SetClosest
  BY <1>4 DEF SetClosest
<1>5. CASE EmbarkedTest
  BY <1>5 DEF EmbarkedTest
<1>6. CASE CompareNearer
  BY <1>6 DEF CompareNearer
<1>7. CASE CompareNotNearer
  BY <1>7 DEF CompareNotNearer
<1>8. CASE Progress
  BY <1>8 DEF Progress
<1>9. CASE SetProgress
  BY <1>9 DEF SetProgress
<1>10. CASE Arrive
  BY <1>10 DEF Arrive
<1>11. CASE Crash
  BY <1>11 DEF Crash
<1>12. CASE LoopResetEmbarked
  BY <1>12 DEF LoopResetEmbarked
<1>13. CASE LoopResetClosest
  BY <1>13 DEF LoopResetClosest
<1>14. CASE SetDone
  <2>1. /\ done' \in BOOLEAN /\ is_done' \in BOOLEAN /\ embarked' \in BOOLEAN
        /\ resetting' \in BOOLEAN /\ again' \in BOOLEAN
    BY <1>14, Zenon DEF SetDone
  <2> QED
    BY <1>14, <2>1 DEF SetDone
<1>15. CASE NoClients
  BY <1>15 DEF NoClients
<1>16. CASE ResetEmbarked
  BY <1>16 DEF ResetEmbarked
<1>17. CASE ResetClosest
  BY <1>17 DEF ResetClosest
<1>18. CASE ResetDone
  BY <1>18 DEF ResetDone
<1>19. CASE Reload
  BY <1>19 DEF Reload
<1>20. CASE Unlock
  BY <1>20 DEF Unlock
<1>21. CASE BeginReset
  BY <1>21 DEF BeginReset
<1>22. CASE Tick
  BY <1>22 DEF Tick
<1>23. CASE UNCHANGED vars
  BY <1>23 DEF vars
<1> QED
  BY <1>1, <1>2, <1>3, <1>4, <1>5, <1>6, <1>7, <1>8, <1>9, <1>10, <1>11, <1>12, <1>13, <1>14, <1>15, <1>16, <1>17, <1>18, <1>19, <1>20, <1>21, <1>22, <1>23
     DEF Next, Loop, Server

(* A step keeps what is known of the sampled distance. *)
LEMMA SampledStep == TypeOK /\ Sampled /\ [Next]_vars => Sampled'
<1> SUFFICES ASSUME TypeOK /\ Sampled, [Next]_vars PROVE Sampled'
  OBVIOUS
<1> USE CalculatorAssumption DEF TypeOK, Sampled
<1>1. CASE StartReward
  BY <1>1 DEF StartReward
<1>2. CASE Sample
  BY <1>2 DEF Sample, Nearer
<1>3. CASE Embark
  BY <1>3 DEF Embark
<1>4. CASE SetClosest
  BY <1>4 DEF SetClosest
<1>5. CASE EmbarkedTest
  BY <1>5 DEF EmbarkedTest
<1>6. CASE CompareNearer
  BY <1>6 DEF CompareNearer
<1>7. CASE CompareNotNearer
  BY <1>7 DEF CompareNotNearer
<1>8. CASE Progress
  BY <1>8 DEF Progress
<1>9. CASE SetProgress
  BY <1>9 DEF SetProgress
<1>10. CASE Arrive
  BY <1>10 DEF Arrive
<1>11. CASE Crash
  BY <1>11 DEF Crash
<1>12. CASE LoopResetEmbarked
  BY <1>12 DEF LoopResetEmbarked
<1>13. CASE LoopResetClosest
  BY <1>13 DEF LoopResetClosest
<1>14. CASE SetDone
  BY <1>14 DEF SetDone
<1>15. CASE NoClients
  BY <1>15 DEF NoClients
<1>16. CASE ResetEmbarked
  BY <1>16 DEF ResetEmbarked
<1>17. CASE ResetClosest
  BY <1>17 DEF ResetClosest
<1>18. CASE ResetDone
  BY <1>18 DEF ResetDone
<1>19. CASE Reload
  BY <1>19 DEF Reload
<1>20. CASE Unlock
  BY <1>20 DEF Unlock
<1>21. CASE BeginReset
  BY <1>21 DEF BeginReset
<1>22. CASE Tick
  BY <1>22 DEF Tick
<1>23. CASE UNCHANGED vars
  BY <1>23 DEF vars
<1> QED
  BY <1>1, <1>2, <1>3, <1>4, <1>5, <1>6, <1>7, <1>8, <1>9, <1>10, <1>11, <1>12, <1>13, <1>14, <1>15, <1>16, <1>17, <1>18, <1>19, <1>20, <1>21, <1>22, <1>23
     DEF Next, Loop, Server

(* A step keeps within the budget. *)
LEMMA BudgetStep == TypeOK /\ Sampled /\ Budget /\ [Next]_vars => Budget'
<1> SUFFICES ASSUME TypeOK /\ Sampled /\ Budget, [Next]_vars PROVE Budget'
  OBVIOUS
<1> USE CalculatorAssumption DEF TypeOK, Sampled, Budget
<1>1. CASE StartReward
  BY <1>1 DEF StartReward
<1>2. CASE Sample
  BY <1>2 DEF Sample, Nearer
<1>3. CASE Embark
  BY <1>3 DEF Embark
<1>4. CASE SetClosest
  BY <1>4 DEF SetClosest
<1>5. CASE EmbarkedTest
  BY <1>5 DEF EmbarkedTest
<1>6. CASE CompareNearer
  BY <1>6 DEF CompareNearer
<1>7. CASE CompareNotNearer
  BY <1>7 DEF CompareNotNearer
<1>8. CASE Progress
  BY <1>8 DEF Progress
<1>9. CASE SetProgress
  BY <1>9 DEF SetProgress
<1>10. CASE Arrive
  BY <1>10 DEF Arrive
<1>11. CASE Crash
  BY <1>11 DEF Crash
<1>12. CASE LoopResetEmbarked
  BY <1>12 DEF LoopResetEmbarked
<1>13. CASE LoopResetClosest
  BY <1>13 DEF LoopResetClosest
<1>14. CASE SetDone
  BY <1>14 DEF SetDone
<1>15. CASE NoClients
  BY <1>15 DEF NoClients
<1>16. CASE ResetEmbarked
  BY <1>16 DEF ResetEmbarked
<1>17. CASE ResetClosest
  BY <1>17 DEF ResetClosest
<1>18. CASE ResetDone
  BY <1>18 DEF ResetDone
<1>19. CASE Reload
  BY <1>19 DEF Reload
<1>20. CASE Unlock
  BY <1>20 DEF Unlock
<1>21. CASE BeginReset
  BY <1>21 DEF BeginReset
<1>22. CASE Tick
  BY <1>22 DEF Tick
<1>23. CASE UNCHANGED vars
  BY <1>23 DEF vars
<1> QED
  BY <1>1, <1>2, <1>3, <1>4, <1>5, <1>6, <1>7, <1>8, <1>9, <1>10, <1>11, <1>12, <1>13, <1>14, <1>15, <1>16, <1>17, <1>18, <1>19, <1>20, <1>21, <1>22, <1>23
     DEF Next, Loop, Server

(* A step keeps the second half of a reset quiet. *)
LEMMA QuietStep == TypeOK /\ Quiet /\ [Next]_vars => Quiet'
<1> SUFFICES ASSUME TypeOK /\ Quiet, [Next]_vars PROVE Quiet'
  OBVIOUS
<1> USE CalculatorAssumption DEF TypeOK, Quiet
<1>1. CASE StartReward
  BY <1>1 DEF StartReward
<1>2. CASE Sample
  BY <1>2 DEF Sample, Nearer
<1>3. CASE Embark
  BY <1>3 DEF Embark
<1>4. CASE SetClosest
  BY <1>4 DEF SetClosest
<1>5. CASE EmbarkedTest
  BY <1>5 DEF EmbarkedTest
<1>6. CASE CompareNearer
  BY <1>6 DEF CompareNearer
<1>7. CASE CompareNotNearer
  BY <1>7 DEF CompareNotNearer
<1>8. CASE Progress
  BY <1>8 DEF Progress
<1>9. CASE SetProgress
  BY <1>9 DEF SetProgress
<1>10. CASE Arrive
  BY <1>10 DEF Arrive
<1>11. CASE Crash
  BY <1>11 DEF Crash
<1>12. CASE LoopResetEmbarked
  BY <1>12 DEF LoopResetEmbarked
<1>13. CASE LoopResetClosest
  BY <1>13 DEF LoopResetClosest
<1>14. CASE SetDone
  BY <1>14 DEF SetDone
<1>15. CASE NoClients
  BY <1>15 DEF NoClients
<1>16. CASE ResetEmbarked
  BY <1>16 DEF ResetEmbarked
<1>17. CASE ResetClosest
  BY <1>17 DEF ResetClosest
<1>18. CASE ResetDone
  BY <1>18 DEF ResetDone
<1>19. CASE Reload
  BY <1>19 DEF Reload
<1>20. CASE Unlock
  BY <1>20 DEF Unlock
<1>21. CASE BeginReset
  BY <1>21 DEF BeginReset
<1>22. CASE Tick
  BY <1>22 DEF Tick
<1>23. CASE UNCHANGED vars
  BY <1>23 DEF vars
<1> QED
  BY <1>1, <1>2, <1>3, <1>4, <1>5, <1>6, <1>7, <1>8, <1>9, <1>10, <1>11, <1>12, <1>13, <1>14, <1>15, <1>16, <1>17, <1>18, <1>19, <1>20, <1>21, <1>22, <1>23
     DEF Next, Loop, Server

(* A step keeps the books. *)
LEMMA BooksStep == TypeOK /\ Sampled /\ Quiet /\ Books /\ [Next]_vars => Books'
<1> SUFFICES ASSUME TypeOK /\ Sampled /\ Quiet /\ Books, [Next]_vars PROVE Books'
  OBVIOUS
<1> USE CalculatorAssumption DEF TypeOK, Sampled, Quiet, Books, Account
<1>1. CASE StartReward
  BY <1>1 DEF StartReward
<1>2. CASE Sample
  BY <1>2 DEF Sample, Nearer
<1>3. CASE Embark
  BY <1>3 DEF Embark
<1>4. CASE SetClosest
  BY <1>4 DEF SetClosest
<1>5. CASE EmbarkedTest
  BY <1>5 DEF EmbarkedTest
<1>6. CASE CompareNearer
  BY <1>6 DEF CompareNearer
<1>7. CASE CompareNotNearer
  BY <1>7 DEF CompareNotNearer
<1>8. CASE Progress
  BY <1>8 DEF Progress
<1>9. CASE SetProgress
  BY <1>9 DEF SetProgress
<1>10. CASE Arrive
  BY <1>10 DEF Arrive
<1>11. CASE Crash
  BY <1>11 DEF Crash
<1>12. CASE LoopResetEmbarked
  BY <1>12 DEF LoopResetEmbarked
<1>13. CASE LoopResetClosest
  BY <1>13 DEF LoopResetClosest
<1>14. CASE SetDone
  BY <1>14 DEF SetDone
<1>15. CASE NoClients
  BY <1>15 DEF NoClients
<1>16. CASE ResetEmbarked
  BY <1>16 DEF ResetEmbarked
<1>17. CASE ResetClosest
  BY <1>17 DEF ResetClosest
<1>18. CASE ResetDone
  BY <1>18 DEF ResetDone
<1>19. CASE Reload
  BY <1>19 DEF Reload
<1>20. CASE Unlock
  BY <1>20 DEF Unlock
<1>21. CASE BeginReset
  BY <1>21 DEF BeginReset
<1>22. CASE Tick
  BY <1>22 DEF Tick
<1>23. CASE UNCHANGED vars
  BY <1>23 DEF vars
<1> QED
  BY <1>1, <1>2, <1>3, <1>4, <1>5, <1>6, <1>7, <1>8, <1>9, <1>10, <1>11, <1>12, <1>13, <1>14, <1>15, <1>16, <1>17, <1>18, <1>19, <1>20, <1>21, <1>22, <1>23
     DEF Next, Loop, Server

IInv == TypeOK /\ Sampled /\ Budget /\ Quiet /\ Books

(* The inductive invariant holds of every reachable state. *)
LEMMA Invariance == Spec => []IInv
<1>1. Init => IInv
  <2> SUFFICES ASSUME Init PROVE IInv
    OBVIOUS
  <2> USE CalculatorAssumption DEF Init
  <2>1. /\ embarked \in BOOLEAN /\ is_done \in BOOLEAN /\ resetting \in BOOLEAN
        /\ done \in BOOLEAN /\ again \in BOOLEAN
    BY Zenon
  <2>2. TypeOK
    BY <2>1 DEF TypeOK
  <2>3. Sampled /\ Budget /\ Quiet /\ Books
    BY DEF Sampled, Budget, Quiet, Books, Account
  <2> QED
    BY <2>2, <2>3 DEF IInv
<1>2. IInv /\ [Next]_vars => IInv'
  BY TypeStep, SampledStep, BudgetStep, QuietStep, BooksStep DEF IInv
<1> QED
  BY <1>1, <1>2, PTL DEF Spec

(* The types of RewardCalculator hold for any constants: closest_distance_ is
   a whole distance, and a reward at most MaxDistance either way
   (GTAVRewardCalculator.cpp:82-113). *)
THEOREM TypeCorrect == Spec => []TypeOK
<1>1. IInv => TypeOK
  BY DEF IInv
<1> QED
  BY <1>1, Invariance, PTL

(* No metre is paid twice, however the stores of reset and the reads of
   get_distance_reward interleave (GTAVRewardCalculator.cpp:91-113). *)
THEOREM NeverOverpaid == Spec => []NoOverpay
<1>1. IInv => NoOverpay
  BY DEF IInv, Budget, NoOverpay
<1> QED
  BY <1>1, Invariance, PTL

(* The second reset repairs what a reward that ran into the first one broke:
   outside a reset every metre has been paid for
   (GTAVRewardCalculator.cpp:104-113, Env.h:55-59). *)
THEOREM EveryMetrePaid == Spec => []PaidInFull
<1>1. IInv => PaidInFull
  BY DEF IInv, Books, Account, PaidInFull
<1> QED
  BY <1>1, Invariance, PTL

HIDE DEF LoopAt, ServerAt, LoopShared, ServerShared, loopVars, serverVars,
         historyVars, Missing, Distance, Rewarding, LoopStep, ServerStep

-----------------------------------------------------------------------------
(***************************************************************************)
(* What a look at the car costs, whenever the three threads take their     *)
(* steps.  The books are kept axis by axis: what an axis has been charged  *)
(* for since it was wiped, less what a reset has forgotten of it, is       *)
(* within what the calculator still knows of the axis: what it remembers,  *)
(* or, once the look has charged the axis and until it remembers it, what  *)
(* the memory holds.                                                       *)
(***************************************************************************)

LookStep == {"offRoad", "speed", "discomfort", "charge", "remember", "settle"}

Place == [step : LookStep \union {"idle", "raise", "forget", "done", "reload"}, axis : Axis]

PenaltiesTypeOK ==
  /\ on_road \in BOOLEAN /\ speed \in {"slow", "fine", "fast"} /\ raised \in BOOLEAN
  /\ jariness \in [Axis -> Nat] /\ last \in [Axis -> Nat]
  /\ jerks \in [Component -> Nat]
  /\ tick \in [step : {"poll", "wipe", "lower", "publish"}, axis : Axis]
  /\ since \in [Penalty -> Nat] /\ delivered \subseteq Penalty
  /\ penalty \in [Penalty -> Int]
  /\ over \in BOOLEAN
  /\ thread \in [Thread -> Place] /\ following \in [Thread -> {"idle", "done", "reload"}]
  /\ charged \in [Axis -> Nat] /\ forgotten \in [Axis -> Nat]

\* The memory never runs ahead of the script, but while it is wiped, when the
\* script's own sums and the axes behind it are 0.
Published ==
  IF tick.step = "wipe"
  THEN /\ \A c \in Component : jerks[c] = 0
       /\ \A a \in Axis : a < tick.axis => jariness[a] = 0
  ELSE \A a \in Axis : jariness[a] <= jerks[Source[a]]

\* The look has charged axis a and not remembered it yet.
Billed(a) ==
  \/ thread["loop"].step = "charge" /\ a < thread["loop"].axis
  \/ thread["loop"].step = "remember" /\ a >= thread["loop"].axis

Known(a) ==
  IF Billed(a) \/ jariness[a] <= last[a] THEN jariness[a] ELSE last[a]

Covered == \A a \in Axis : charged[a] - forgotten[a] <= Known(a)

PenaltiesInv == PenaltiesTypeOK /\ Published /\ Covered

USE PenaltyAssumption

(* A thread that goes on leaves the other where it is. *)
LEMMA GoesOn ==
  ASSUME thread \in [Thread -> Place], NEW t \in Thread, NEW from, NEW to \in Place,
         Go(t, from, to)
  PROVE  /\ thread' \in [Thread -> Place]
         /\ thread[t] = from /\ thread'[t] = to
         /\ \A u \in Thread : u # t => thread'[u] = thread[u]
  BY DEF Go

(* A step keeps the types. *)
LEMMA PenaltiesTyped == PenaltiesTypeOK /\ [NextPenalties]_penaltyVars => PenaltiesTypeOK'
<1> SUFFICES ASSUME PenaltiesTypeOK, [NextPenalties]_penaltyVars PROVE PenaltiesTypeOK'
  OBVIOUS
<1> USE DEF PenaltiesTypeOK, LookStep, Place, Axis, Penalty, Component, Thread, At, Go, TickAt,
        Idle, NextAxis, sharedVars, scriptVars, calcVars, pastVars
<1>1. CASE StartLook
  <2>1. penalty' \in [Penalty -> Int]
    BY <1>1 DEF StartLook
  <2>2. thread' \in [Thread -> Place]
    BY <1>1 DEF StartLook
  <2> QED
    BY <1>1, <2>1, <2>2 DEF StartLook
<1>2. CASE OffRoad
  BY <1>2 DEF OffRoad
<1>3. CASE Speed
  BY <1>3 DEF Speed, Deliver
<1>4. CASE Discomfort
  <2>1. \E to \in Place : Go("loop", At("discomfort", 1), to)
    <3>1. At("charge", 1) \in Place /\ At("settle", 1) \in Place
      OBVIOUS
    <3> QED
      BY <1>4, <3>1, Zenon DEF Discomfort
  <2>2. /\ since' = since \/ since' = [since EXCEPT !["discomfort"] = 0]
        /\ delivered' = delivered \/ delivered' = delivered \union {"discomfort"}
    BY <1>4, Zenon DEF Discomfort
  <2>3. thread' \in [Thread -> Place]
    BY <2>1, GoesOn
  <2>4. delivered' \subseteq Penalty
    BY <2>2
  <2>5. [since EXCEPT !["discomfort"] = 0] \in [Penalty -> Nat]
    OBVIOUS
  <2>6. since' \in [Penalty -> Nat]
    BY <2>2, <2>5, Zenon
  <2>7. UNCHANGED <<sharedVars, scriptVars, last, penalty, over, following, pastVars>>
    BY <1>4 DEF Discomfort
  <2> QED
    BY <2>3, <2>4, <2>6, <2>7
<1>5. CASE Settle
  <2>1. thread' \in [Thread -> Place]
    BY <1>5 DEF Settle
  <2>2. following' \in [Thread -> {"idle", "done", "reload"}] /\ over' \in BOOLEAN
    BY <1>5 DEF Settle
  <2>3. penalty' \in [Penalty -> Int]
    BY <1>5 DEF Settle
  <2> QED
    BY <1>5, <2>1, <2>2, <2>3 DEF Settle
<1>6. ASSUME NEW a \in Axis, Charge(a) PROVE PenaltiesTypeOK'
  BY <1>6 DEF Charge, Larger
<1>7. ASSUME NEW a \in Axis, Remember(a) PROVE PenaltiesTypeOK'
  BY <1>7 DEF Remember
<1>8. CASE Done
  BY <1>8 DEF Done
<1>9. ASSUME NEW t \in Thread, BeginForgetting(t) PROVE PenaltiesTypeOK'
  BY <1>9 DEF BeginForgetting
<1>10. CASE Reloaded
  BY <1>10 DEF Reloaded
<1>11. ASSUME NEW t \in Thread, Raise(t) PROVE PenaltiesTypeOK'
  BY <1>11 DEF Raise
<1>12. ASSUME NEW t \in Thread, NEW a \in Axis, Forget(t, a) PROVE PenaltiesTypeOK'
  BY <1>12 DEF Forget
<1>13. CASE StartWipe
  BY <1>13 DEF StartWipe
<1>14. ASSUME NEW a \in Axis, WipeAxis(a) PROVE PenaltiesTypeOK'
  BY <1>14 DEF WipeAxis
<1>15. CASE LowerRaised
  BY <1>15 DEF LowerRaised
<1>16. CASE Jerk
  BY <1>16 DEF Jerk
<1>17. ASSUME NEW a \in Axis, PublishAxis(a) PROVE PenaltiesTypeOK'
  BY <1>17 DEF PublishAxis, Source
<1>18. CASE Drive
  BY <1>18 DEF Drive
<1>19. CASE Second
  BY <1>19 DEF Second
<1>20. CASE UNCHANGED penaltyVars
  BY <1>20 DEF penaltyVars
<1> QED
  BY <1>1, <1>2, <1>3, <1>4, <1>5, <1>6, <1>7, <1>8, <1>9, <1>10, <1>11, <1>12, <1>13,
     <1>14, <1>15, <1>16, <1>17, <1>18, <1>19, <1>20
     DEF NextPenalties, Look, Reset, Tell

(* What the looks, the resets and time leave of the script and its memory. *)
LEMMA ControllerLeaves ==
  (\/ StartLook \/ Look \/ Reloaded \/ Drive \/ Second
   \/ \E t \in Thread : Reset(t))
     => UNCHANGED <<jariness, scriptVars>>
BY DEF StartLook, Look, OffRoad, Speed, Discomfort, Settle, Charge, Remember, Done, Reset,
       BeginForgetting, Raise, Forget, Reloaded, Drive, Second, sharedVars, scriptVars

(* What no step of the script changes. *)
LEMMA ScriptLeaves == Tell => UNCHANGED <<thread, last>>
BY DEF Tell, StartWipe, LowerRaised, Jerk, WipeAxis, PublishAxis, calcVars

(* A step keeps the memory behind the script. *)
LEMMA PublishedStep ==
  PenaltiesTypeOK /\ Published /\ [NextPenalties]_penaltyVars => Published'
<1> SUFFICES ASSUME PenaltiesTypeOK, Published, [NextPenalties]_penaltyVars PROVE Published'
  OBVIOUS
<1> USE DEF PenaltiesTypeOK, Published, Axis, Component, At, TickAt, NextAxis, Source
<1>1. CASE UNCHANGED <<jariness, scriptVars>>
  BY <1>1 DEF scriptVars
<1>2. CASE StartWipe
  BY <1>2 DEF StartWipe, sharedVars
<1>3. ASSUME NEW a \in Axis, WipeAxis(a) PROVE Published'
  BY <1>3 DEF WipeAxis
<1>4. CASE LowerRaised
  BY <1>4 DEF LowerRaised
<1>5. CASE Jerk
  BY <1>5 DEF Jerk, sharedVars
<1>6. ASSUME NEW a \in Axis, PublishAxis(a) PROVE Published'
  BY <1>6 DEF PublishAxis
<1> QED
  BY <1>1, <1>2, <1>3, <1>4, <1>5, <1>6, ControllerLeaves
     DEF NextPenalties, Tell, penaltyVars, sharedVars

(* A look that neither charges nor remembers, a reset that forgets nothing yet, *)
(* and time leave every axis as it is.                                          *)
LEMMA QuietCovered ==
  ASSUME PenaltiesTypeOK, Covered,
         \/ StartLook \/ OffRoad \/ Speed \/ Discomfort \/ Settle \/ Done \/ Reloaded
         \/ Drive \/ Second \/ UNCHANGED penaltyVars
         \/ \E t \in Thread : BeginForgetting(t) \/ Raise(t)
  PROVE  Covered'
<1>1. UNCHANGED <<jariness, last, charged, forgotten>>
  BY DEF StartLook, OffRoad, Speed, Discomfort, Settle, Done, Reloaded, Drive, Second,
         BeginForgetting, Raise, penaltyVars, sharedVars, calcVars, pastVars
<1>2. /\ ~ (thread["loop"].step = "charge" \/ thread["loop"].step = "remember")
      /\ thread'["loop"].step = "charge" => thread'["loop"].axis = 1
      /\ thread'["loop"].step # "remember"
      \/ thread'["loop"] = thread["loop"]
  BY DEF StartLook, OffRoad, Speed, Discomfort, Settle, Done, Reloaded, Drive, Second,
         BeginForgetting, Raise, penaltyVars, Go, At, Idle, Thread, PenaltiesTypeOK, Place
<1>3. ASSUME NEW a \in Axis PROVE Billed(a)' <=> Billed(a)
  BY <1>2 DEF Billed, Axis
<1> QED
  BY <1>1, <1>3 DEF Covered, Known

(* To charge an axis brings its books up to what the memory holds. *)
LEMMA ChargeCovered ==
  ASSUME PenaltiesTypeOK, Covered, NEW a \in Axis, Charge(a)
  PROVE  Covered'
<1>1. /\ thread["loop"] = At("charge", a)
      /\ thread'["loop"] = NextAxis("charge", a, "remember")
  BY DEF Charge, Go, PenaltiesTypeOK, Thread
<1>2. UNCHANGED <<jariness, last, forgotten>>
  BY DEF Charge, sharedVars
<1>3. /\ charged'[a] = charged[a] + Larger(0, jariness[a] - last[a])
      /\ \A b \in Axis : b # a => charged'[b] = charged[b]
  BY DEF Charge, PenaltiesTypeOK
<1>4. /\ ~ Billed(a) /\ Billed(a)'
      /\ \A b \in Axis : b # a => (Billed(b)' <=> Billed(b))
  BY <1>1 DEF Billed, NextAxis, At, Axis
<1>5. charged'[a] - forgotten'[a] <= Known(a)'
  BY <1>2, <1>3, <1>4 DEF Known, Larger, Covered, PenaltiesTypeOK
<1> QED
  BY <1>2, <1>3, <1>4, <1>5 DEF Covered, Known

(* To remember an axis settles its books at what the memory holds now. *)
LEMMA RememberCovered ==
  ASSUME PenaltiesTypeOK, Covered, NEW a \in Axis, Remember(a)
  PROVE  Covered'
<1>1. /\ thread["loop"] = At("remember", a)
      /\ thread'["loop"] = NextAxis("remember", a, "settle")
  BY DEF Remember, Go, PenaltiesTypeOK, Thread
<1>2. UNCHANGED <<jariness, charged, forgotten>>
  BY DEF Remember, sharedVars, pastVars
<1>3. last'[a] = jariness[a] /\ \A b \in Axis : b # a => last'[b] = last[b]
  BY DEF Remember, PenaltiesTypeOK
<1>4. /\ Billed(a)
      /\ \A b \in Axis : b # a => (Billed(b)' <=> Billed(b))
  BY <1>1 DEF Billed, NextAxis, At, Axis
<1>5. charged'[a] - forgotten'[a] <= Known(a)'
  BY <1>2, <1>3, <1>4 DEF Known, Covered, PenaltiesTypeOK
<1> QED
  BY <1>2, <1>3, <1>4, <1>5 DEF Covered, Known

(* A reset strikes out of the books what it forgets. *)
LEMMA ForgetCovered ==
  ASSUME PenaltiesTypeOK, Covered, NEW t \in Thread, NEW a \in Axis, Forget(t, a)
  PROVE  Covered'
<1>1. UNCHANGED <<jariness, charged>>
  BY DEF Forget, sharedVars
<1>2. /\ last'[a] = 0 /\ forgotten'[a] = charged[a]
      /\ \A b \in Axis : b # a => last'[b] = last[b] /\ forgotten'[b] = forgotten[b]
  BY DEF Forget, PenaltiesTypeOK
<1>3. ASSUME NEW b \in Axis PROVE Billed(b)' <=> Billed(b)
  <2>1. CASE t = "loop"
    <3>1. thread["loop"].step = "forget"
      BY <2>1 DEF Forget, Go, At
    <3>2. thread'["loop"].step \in {"forget", "idle", "done", "reload"}
      BY <2>1 DEF Forget, Go, At, NextAxis, PenaltiesTypeOK, Thread, Axis
    <3> QED
      BY <3>1, <3>2 DEF Billed
  <2>2. CASE t = "server"
    BY <2>2 DEF Forget, Go, Billed, PenaltiesTypeOK, Thread
  <2> QED
    BY <2>1, <2>2 DEF Thread
<1>4. charged'[a] - forgotten'[a] <= Known(a)'
  BY <1>1, <1>2 DEF Known, PenaltiesTypeOK
<1> QED
  BY <1>1, <1>2, <1>3, <1>4 DEF Covered, Known

(* The script wipes an axis together with its books, and otherwise only adds *)
(* to the memory.                                                            *)
LEMMA ScriptCovered ==
  ASSUME PenaltiesTypeOK, Published, Covered, Tell
  PROVE  Covered'
<1>1. \A b \in Axis : Billed(b)' <=> Billed(b)
  BY ScriptLeaves DEF Billed
<1>2. CASE StartWipe \/ LowerRaised \/ Jerk
  <2>1. UNCHANGED <<jariness, last, charged, forgotten>>
    BY <1>2 DEF StartWipe, LowerRaised, Jerk, sharedVars, calcVars, pastVars
  <2> QED
    BY <1>1, <2>1 DEF Covered, Known
<1>3. ASSUME NEW a \in Axis, WipeAxis(a) PROVE Covered'
  <2>1. /\ jariness'[a] = 0 /\ charged'[a] = 0 /\ forgotten'[a] = 0
        /\ \A b \in Axis : b # a => /\ jariness'[b] = jariness[b]
                                    /\ charged'[b] = charged[b]
                                    /\ forgotten'[b] = forgotten[b]
    BY <1>3 DEF WipeAxis, PenaltiesTypeOK
  <2>2. UNCHANGED last
    BY ScriptLeaves
  <2>3. charged'[a] - forgotten'[a] <= Known(a)'
    BY <2>1, <2>2 DEF Known, PenaltiesTypeOK
  <2> QED
    BY <1>1, <2>1, <2>2, <2>3 DEF Covered, Known
<1>4. ASSUME NEW a \in Axis, PublishAxis(a) PROVE Covered'
  <2>1. /\ jariness'[a] = jerks[Source[a]]
        /\ \A b \in Axis : b # a => jariness'[b] = jariness[b]
    BY <1>4 DEF PublishAxis, PenaltiesTypeOK
  <2>2. UNCHANGED <<last, charged, forgotten>>
    BY <1>4 DEF PublishAxis, calcVars, pastVars
  <2>3. jariness[a] <= jerks[Source[a]] /\ jerks[Source[a]] \in Nat
    BY <1>4 DEF PublishAxis, Published, TickAt, At, PenaltiesTypeOK, Source, Component, Axis
  <2>4. charged'[a] - forgotten'[a] <= Known(a)'
    BY <1>1, <2>1, <2>2, <2>3 DEF Known, Covered, PenaltiesTypeOK
  <2> QED
    BY <1>1, <2>1, <2>2, <2>4 DEF Covered, Known
<1> QED
  BY <1>2, <1>3, <1>4 DEF Tell

(* So the books stay covered in every behaviour. *)
LEMMA PenaltiesAlways == FairPenalties => []PenaltiesInv
<1>1. InitPenalties => PenaltiesInv
  <2> SUFFICES ASSUME InitPenalties PROVE PenaltiesInv
    OBVIOUS
  <2>1. PenaltiesTypeOK
    <3>1. thread \in [Thread -> Place] /\ following \in [Thread -> {"idle", "done", "reload"}]
      BY DEF InitPenalties, Place, Idle, At, Axis, LookStep
    <3>2. since \in [Penalty -> Nat] /\ penalty \in [Penalty -> Int] /\ delivered \subseteq Penalty
      BY DEF InitPenalties
    <3>3. tick \in [step : {"poll", "wipe", "lower", "publish"}, axis : Axis]
      BY DEF InitPenalties, At, Axis
    <3> QED
      BY <3>1, <3>2, <3>3 DEF InitPenalties, PenaltiesTypeOK
  <2>2. Published
    BY DEF InitPenalties, Published, At, Axis, Source, Component
  <2>3. Covered
    BY DEF InitPenalties, Covered, Known, Billed, Idle, At, Thread
  <2> QED
    BY <2>1, <2>2, <2>3 DEF PenaltiesInv
<1>2. PenaltiesInv /\ [NextPenalties]_penaltyVars => PenaltiesInv'
  <2> SUFFICES ASSUME PenaltiesTypeOK, Published, Covered, [NextPenalties]_penaltyVars
               PROVE  Covered'
    BY PenaltiesTyped, PublishedStep DEF PenaltiesInv
  <2> QED
    BY QuietCovered, ChargeCovered, RememberCovered, ForgetCovered, ScriptCovered
       DEF NextPenalties, Look, Reset
<1> QED
  BY <1>1, <1>2, PTL DEF FairPenalties

(* Between two resets no axis is charged for more than the memory holds of it, *)
(* however the two reads of a look, a reset of the other thread, F11 and the   *)
(* script's publishing interleave (GTAVRewardCalculator.cpp:231-257, 319-332). *)
THEOREM ChargedOnce == FairPenalties => []ChargedOnceBetweenResets
<1>1. PenaltiesInv => ChargedOnceBetweenResets
  BY DEF PenaltiesInv, PenaltiesTypeOK, Covered, Known, ChargedOnceBetweenResets
<1> QED
  BY <1>1, PenaltiesAlways, PTL
=============================================================================
