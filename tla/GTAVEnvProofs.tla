--------------------------- MODULE GTAVEnvProofs ---------------------------
(***************************************************************************)
(* Proofs about the controller's two threads, for any set of clients, any  *)
(* number of open connections, any warm-up and any bound on episodes.      *)
(*                                                                         *)
(* Each thread leaves the other's variables alone (LoopLeaves and          *)
(* HandlerLeaves).  On that rests the lock invariant (the asker stays      *)
(* connected while its reset runs), and on the lock invariant the          *)
(* properties of what the threads do to each other.                        *)
(***************************************************************************)
EXTENDS GTAVEnv, FiniteSetTheorems, TLAPS

ClientStep == \E c \in Clients : Open(c) \/ Close(c) \/ Act(c) \/ ResetRequest(c)

\* The steps of a reset that come before the new episode number is stored.
BeforeStore ==
  \/ server \in {"before", "reply", "resetting", "resetGame", "resetStep",
                 "loadCounter", "storeCounter"}
  \/ server = "send" /\ reply.kind \in {"reply", "resetting"}

\* What keeps the episode number within its bound.
CounterBound ==
  /\ BeforeStore => episode_counter < MaxEpisode
  /\ server = "storeCounter" => counter_reg < MaxEpisode

TypeInv == TypeOK /\ CounterBound

(* The main thread changes none of the variables of the connection set and of
   the websocket thread: it has no handler of its own. *)
LEMMA LoopLeaves == Loop => UNCHANGED LoopShared
BY DEF Loop, LoopGoto, LoopAt, TopConnected, TopDone, TopResetting, ElseDone,
       ElseResetting, StepNotReady, StepReward, StoreDone, LoadCount,
       StoreCount, LoadReturn, StoreReturn, Stamp, TestClients, Send,
       HardResetStep, HardResetCounter, WhenNoClients, CheckDone,
       WaitNotElapsed, WaitElapsed, Heartbeat

(* A reset that is being handled changes neither the connection set nor what
   the main thread is doing. *)
LEMMA HandlerLeaves == Handler => UNCHANGED ServerShared
BY DEF Handler, ServerAt, BeforeReset, StampReply, SendReply, ResetGame,
       ResetStep, LoadCounter, StoreCounter, ResetReturn, AfterReset, NoOp,
       Unlock

(* The messages the threads start from are well-typed. *)
LEMMA EmptyMessages ==
  /\ NoMsg \in [kind : MessageKind, episode : Episode, done : BOOLEAN]
  /\ NoReply \in [kind : ReplyKind, episode : Episode]
  /\ 0 \in Episode
  /\ 0 \in StepCount
<1>1. 0 \in Episode /\ 0 \in StepCount
  BY RewarderAssumption DEF Episode, StepCount
<1> QED
  BY <1>1 DEF NoMsg, NoReply, MessageKind, ReplyKind

(* Type correctness and the bound on the episode number are kept by the steps
   of the main thread. *)
LEMMA LoopKeepsTypes == TypeInv /\ Loop => TypeInv'
<1> SUFFICES ASSUME TypeInv, Loop PROVE TypeInv'
  OBVIOUS
<1> USE DEF TypeInv, TypeOK, CounterBound, BeforeStore, RewarderTypeOK, ConnTypeOK,
            LoopStep, LoopAt, LoopShared, connVars, rewarderVars, serverVars
<1>1. CASE TopConnected
  BY <1>1 DEF TopConnected, LoopGoto
<1>2. CASE TopDone
  BY <1>2 DEF TopDone, LoopGoto
<1>3. CASE TopResetting
  BY <1>3 DEF TopResetting, LoopGoto
<1>4. CASE ElseDone
  BY <1>4 DEF ElseDone, LoopGoto
<1>5. CASE ElseResetting
  BY <1>5 DEF ElseResetting, LoopGoto
<1>6. CASE StepNotReady
  BY <1>6 DEF StepNotReady, LoopGoto
<1>7. CASE StepReward
  BY <1>7, RewarderAssumption DEF StepReward, MessageKind, Episode
<1>8. CASE StoreDone
  BY <1>8 DEF StoreDone
<1>9. CASE LoadCount
  BY <1>9 DEF LoadCount
<1>10. CASE StoreCount
  BY <1>10, RewarderAssumption DEF StoreCount, StepCount, NextStepCount
<1>11. CASE LoadReturn
  BY <1>11, RewarderAssumption DEF LoadReturn, StepCount
<1>12. CASE StoreReturn
  BY <1>12, RewarderAssumption DEF StoreReturn, AddReward, StepCount
<1>13. CASE Stamp
  BY <1>13 DEF Stamp
<1>14. CASE TestClients
  BY <1>14 DEF TestClients, LoopGoto
<1>15. CASE Send
  BY <1>15, EmptyMessages, WaitAssumption DEF Send, Resume, WaitsAfterSend, LostWith
<1>16. CASE HardResetStep
  BY <1>16, RewarderAssumption DEF HardResetStep, StepCount
<1>17. CASE HardResetCounter
  BY <1>17, RewarderAssumption DEF HardResetCounter, Episode
<1>18. CASE WhenNoClients
  <2>1. loop' \in {"checkDone", "top"}
    BY <1>18 DEF WhenNoClients, Resume
  <2>2. waits' \in 0 .. kMaxResetWaitSecs
    BY <1>18, WaitAssumption DEF WhenNoClients, WaitsAfterSend
  <2> QED
    BY <1>18, <2>1, <2>2, EmptyMessages DEF WhenNoClients
<1>19. CASE CheckDone
  BY <1>19, EmptyMessages, WaitAssumption DEF CheckDone
<1>20. CASE WaitNotElapsed
  BY <1>20, WaitAssumption DEF WaitNotElapsed
<1>21. CASE WaitElapsed
  BY <1>21, RewarderAssumption DEF WaitElapsed, MessageKind, Episode
<1>22. CASE Heartbeat
  BY <1>22, RewarderAssumption DEF Heartbeat, MessageKind, Episode
<1> QED
  BY <1>1, <1>2, <1>3, <1>4, <1>5, <1>6, <1>7, <1>8, <1>9, <1>10, <1>11,
     <1>12, <1>13, <1>14, <1>15, <1>16, <1>17, <1>18, <1>19, <1>20, <1>21,
     <1>22 DEF Loop

(* They are kept by the steps of a reset: the number stored is the successor
   of one below the bound. *)
LEMMA HandlerKeepsTypes == TypeInv /\ Handler => TypeInv'
<1> SUFFICES ASSUME TypeInv, Handler PROVE TypeInv'
  OBVIOUS
<1> USE DEF TypeInv, TypeOK, CounterBound, BeforeStore, RewarderTypeOK, ConnTypeOK,
            ServerStep, ServerAt, ServerShared, connVars, rewarderVars, loopVars,
            historyVars
<1>1. CASE BeforeReset
  BY <1>1 DEF BeforeReset
<1>2. CASE StampReply
  BY <1>2 DEF StampReply, ReplyKind, Episode
<1>3. CASE SendReply
  <2>1. AfterReply \in {"resetting", "resetGame", "after"}
    BY DEF AfterReply, ReplyKind
  <2>2. server' \in {"resetting", "resetGame"} => BeforeStore
    BY <1>3 DEF SendReply, AfterReply, ReplyKind
  <2>3. episode_counter' \in Episode /\ episode_step_counter' \in StepCount
    BY <1>3, EmptyMessages DEF SendReply
  <2>4. episode_counter < MaxEpisode => episode_counter' < MaxEpisode
    BY <1>3, RewarderAssumption DEF SendReply, Episode
  <2>5. server' \in {"resetting", "resetGame", "after"}
    BY <1>3, <2>1 DEF SendReply
  <2>6. CounterBound'
    BY <1>3, <2>2, <2>4, <2>5 DEF SendReply
  <2>7. /\ episode_return' \in {0, 1} /\ is_done' \in BOOLEAN
        /\ joystick' \in {"neutral", "driven"}
    <3>1. CASE NoClientsForMessage
      BY <1>3, <3>1 DEF SendReply
    <3>2. CASE ~ NoClientsForMessage
      BY <1>3, <3>2 DEF SendReply
    <3> QED
      BY <3>1, <3>2
  <2>8. /\ UNCHANGED <<ServerShared, resetting, asker, reply, counter_reg, late, told,
                        hardResets, startEpisode>>
        /\ lost' \in 0 .. 2
    BY <1>3 DEF SendReply, LostWith
  <2>9. TypeOK'
    BY <2>3, <2>5, <2>7, <2>8
  <2> QED
    BY <2>6, <2>9
<1>4. CASE ResetGame
  BY <1>4 DEF ResetGame
<1>5. CASE ResetStep
  BY <1>5, RewarderAssumption DEF ResetStep, StepCount
<1>6. CASE LoadCounter
  BY <1>6 DEF LoadCounter, Episode
<1>7. CASE StoreCounter
  BY <1>7, RewarderAssumption DEF StoreCounter, Episode
<1>8. CASE ResetReturn
  BY <1>8 DEF ResetReturn
<1>9. CASE AfterReset
  BY <1>9 DEF AfterReset
<1>10. CASE NoOp
  BY <1>10 DEF NoOp
<1>11. CASE Unlock
  BY <1>11, EmptyMessages DEF Unlock
<1> QED
  BY <1>1, <1>2, <1>3, <1>4, <1>5, <1>6, <1>7, <1>8, <1>9, <1>10, <1>11
     DEF Handler

(* They are kept by what clients do. *)
LEMMA ClientKeepsTypes == TypeInv /\ ClientStep => TypeInv'
<1> SUFFICES ASSUME TypeInv, NEW c \in Clients,
                    Open(c) \/ Close(c) \/ Act(c) \/ ResetRequest(c)
             PROVE  TypeInv'
  BY DEF ClientStep
<1> USE DEF TypeInv, TypeOK, CounterBound, BeforeStore, RewarderTypeOK, ConnTypeOK,
            ServerStep, ServerAt, ServerShared, connVars, rewarderVars, loopVars,
            serverVars, historyVars
<1>1. CASE Open(c)
  <2>1. /\ server' = "opened" /\ recent' = recent /\ opening' = c
        /\ connections' = connections \union {c}
    BY <1>1 DEF Open, OnWebsocketOpen
  <2>2. /\ lost' = 0 /\ told' = FALSE /\ hardResets' \in {0, hardResets}
        /\ UNCHANGED <<rewarderVars, resetting, is_done, joystick, loopVars, asker,
                       reply, counter_reg, late, startEpisode>>
    BY <1>1 DEF Open
  <2>3. CounterBound'
    BY <1>1 DEF Open
  <2> QED
    <3>1. ConnTypeOK'
      BY <2>1
    <3>2. server' \in ServerStep
      BY <2>1
    <3>3. lost' \in 0 .. 2
      BY <2>2
    <3>4. hardResets' \in Nat
      BY <2>2
    <3>5. told' \in BOOLEAN
      BY <2>2
    <3> QED
      BY <2>2, <2>3, <3>1, <3>2, <3>3, <3>4, <3>5
<1>2. CASE Close(c)
  BY <1>2 DEF Close, OnWebsocketClose
<1>3. CASE Act(c)
  BY <1>3 DEF Act
<1>4. CASE ResetRequest(c)
  BY <1>4 DEF ResetRequest
<1> QED
  BY <1>1, <1>2, <1>3, <1>4

(* They are kept by the second store of the open handler. *)
LEMMA OpenedKeepsTypes == TypeInv /\ Opened => TypeInv'
BY DEF TypeInv, TypeOK, CounterBound, BeforeStore, RewarderTypeOK, ConnTypeOK, ServerStep,
       ServerAt, Opened, StoreMostRecent, rewarderVars, loopVars, historyVars

(* Every reachable state has the types of TypeOK, and a reset never pushes the
   episode number past the bound it was admitted under. *)
THEOREM TypeCorrect == Spec => []TypeOK
<1>1. Init => TypeInv
  <2> SUFFICES ASSUME Init PROVE TypeInv
    OBVIOUS
  <2>1. ConnTypeOK /\ RewarderTypeOK
    BY RewarderAssumption
       DEF Init, ConnInit, ConnTypeOK, RewarderInit, RewarderTypeOK, StepCount,
           Episode
  <2>2. waits \in 0 .. kMaxResetWaitSecs /\ lost \in 0 .. 2
    BY WaitAssumption DEF Init
  <2>3. loop \in LoopStep /\ server \in ServerStep /\ CounterBound
    BY DEF Init, LoopStep, ServerStep, CounterBound, BeforeStore
  <2> QED
    BY <2>1, <2>2, <2>3, EmptyMessages DEF Init, TypeInv, TypeOK
<1>2. TypeInv /\ [Next]_vars => TypeInv'
  <2>1. TypeInv /\ Next => TypeInv'
    BY LoopKeepsTypes, HandlerKeepsTypes, OpenedKeepsTypes, ClientKeepsTypes
       DEF Next, ClientStep, OnWebsocketMsg
  <2>2. TypeInv /\ UNCHANGED vars => TypeInv'
    BY DEF TypeInv, TypeOK, CounterBound, BeforeStore, RewarderTypeOK, ConnTypeOK,
           vars, connVars, rewarderVars, loopVars, serverVars, historyVars
  <2> QED
    BY <2>1, <2>2
<1>3. TypeInv => TypeOK
  BY DEF TypeInv
<1> QED
  BY <1>1, <1>2, <1>3, PTL DEF Spec

-----------------------------------------------------------------------------
(* The lock invariant: each lock is held exactly while its handler runs. *)
LockInv ==
  /\ AskerStaysConnected
  /\ resetting <=> server \notin {"idle", "opened"}
  /\ LockFree <=> server # "opened"

(* A handler owns the websocket thread until it returns, so no close can take
   away the client it works for. *)
LEMMA LockInvariant == Spec => []LockInv
<1> USE DEF LockInv, AskerStaysConnected, LockFree
<1>1. Init => LockInv
  BY DEF Init, ConnInit
<1>2. TypeOK /\ LockInv /\ [Next]_vars => LockInv'
  <2> SUFFICES ASSUME TypeOK, LockInv, [Next]_vars PROVE LockInv'
    OBVIOUS
  <2>1. CASE Loop
    BY <2>1, LoopLeaves DEF LoopShared, connVars, serverVars
  <2>2. CASE Handler
    <3>1. CASE Unlock
      BY <3>1 DEF Unlock, ServerAt, ServerShared, connVars
    <3>2. CASE SendReply
      <4>1. server = "send" /\ server' \in {"resetting", "resetGame", "after"}
        BY <3>2 DEF SendReply, ServerAt, AfterReply, TypeOK, ReplyKind
      <4> QED
        BY <3>2, <4>1 DEF SendReply, ServerShared, connVars
    <3>3. CASE ~ (Unlock \/ SendReply)
      BY <2>2, <3>3
         DEF Handler, ServerAt, ServerShared, connVars, BeforeReset, StampReply,
             ReplyKind, ResetGame, ResetStep, LoadCounter, StoreCounter,
             ResetReturn, AfterReset, NoOp
    <3> QED
      BY <3>1, <3>2, <3>3
  <2>3. ASSUME NEW c \in Clients, Open(c) PROVE LockInv'
    BY <2>3, ClientsAssumption DEF Open, OnWebsocketOpen, ServerAt
  <2>4. ASSUME NEW c \in Clients, Close(c) PROVE LockInv'
    BY <2>4 DEF Close, OnWebsocketClose, serverVars
  <2>5. ASSUME NEW c \in Clients, Act(c) PROVE LockInv'
    BY <2>5 DEF Act, connVars, serverVars
  <2>6. ASSUME NEW c \in Clients, ResetRequest(c) PROVE LockInv'
    BY <2>6 DEF ResetRequest, ServerAt, ServerShared, connVars
  <2>7. CASE UNCHANGED vars
    BY <2>7 DEF vars, connVars, serverVars
  <2>8. CASE Opened
    BY <2>8 DEF Opened, StoreMostRecent, ServerAt
  <2> QED
    BY <2>1, <2>2, <2>3, <2>4, <2>5, <2>6, <2>7, <2>8 DEF Next, OnWebsocketMsg
<1> QED
  BY <1>1, <1>2, TypeCorrect, PTL DEF Spec

(* In every reachable state the client a reset is handled for is connected. *)
THEOREM AskerConnected == Spec => []AskerStaysConnected
<1>1. LockInv => AskerStaysConnected
  BY DEF LockInv
<1> QED
  BY <1>1, LockInvariant, PTL

-----------------------------------------------------------------------------
(* The main thread is past its test of the lock and on its way to sending a
   reward or a done message. *)
InFlight ==
  \/ loop \in {"step", "storeDone", "loadCount", "storeCount", "wait"}
  \/ /\ loop \in {"loadReturn", "storeReturn", "stamp", "test", "send"}
     /\ msg.kind # "heartbeat"

(* While the lock is held, a message in flight and a message sent late exclude
   each other. *)
LateInv ==
  /\ late \in {0, 1}
  /\ resetting /\ InFlight => late = 0

(* Under the lock the main thread can only leave the flight, and only a send
   counts. *)
LEMMA LoopKeepsLate == TypeOK /\ LateInv /\ Loop => LateInv'
<1> SUFFICES ASSUME TypeOK, LateInv, Loop PROVE LateInv'
  OBVIOUS
<1>1. CASE Send
  BY <1>1 DEF LateInv, InFlight, Send, LoopAt, Resume, LoopShared
<1>2. CASE Stamp
  <2>1. msg'.kind = msg.kind
    BY <1>2 DEF Stamp, TypeOK
  <2> QED
    BY <1>2, <2>1 DEF LateInv, InFlight, Stamp, LoopAt, LoopShared
<1>3. CASE ~ (Send \/ Stamp)
  <2>1. late' = late /\ resetting' = resetting
    BY <1>3
       DEF Loop, LoopGoto, LoopAt, LoopShared, TopConnected, TopDone,
           TopResetting, ElseDone, ElseResetting, StepNotReady, StepReward,
           StoreDone, LoadCount, StoreCount, LoadReturn, StoreReturn,
           TestClients, HardResetStep, HardResetCounter, WhenNoClients,
           CheckDone, WaitNotElapsed, WaitElapsed, Heartbeat
  <2>2. InFlight' /\ resetting => InFlight
    <3>1. CASE StepNotReady \/ TopConnected \/ TopDone \/ TopResetting
      BY <3>1 DEF StepNotReady, TopConnected, TopDone, TopResetting, LoopGoto,
                  LoopAt, InFlight
    <3>2. CASE ElseDone \/ ElseResetting \/ TestClients
      BY <3>2 DEF ElseDone, ElseResetting, TestClients, LoopGoto, LoopAt,
                  InFlight
    <3>3. CASE StepReward \/ StoreDone \/ LoadCount \/ StoreCount \/ WaitElapsed
               \/ WaitNotElapsed
      BY <3>3 DEF StepReward, StoreDone, LoadCount, StoreCount, WaitElapsed,
                  WaitNotElapsed, LoopAt, InFlight
    <3>4. CASE LoadReturn \/ StoreReturn
      BY <3>4 DEF LoadReturn, StoreReturn, LoopAt, InFlight
    <3>5. CASE HardResetStep \/ HardResetCounter \/ WhenNoClients \/ CheckDone
      BY <3>5 DEF HardResetStep, HardResetCounter, WhenNoClients, CheckDone,
                  Resume, LoopAt, InFlight
    <3>6. CASE Heartbeat
      BY <3>6 DEF Heartbeat, LoopAt, InFlight
    <3> QED
      BY <1>3, <3>1, <3>2, <3>3, <3>4, <3>5, <3>6 DEF Loop
  <2> QED
    BY <2>1, <2>2 DEF LateInv
<1> QED
  BY <1>1, <1>2, <1>3

(* So whoever is in flight when the lock is taken is the only one. *)
LEMMA LateInvariant == Spec => []LateInv
<1>1. Init => LateInv
  BY DEF Init, LateInv, InFlight
<1>2. TypeOK /\ LateInv /\ [Next]_vars => LateInv'
  <2> SUFFICES ASSUME TypeOK, LateInv, [Next]_vars PROVE LateInv'
    OBVIOUS
  <2>1. CASE Loop
    BY <2>1, LoopKeepsLate
  <2>2. CASE Handler
    <3>1. InFlight' = InFlight
      BY <2>2, HandlerLeaves DEF ServerShared, loopVars, InFlight
    <3>2. late' = late /\ (resetting' => resetting)
      BY <2>2
         DEF Handler, historyVars, BeforeReset, StampReply, SendReply,
             ResetGame, ResetStep, LoadCounter, StoreCounter, ResetReturn,
             AfterReset, NoOp, Unlock
    <3> QED
      BY <3>1, <3>2 DEF LateInv
  <2>3. ASSUME NEW c \in Clients, Open(c) \/ Close(c) \/ Act(c) PROVE LateInv'
    BY <2>3 DEF LateInv, InFlight, Open, Close, Act, loopVars, historyVars
  <2>4. ASSUME NEW c \in Clients, ResetRequest(c) PROVE LateInv'
    BY <2>4 DEF LateInv, ResetRequest
  <2>5. CASE Opened \/ UNCHANGED vars
    BY <2>5 DEF LateInv, InFlight, Opened, vars, loopVars, historyVars
  <2> QED
    BY <2>1, <2>2, <2>3, <2>4, <2>5 DEF Next, OnWebsocketMsg
<1> QED
  BY <1>1, <1>2, TypeCorrect, PTL DEF Spec

(* At most one reward or done message is sent while the reset lock is held. *)
THEOREM AtMostOneLateMessage == Spec => []OneLateMessage
<1>1. LateInv => OneLateMessage
  BY DEF LateInv, OneLateMessage
<1> QED
  BY <1>1, LateInvariant, PTL

-----------------------------------------------------------------------------
(* Only somebody who found the set empty is about to wipe the counter: if a
   client is connected by now, it has not been wiped since that client's
   arrival. *)
StaleInv ==
  /\ hardResets \in {0, 1}
  /\ loop \in {"hardStep", "hardCounter"} /\ connections # {} => hardResets = 0

(* The main thread commits to a hard reset only when nobody is connected. *)
LEMMA LoopKeepsStale == StaleInv /\ Loop => StaleInv'
<1> SUFFICES ASSUME StaleInv, Loop PROVE StaleInv'
  OBVIOUS
<1>1. connections' = connections
  BY LoopLeaves DEF LoopShared, connVars
<1>2. CASE TestClients
  BY <1>1, <1>2 DEF StaleInv, TestClients, LoopGoto, LoopAt,
                    NoClientsForMessage
<1>3. CASE HardResetStep \/ HardResetCounter
  BY <1>1, <1>3 DEF StaleInv, HardResetStep, HardResetCounter, LoopAt
<1>4. CASE ~ (TestClients \/ HardResetStep \/ HardResetCounter)
  <2>1. hardResets' = hardResets /\ loop' \notin {"hardStep", "hardCounter"}
    BY <1>4
       DEF Loop, LoopGoto, LoopAt, Resume, TopConnected, TopDone, TopResetting,
           ElseDone, ElseResetting, StepNotReady, StepReward, StoreDone,
           LoadCount, StoreCount, LoadReturn, StoreReturn, Stamp, Send,
           WhenNoClients, CheckDone, WaitNotElapsed, WaitElapsed, Heartbeat
  <2> QED
    BY <2>1 DEF StaleInv
<1> QED
  BY <1>2, <1>3, <1>4

(* A reset that is being handled leaves the count of hard resets alone. *)
LEMMA HandlerKeepsHistory ==
  Handler => /\ UNCHANGED <<late, told, hardResets>>
             /\ ~ StampReply /\ ~ Unlock => UNCHANGED startEpisode
BY DEF Handler, historyVars, BeforeReset, StampReply, SendReply, ResetGame,
       ResetStep, LoadCounter, StoreCounter, ResetReturn, AfterReset, NoOp,
       Unlock

(* So whoever wipes the counter of a connected client is the first to. *)
LEMMA StaleInvariant == Spec => []StaleInv
<1>1. Init => StaleInv
  BY DEF Init, StaleInv
<1>2. StaleInv /\ [Next]_vars => StaleInv'
  <2> SUFFICES ASSUME StaleInv, [Next]_vars PROVE StaleInv'
    OBVIOUS
  <2>1. CASE Loop
    BY <2>1, LoopKeepsStale
  <2>2. CASE Handler
    BY <2>2, HandlerLeaves, HandlerKeepsHistory
       DEF StaleInv, ServerShared, connVars, loopVars
  <2>3. ASSUME NEW c \in Clients, Open(c) PROVE StaleInv'
    BY <2>3 DEF StaleInv, Open, loopVars
  <2>4. ASSUME NEW c \in Clients, Close(c) PROVE StaleInv'
    BY <2>4 DEF StaleInv, Close, OnWebsocketClose, loopVars, historyVars
  <2>5. ASSUME NEW c \in Clients, Act(c) \/ ResetRequest(c) PROVE StaleInv'
    BY <2>5 DEF StaleInv, Act, ResetRequest, ServerShared, connVars, loopVars,
                historyVars
  <2>6. CASE Opened \/ UNCHANGED vars
    BY <2>6 DEF StaleInv, Opened, StoreMostRecent, vars, connVars, loopVars, historyVars
  <2> QED
    BY <2>1, <2>2, <2>3, <2>4, <2>5, <2>6 DEF Next, OnWebsocketMsg
<1> QED
  BY <1>1, <1>2, PTL DEF Spec

(* From one arrival in an empty set to the next, the episode counter is wiped
   under a connected client at most once. *)
THEOREM AtMostOneStaleHardReset == Spec => []OneStaleHardReset
<1>1. StaleInv => OneStaleHardReset
  BY DEF StaleInv, OneStaleHardReset
<1> QED
  BY <1>1, StaleInvariant, PTL

-----------------------------------------------------------------------------
(* Where the episode number stands between "resetting" and "running", if it
   has not been wiped. *)
SuccessorInv ==
  hardResets = 0 =>
    /\ (\/ server \in {"resetGame", "resetStep", "loadCounter", "storeCounter"}
        \/ server = "send" /\ reply.kind = "resetting")
          => episode_counter = startEpisode
    /\ server = "storeCounter" => counter_reg = startEpisode
    /\ server \in {"resetReturn", "running"} => episode_counter = startEpisode + 1
    /\ server = "send" /\ reply.kind = "running" => reply.episode = startEpisode + 1

(* The main thread writes the episode counter only to wipe it, and then the
   wipe is counted because the asker is connected. *)
LEMMA LoopKeepsSuccessor ==
  TypeOK /\ LockInv /\ SuccessorInv /\ Loop => SuccessorInv'
<1> SUFFICES ASSUME TypeOK, LockInv, SuccessorInv, Loop PROVE SuccessorInv'
  OBVIOUS
<1>1. UNCHANGED <<connections, server, asker, reply, counter_reg, startEpisode>>
  BY LoopLeaves DEF LoopShared, connVars, serverVars
<1>2. CASE HardResetCounter
  <2>1. CASE server \in {"idle", "opened"}
    BY <1>1, <2>1 DEF SuccessorInv
  <2>2. CASE server \notin {"idle", "opened"}
    BY <1>1, <1>2, <2>2
       DEF SuccessorInv, LockInv, AskerStaysConnected, HardResetCounter, TypeOK
  <2> QED
    BY <2>1, <2>2
<1>3. CASE ~ HardResetCounter
  <2>1. UNCHANGED <<episode_counter, hardResets>>
    BY <1>3
       DEF Loop, LoopGoto, rewarderVars, TopConnected, TopDone, TopResetting,
           ElseDone, ElseResetting, StepNotReady, StepReward, StoreDone,
           LoadCount, StoreCount, LoadReturn, StoreReturn, Stamp, TestClients,
           Send, HardResetStep, WhenNoClients, CheckDone, WaitNotElapsed,
           WaitElapsed, Heartbeat
  <2> QED
    BY <1>1, <2>1 DEF SuccessorInv
<1> QED
  BY <1>2, <1>3

(* The handler carries the number of "resetting" over to its successor. *)
LEMMA HandlerKeepsSuccessor ==
  TypeOK /\ LockInv /\ SuccessorInv /\ Handler => SuccessorInv'
<1> SUFFICES ASSUME TypeOK, LockInv, SuccessorInv, Handler PROVE SuccessorInv'
  OBVIOUS
<1> USE HandlerKeepsHistory DEF SuccessorInv, ServerAt, rewarderVars
<1>1. CASE BeforeReset \/ ResetGame \/ AfterReset \/ NoOp
  BY <1>1 DEF BeforeReset, ResetGame, AfterReset, NoOp, historyVars
<1>2. CASE StampReply
  BY <1>2 DEF StampReply, ReplyKind
<1>3. CASE SendReply
  <2>1. connections # {}
    BY <1>3 DEF SendReply, LockInv, AskerStaysConnected
  <2>2. UNCHANGED <<episode_counter, reply, counter_reg>> /\ server = "send"
    BY <1>3, <2>1 DEF SendReply, NoClientsForMessage
  <2>3. \/ reply.kind = "reply" /\ server' = "resetting"
        \/ reply.kind = "resetting" /\ server' = "resetGame"
        \/ reply.kind = "running" /\ server' = "after"
    BY <1>3 DEF SendReply, AfterReply, TypeOK, ReplyKind
  <2>4. startEpisode' = startEpisode /\ hardResets' = hardResets
    BY <1>3 DEF SendReply
  <2> QED
    BY <2>2, <2>3, <2>4
<1>4. CASE ResetStep \/ LoadCounter
  BY <1>4 DEF ResetStep, LoadCounter, historyVars
<1>5. CASE StoreCounter
  BY <1>5 DEF StoreCounter, historyVars
<1>6. CASE ResetReturn
  BY <1>6 DEF ResetReturn, historyVars
<1>7. CASE Unlock
  BY <1>7 DEF Unlock
<1> QED
  BY <1>1, <1>2, <1>3, <1>4, <1>5, <1>6, <1>7 DEF Handler

(* So a number that was not wiped is never lost on its way. *)
LEMMA SuccessorInvariant == Spec => []SuccessorInv
<1>1. Init => SuccessorInv
  BY DEF Init, SuccessorInv
<1>2. TypeOK /\ LockInv /\ SuccessorInv /\ [Next]_vars => SuccessorInv'
  <2> SUFFICES ASSUME TypeOK, LockInv, SuccessorInv, [Next]_vars
               PROVE  SuccessorInv'
    OBVIOUS
  <2>1. CASE Loop
    BY <2>1, LoopKeepsSuccessor
  <2>2. CASE Handler
    BY <2>2, HandlerKeepsSuccessor
  <2>3. ASSUME NEW c \in Clients, Open(c) PROVE SuccessorInv'
    BY <2>3 DEF SuccessorInv, Open, ServerAt
  <2>4. ASSUME NEW c \in Clients, Close(c) \/ Act(c) PROVE SuccessorInv'
    BY <2>4 DEF SuccessorInv, Close, Act, rewarderVars, serverVars, historyVars
  <2>5. ASSUME NEW c \in Clients, ResetRequest(c) PROVE SuccessorInv'
    BY <2>5 DEF SuccessorInv, ResetRequest, ServerAt
  <2>6. CASE Opened \/ UNCHANGED vars
    BY <2>6 DEF SuccessorInv, Opened, ServerAt, vars, rewarderVars, serverVars, historyVars
  <2> QED
    BY <2>1, <2>2, <2>3, <2>4, <2>5, <2>6 DEF Next, OnWebsocketMsg
<1> QED
  BY <1>1, <1>2, TypeCorrect, LockInvariant, PTL DEF Spec

(* The id in "running" is the successor of the id in "resetting", unless the
   counter was wiped in between. *)
THEOREM RunningFollowsResetting == Spec => []RunningIsNextEpisode
<1>1. SuccessorInv => RunningIsNextEpisode
  BY DEF SuccessorInv, RunningIsNextEpisode
<1> QED
  BY <1>1, SuccessorInvariant, PTL

-----------------------------------------------------------------------------
(* With room for one connection: who is open, and where the main thread is if it
   has already sent a message to the handle before. *)
AloneInv ==
  /\ LockFree => connections \subseteq {recent}
  /\ ~ LockFree => connections = {opening}
  /\ lost \in {0, 1}
  /\ ~ LockFree /\ lost = 1 => loop \in {"checkDone", "top"}

(* Nothing can be lost but between the two stores, and whoever has lost a message
   there waits for the lock before it sends another. *)
LEMMA LoopKeepsAlone == AloneInv /\ Loop => AloneInv'
<1> SUFFICES ASSUME AloneInv, Loop PROVE AloneInv'
  OBVIOUS
<1>1. UNCHANGED <<connections, recent, opening>>
  BY LoopLeaves DEF LoopShared, connVars
<1>2. CASE Send
  <2>1. LockFree => lost' = lost
    BY <1>2 DEF AloneInv, Send, LostWith, NoClientsForMessage, Reachable
  <2>2. ~ LockFree => lost = 0
    BY <1>2 DEF AloneInv, Send, LoopAt
  <2>3. lost' \in {lost, lost + 1} /\ loop' \in {"checkDone", "top"}
    BY <1>2 DEF Send, LoopAt, LostWith, Resume
  <2> QED
    BY <1>1, <2>1, <2>2, <2>3 DEF AloneInv, LockFree
<1>3. CASE ~ Send
  <2>1. lost' = lost
    BY <1>3
       DEF Loop, LoopGoto, TopConnected, TopDone, TopResetting, ElseDone, ElseResetting,
           StepNotReady, StepReward, StoreDone, LoadCount, StoreCount, LoadReturn,
           StoreReturn, Stamp, TestClients, HardResetStep, HardResetCounter,
           WhenNoClients, CheckDone, WaitNotElapsed, WaitElapsed, Heartbeat
  <2>2. ~ LockFree /\ loop \in {"checkDone", "top"} => loop' = "top"
    BY <1>3
       DEF Loop, LoopGoto, LoopAt, TopConnected, TopDone, TopResetting, ElseDone,
           ElseResetting, StepNotReady, StepReward, StoreDone, LoadCount, StoreCount,
           LoadReturn, StoreReturn, Stamp, TestClients, HardResetStep,
           HardResetCounter, WhenNoClients, CheckDone, WaitNotElapsed, WaitElapsed,
           Heartbeat
  <2> QED
    BY <1>1, <2>1, <2>2 DEF AloneInv, LockFree
<1> QED
  BY <1>2, <1>3

(* With room for one connection only, at most one message is lost on the agent
   that holds it. *)
THEOREM AtMostOneLostMessage ==
  ASSUME MaxOpen = 1 PROVE Spec => []OneLostMessage
<1>1. Init => AloneInv
  BY DEF Init, ConnInit, AloneInv, LockFree
<1>2. TypeOK /\ LockInv /\ AloneInv /\ [Next]_vars => AloneInv'
  <2> SUFFICES ASSUME TypeOK, LockInv, AloneInv, [Next]_vars PROVE AloneInv'
    OBVIOUS
  <2>1. CASE Loop
    BY <2>1, LoopKeepsAlone
  <2>2. CASE Handler
    <3>1. UNCHANGED <<connections, recent, opening, loop>>
      BY <2>2, HandlerLeaves DEF ServerShared, connVars, loopVars
    <3>2. CASE SendReply
      <4>1. server = "send"
        BY <3>2 DEF SendReply, ServerAt
      <4>2. LockFree
        BY <4>1 DEF LockInv
      <4>3. lost' = lost
        BY <3>2, <4>2 DEF AloneInv, SendReply, LostWith, NoClientsForMessage, Reachable
      <4> QED
        BY <3>1, <4>3 DEF AloneInv, LockFree
    <3>3. CASE ~ SendReply
      <4>1. lost' = lost
        BY <2>2, <3>3
           DEF Handler, historyVars, BeforeReset, StampReply, ResetGame, ResetStep,
               LoadCounter, StoreCounter, ResetReturn, AfterReset, NoOp, Unlock
      <4> QED
        BY <3>1, <4>1 DEF AloneInv, LockFree
    <3> QED
      BY <3>2, <3>3
  <2>3. ASSUME NEW c \in Clients, Open(c) PROVE AloneInv'
    <3>1. IsFiniteSet(connections)
      BY <2>3, FS_EmptySet, FS_Singleton, FS_Subset
         DEF AloneInv, Open, OnWebsocketOpen
    <3>2. connections = {}
      BY <2>3, <3>1, FS_EmptySet, FS_CardinalityType
         DEF Open, OnWebsocketOpen
    <3>3. c # NoClient
      BY ClientsAssumption
    <3> QED
      BY <2>3, <3>2, <3>3 DEF AloneInv, LockFree, Open, OnWebsocketOpen
  <2>4. ASSUME NEW c \in Clients, Close(c) PROVE AloneInv'
    BY <2>4 DEF AloneInv, LockFree, Close, OnWebsocketClose, loopVars, historyVars
  <2>5. ASSUME NEW c \in Clients, Act(c) \/ ResetRequest(c) PROVE AloneInv'
    BY <2>5 DEF AloneInv, LockFree, Act, ResetRequest, ServerShared, connVars, loopVars,
                historyVars
  <2>6. CASE Opened
    BY <2>6 DEF AloneInv, LockFree, Opened, StoreMostRecent, historyVars
  <2>7. CASE UNCHANGED vars
    BY <2>7 DEF AloneInv, LockFree, vars, connVars, loopVars, historyVars
  <2> QED
    BY <2>1, <2>2, <2>3, <2>4, <2>5, <2>6, <2>7 DEF Next, OnWebsocketMsg
<1>3. AloneInv => OneLostMessage
  BY DEF AloneInv, OneLostMessage
<1> QED
  BY <1>1, <1>2, <1>3, TypeCorrect, LockInvariant, PTL DEF Spec

-----------------------------------------------------------------------------
(* What the refinement needs beyond: the number on its way through the handler
   is the current one or the one described, and the car is at rest once no_op
   has returned. *)
OnItsWay ==
  /\ server = "storeCounter" =>
       counter_reg = episode_counter \/ (hardResets = 1 /\ counter_reg = startEpisode)
  /\ server = "unlock" => joystick = "neutral"

(* The main thread can wipe the number on its way, and only brings the car to
   rest. *)
LEMMA LoopKeepsOnItsWay ==
  TypeOK /\ LockInv /\ StaleInv /\ SuccessorInv /\ OnItsWay /\ Loop => OnItsWay'
<1> SUFFICES ASSUME TypeOK, LockInv, StaleInv, SuccessorInv, OnItsWay, Loop PROVE OnItsWay'
  OBVIOUS
<1>1. UNCHANGED <<connections, server, asker, reply, counter_reg, startEpisode>>
  BY LoopLeaves DEF LoopShared, connVars, serverVars
<1>2. CASE HardResetCounter
  <2>1. CASE server = "storeCounter"
    <3>1. connections # {}
      BY <2>1 DEF LockInv, AskerStaysConnected
    <3>2. hardResets = 0 /\ hardResets' = 1
      BY <1>2, <3>1 DEF HardResetCounter, LoopAt, StaleInv
    <3>3. counter_reg = startEpisode
      BY <2>1, <3>2 DEF SuccessorInv
    <3> QED
      BY <1>1, <2>1, <3>2, <3>3 DEF OnItsWay
  <2>2. CASE server # "storeCounter"
    BY <1>1, <1>2, <2>2 DEF OnItsWay, HardResetCounter
  <2> QED
    BY <2>1, <2>2
<1>3. CASE ~ HardResetCounter
  <2>1. UNCHANGED <<episode_counter, hardResets>> /\ joystick' \in {joystick, "neutral"}
    BY <1>3
       DEF Loop, LoopGoto, rewarderVars, TopConnected, TopDone, TopResetting,
           ElseDone, ElseResetting, StepNotReady, StepReward, StoreDone,
           LoadCount, StoreCount, LoadReturn, StoreReturn, Stamp, TestClients,
           Send, HardResetStep, WhenNoClients, CheckDone, WaitNotElapsed,
           WaitElapsed, Heartbeat
  <2> QED
    BY <1>1, <2>1 DEF OnItsWay
<1> QED
  BY <1>2, <1>3

(* Both hold in every reachable state. *)
LEMMA OnItsWayInvariant == Spec => []OnItsWay
<1>1. Init => OnItsWay
  BY DEF Init, OnItsWay
<1>2. TypeOK /\ LockInv /\ StaleInv /\ SuccessorInv /\ OnItsWay /\ [Next]_vars => OnItsWay'
  <2> SUFFICES ASSUME TypeOK, LockInv, StaleInv, SuccessorInv, OnItsWay, [Next]_vars
               PROVE  OnItsWay'
    OBVIOUS
  <2>1. CASE Loop
    BY <2>1, LoopKeepsOnItsWay
  <2>2. CASE Handler
    <3>1. CASE LoadCounter
      BY <3>1 DEF LoadCounter, ServerAt, OnItsWay, rewarderVars
    <3>2. CASE NoOp
      BY <3>2 DEF NoOp, ServerAt, OnItsWay
    <3>3. CASE ~ (LoadCounter \/ NoOp)
      <4>1. server' \notin {"storeCounter", "unlock"}
        BY <2>2, <3>3
           DEF Handler, ServerAt, AfterReply, TypeOK, ReplyKind, BeforeReset, StampReply, SendReply,
               ResetGame, ResetStep, StoreCounter, ResetReturn, AfterReset, Unlock
      <4> QED
        BY <4>1 DEF OnItsWay
    <3> QED
      BY <3>1, <3>2, <3>3
  <2>3. ASSUME NEW c \in Clients, Open(c) \/ Close(c) \/ Act(c) \/ ResetRequest(c)
        PROVE  OnItsWay'
    BY <2>3 DEF OnItsWay, Open, Close, Act, ResetRequest, ServerAt, serverVars
  <2>4. CASE Opened \/ UNCHANGED vars
    BY <2>4 DEF OnItsWay, Opened, ServerAt, vars, rewarderVars, serverVars, historyVars
  <2> QED
    BY <2>1, <2>2, <2>3, <2>4 DEF Next, OnWebsocketMsg
<1> QED
  BY <1>1, <1>2, TypeCorrect, LockInvariant, StaleInvariant, SuccessorInvariant, PTL DEF Spec

(* The stages, step by step. *)
LEMMA Stages ==
  /\ StageOf("send", "reply") = "answered"
  /\ StageOf("send", "resetting") = "resetting"
  /\ StageOf("send", "running") = "running"
  /\ \A kind \in ReplyKind :
       /\ \A s \in {"idle", "opened"} : StageOf(s, kind) = "playing"
       /\ \A s \in {"before", "reply"} : StageOf(s, kind) = "asked"
       /\ StageOf("resetting", kind) = "answered"
       /\ \A s \in {"resetGame", "resetStep", "loadCounter", "storeCounter"} :
            StageOf(s, kind) = "resetting"
       /\ \A s \in {"resetReturn", "running"} : StageOf(s, kind) = "renumbered"
       /\ \A s \in {"after", "noOp", "unlock"} : StageOf(s, kind) = "running"
BY DEF StageOf, ReplyKind

\* What the promise is about, as the threads' variables have it.
Said == IF Stage = "running" THEN reply.episode ELSE startEpisode

Shown == <<connections, Stage, asker, episode_counter, Said, hardResets, late, joystick>>

(* The main thread does what may happen at any time, or nothing that shows. *)
LEMMA LoopPromised ==
  ASSUME TypeOK, LockInv, LateInv, StaleInv, Loop
  PROVE  Promise!Next \/ UNCHANGED Shown
<1>1. UNCHANGED <<connections, server, asker, reply, startEpisode, resetting>>
  BY LoopLeaves DEF LoopShared, connVars, serverVars
<1>2. UNCHANGED <<Stage, Said>>
  BY <1>1 DEF Stage, Said
<1>3. Stage # "playing" <=> resetting
  BY Stages DEF Stage, LockInv, TypeOK, ServerStep, ReplyKind
<1>4. CASE HardResetCounter
  <2>1. episode_counter' = 0 /\ late' = late /\ joystick' = joystick
    BY <1>4 DEF HardResetCounter
  <2>2. IF connections = {} THEN hardResets' = hardResets ELSE hardResets = 0 /\ hardResets' = 1
    BY <1>4 DEF HardResetCounter, LoopAt, StaleInv
  <2>3. Promise!Wipe
    BY <1>1, <1>2, <2>1, <2>2 DEF Promise!Wipe, Said
  <2> QED
    BY <2>3 DEF Promise!Next
<1>5. CASE WhenNoClients
  <2>1. Promise!Halt
    BY <1>1, <1>2, <1>5 DEF Promise!Halt, WhenNoClients, rewarderVars, Said
  <2> QED
    BY <2>1 DEF Promise!Next
<1>6. CASE Send
  <2>1. UNCHANGED <<episode_counter, hardResets, joystick>>
    BY <1>6 DEF Send, rewarderVars
  <2>2. CASE resetting /\ msg.kind # "heartbeat"
    <3>1. late = 0 /\ late' = 1
      BY <1>6, <2>2 DEF Send, LoopAt, LateInv, InFlight
    <3>2. Promise!TellLate
      BY <1>1, <1>2, <1>3, <2>1, <2>2, <3>1 DEF Promise!TellLate, Said
    <3> QED
      BY <3>2 DEF Promise!Next
  <2>3. CASE ~ (resetting /\ msg.kind # "heartbeat")
    <3>1. late' = late
      BY <1>6, <2>3 DEF Send, TypeOK
    <3> QED
      BY <1>1, <1>2, <2>1, <3>1 DEF Shown
  <2> QED
    BY <2>2, <2>3
<1>7. CASE ~ (HardResetCounter \/ WhenNoClients \/ Send)
  <2>1. UNCHANGED <<episode_counter, hardResets, late, joystick>>
    BY <1>7
       DEF Loop, LoopGoto, rewarderVars, TopConnected, TopDone, TopResetting,
           ElseDone, ElseResetting, StepNotReady, StepReward, StoreDone,
           LoadCount, StoreCount, LoadReturn, StoreReturn, Stamp, TestClients,
           HardResetStep, CheckDone, WaitNotElapsed, WaitElapsed, Heartbeat
  <2> QED
    BY <1>1, <1>2, <2>1 DEF Shown
<1> QED
  BY <1>4, <1>5, <1>6, <1>7

(* A handler goes from stage to stage. *)
LEMMA HandlerPromised ==
  ASSUME TypeOK, LockInv, StaleInv, SuccessorInv, OnItsWay, Handler
  PROVE  Promise!Next \/ UNCHANGED Shown
<1>1. UNCHANGED <<connections, late, hardResets>>
  BY HandlerLeaves, HandlerKeepsHistory DEF ServerShared, connVars
<1>2. reply.kind \in ReplyKind
  BY DEF TypeOK
<1>3. CASE BeforeReset \/ ResetGame \/ ResetStep \/ LoadCounter \/ ResetReturn \/ AfterReset
  <2>1. UNCHANGED <<asker, reply, episode_counter, startEpisode, joystick>>
    BY <1>3 DEF BeforeReset, ResetGame, ResetStep, LoadCounter, ResetReturn, AfterReset,
                rewarderVars, historyVars
  <2>2. UNCHANGED Stage
    BY <1>2, <1>3, <2>1, Stages
       DEF Stage, BeforeReset, ResetGame, ResetStep, LoadCounter, ResetReturn, AfterReset, ServerAt
  <2> QED
    BY <1>1, <2>1, <2>2 DEF Shown, Said
<1>4. CASE StampReply
  <2>1. /\ UNCHANGED <<asker, episode_counter, joystick>>
        /\ server \in ReplyKind /\ server' = "send"
        /\ reply' = [kind |-> server, episode |-> episode_counter]
        /\ startEpisode' = IF server = "resetting" THEN episode_counter ELSE startEpisode
    BY <1>4 DEF StampReply, rewarderVars
  <2>2. reply'.kind = server /\ reply'.episode = episode_counter
    BY <2>1
  <2>3. CASE server = "reply"
    <3>1. Stage = "asked" /\ Stage' = "answered"
      BY <1>2, <2>1, <2>2, <2>3, Stages DEF Stage
    <3>2. UNCHANGED Said
      BY <2>1, <2>3, <3>1 DEF Said
    <3>3. Promise!Answer
      BY <1>1, <2>1, <3>1, <3>2 DEF Promise!Answer, Said
    <3> QED
      BY <3>3 DEF Promise!Next
  <2>4. CASE server = "resetting"
    <3>1. Stage = "answered" /\ Stage' = "resetting"
      BY <1>2, <2>1, <2>2, <2>4, Stages DEF Stage
    <3>2. Said' = episode_counter
      BY <2>1, <2>4, <3>1 DEF Said
    <3>3. Promise!Announce
      BY <1>1, <2>1, <3>1, <3>2 DEF Promise!Announce, Said
    <3> QED
      BY <3>3 DEF Promise!Next
  <2>5. CASE server = "running"
    <3>1. Stage = "renumbered" /\ Stage' = "running"
      BY <1>2, <2>1, <2>2, <2>5, Stages DEF Stage
    <3>2. Said = startEpisode /\ Said' = episode_counter
      BY <2>2, <3>1 DEF Said
    <3>3. hardResets = 0 => episode_counter = startEpisode + 1
      BY <2>5 DEF SuccessorInv
    <3>4. Promise!Start
      BY <1>1, <2>1, <3>1, <3>2, <3>3 DEF Promise!Start, Said
    <3> QED
      BY <3>4 DEF Promise!Next
  <2> QED
    BY <2>1, <2>3, <2>4, <2>5 DEF ReplyKind
<1>5. CASE SendReply
  <2>1. connections # {}
    BY <1>5 DEF SendReply, ServerAt, LockInv, AskerStaysConnected
  <2>2. /\ UNCHANGED <<asker, reply, episode_counter, startEpisode, joystick>>
        /\ server = "send" /\ server' = AfterReply
    BY <1>5, <2>1 DEF SendReply, ServerAt, NoClientsForMessage, rewarderVars
  <2>3. \/ reply.kind = "reply" /\ server' = "resetting"
        \/ reply.kind = "resetting" /\ server' = "resetGame"
        \/ reply.kind = "running" /\ server' = "after"
    BY <1>2, <2>2 DEF AfterReply, ReplyKind
  <2>4. UNCHANGED Stage
    BY <1>2, <2>2, <2>3, Stages DEF Stage
  <2> QED
    BY <1>1, <2>2, <2>4 DEF Shown, Said
<1>6. CASE StoreCounter
  <2>1. /\ UNCHANGED <<asker, reply, startEpisode, joystick>>
        /\ server = "storeCounter" /\ server' = "resetReturn"
        /\ episode_counter' = counter_reg + 1
    BY <1>6 DEF StoreCounter, ServerAt, historyVars
  <2>2. Stage = "resetting" /\ Stage' = "renumbered"
    BY <1>2, <2>1, Stages DEF Stage
  <2>3. Said = startEpisode /\ Said' = startEpisode
    BY <2>1, <2>2 DEF Said
  <2>4. episode_counter' = episode_counter + 1
        \/ (hardResets = 1 /\ episode_counter' = startEpisode + 1)
    BY <2>1 DEF OnItsWay
  <2>5. Promise!Renumber
    BY <1>1, <2>1, <2>2, <2>3, <2>4 DEF Promise!Renumber, Said
  <2> QED
    BY <2>5 DEF Promise!Next
<1>7. CASE NoOp
  <2>1. /\ UNCHANGED <<asker, reply, episode_counter, startEpisode>>
        /\ server = "noOp" /\ server' = "unlock" /\ joystick' = "neutral"
    BY <1>7 DEF NoOp, ServerAt, rewarderVars, historyVars
  <2>2. UNCHANGED <<Stage, Said>>
    BY <1>2, <2>1, Stages DEF Stage, Said
  <2>3. Promise!Halt
    BY <1>1, <2>1, <2>2 DEF Promise!Halt, Said
  <2> QED
    BY <2>3 DEF Promise!Next
<1>8. CASE Unlock
  <2>1. /\ UNCHANGED <<episode_counter, joystick>>
        /\ server = "unlock" /\ server' = "idle" /\ asker' = NoClient
        /\ reply' = NoReply /\ startEpisode' = 0
    BY <1>8 DEF Unlock, ServerAt, rewarderVars
  <2>2. Stage = "running" /\ Stage' = "playing"
    BY <1>2, <2>1, Stages DEF Stage, NoReply, ReplyKind
  <2>3. Said' = 0
    BY <2>1, <2>2 DEF Said
  <2>4. joystick = "neutral"
    BY <2>1 DEF OnItsWay
  <2>5. Promise!End
    BY <1>1, <2>1, <2>2, <2>3, <2>4 DEF Promise!End, Said
  <2> QED
    BY <2>5 DEF Promise!Next
<1> QED
  BY <1>3, <1>4, <1>5, <1>6, <1>7, <1>8 DEF Handler

(* What clients do, they do between resets. *)
LEMMA ClientPromised ==
  ASSUME TypeOK, NEW c \in Clients, Open(c) \/ Close(c) \/ Act(c) \/ ResetRequest(c)
  PROVE  Promise!Next
<1>1. server = "idle" /\ reply' = reply /\ startEpisode' = startEpisode /\ reply.kind \in ReplyKind
  BY DEF Open, Close, Act, ResetRequest, ServerAt, serverVars, historyVars, TypeOK
<1>2. Stage = "playing" /\ Said = startEpisode
  BY <1>1, Stages DEF Stage, Said
<1>3. CASE Open(c)
  <2>1. UNCHANGED <<asker, reply, late, startEpisode, episode_counter, joystick>> /\ server' = "opened"
    BY <1>3 DEF Open, ServerAt, rewarderVars
  <2>2. Stage' = "playing"
    BY <1>1, <2>1, Stages DEF Stage
  <2>3. UNCHANGED <<Stage, Said>>
    BY <1>2, <2>1, <2>2 DEF Said
  <2> QED
    BY <1>2, <1>3, <2>1, <2>3 DEF Open, OnWebsocketOpen, Promise!Next, Promise!Come, Said
<1>5. CASE Close(c) \/ Act(c)
  <2>1. UNCHANGED <<asker, late, episode_counter>> /\ server' = server
    BY <1>5 DEF Close, Act, rewarderVars, serverVars, historyVars
  <2>2. UNCHANGED <<Stage, Said>>
    BY <1>1, <2>1 DEF Stage, Said
  <2>3. CASE Close(c)
    BY <1>2, <2>1, <2>2, <2>3
       DEF Close, OnWebsocketClose, historyVars, Promise!Next, Promise!Leave, Said
  <2>4. CASE Act(c)
    BY <1>2, <2>1, <2>2, <2>4 DEF Act, connVars, historyVars, Promise!Next, Promise!Drive, Said
  <2> QED
    BY <1>5, <2>3, <2>4
<1>4. CASE ResetRequest(c)
  <2>1. /\ UNCHANGED <<connections, episode_counter, hardResets, joystick>>
        /\ server' = "before" /\ asker' = c /\ late' = 0 /\ c \in connections
    BY <1>4 DEF ResetRequest, ServerAt, ServerShared, connVars, rewarderVars
  <2>2. Stage' = "asked"
    BY <1>1, <2>1, Stages DEF Stage
  <2>3. Said' = Said
    BY <1>1, <1>2, <2>2 DEF Said
  <2>4. Promise!Ask(c)
    BY <1>2, <2>1, <2>2, <2>3 DEF Promise!Ask, Said
  <2> QED
    BY <2>4 DEF Promise!Next
<1> QED
  BY <1>3, <1>4, <1>5

(* The second store of the open handler does not show. *)
LEMMA OpenedPromised == ASSUME TypeOK, Opened PROVE UNCHANGED Shown
<1>1. UNCHANGED <<connections, asker, reply, episode_counter, startEpisode, hardResets, late, joystick>>
  BY DEF Opened, StoreMostRecent, rewarderVars, historyVars
<1>2. Stage = "playing" /\ Stage' = "playing"
  BY <1>1, Stages DEF Stage, Opened, ServerAt, TypeOK
<1> QED
  BY <1>1, <1>2 DEF Shown, Said

(* The two threads implement the episodes that the agents are promised. *)
THEOREM PromiseKept == Spec => EpisodesSpec
<1>1. Init => Promise!Init
  <2> SUFFICES ASSUME Init PROVE Promise!Init
    OBVIOUS
  <2>1. Stage = "playing" /\ Said = 0
    BY Stages DEF Init, Stage, Said, NoReply, ReplyKind
  <2> QED
    BY <2>1 DEF Init, ConnInit, RewarderInit, Promise!Init, Said
<1>2. /\ TypeOK /\ LockInv /\ LateInv /\ StaleInv /\ SuccessorInv /\ OnItsWay
      /\ [Next]_vars
      => [Promise!Next]_(Promise!vars)
  <2> SUFFICES ASSUME TypeOK, LockInv, LateInv, StaleInv, SuccessorInv, OnItsWay, [Next]_vars
               PROVE  Promise!Next \/ UNCHANGED Shown
    BY DEF Shown, Promise!vars, Said
  <2>1. CASE Loop
    BY <2>1, LoopPromised
  <2>2. CASE Handler
    BY <2>2, HandlerPromised
  <2>3. ASSUME NEW c \in Clients, Open(c) \/ Close(c) \/ Act(c) \/ ResetRequest(c)
        PROVE  Promise!Next
    BY <2>3, ClientPromised
  <2>4. CASE UNCHANGED vars
    BY <2>4 DEF vars, connVars, rewarderVars, serverVars, historyVars, Shown, Stage, Said
  <2>5. CASE Opened
    BY <2>5, OpenedPromised
  <2> QED
    BY <2>1, <2>2, <2>3, <2>4, <2>5 DEF Next, OnWebsocketMsg
<1> QED
  BY <1>1, <1>2, TypeCorrect, LockInvariant, LateInvariant, StaleInvariant, SuccessorInvariant,
     OnItsWayInvariant, PTL DEF Spec, EpisodesSpec, Promise!Spec
=============================================================================
