------------------------------ MODULE GTAVEnv ------------------------------
(***************************************************************************)
(* The controller process: the two threads that drive one environment.     *)
(*                                                                         *)
(*   the loop   GTAVEnv::loop on the main thread: steps the episode, tells *)
(*              the agent it is done, or sends heartbeats                  *)
(*   the server the websocket thread: opens, closes, actions and the whole *)
(*              of Env::reset run inside its handlers, one at a time       *)
(*                                                                         *)
(* They share the reset lock's flag, is_done_, the Rewarder's counters,    *)
(* the joystick and the connection set, and each reads them without        *)
(* excluding the other: one action here is one read, one write or one      *)
(* call that the other thread cannot see the middle of.                    *)
(*                                                                         *)
(* The reward calculator is abstracted to what this module can tell apart: *)
(* get_reward decides done or not, reset clears is_done_ (RewardCalculator *)
(* and ResetHandshake model the rest of it).                               *)
(***************************************************************************)
EXTENDS AgentConn, Rewarder

CONSTANT
  kMaxResetWaitSecs   \* one-second waits before done is told again: 10

ASSUME WaitAssumption == kMaxResetWaitSecs \in Nat

VARIABLES
  resetting,    \* reset_lock_.owns_lock()
  is_done,      \* GTAVRewardCalculator::is_done_
  joystick,     \* "neutral": steer and throttle are zero; "driven": not both
  loop,         \* where the main thread is
  msg,          \* the reward message it is preparing
  reg,          \* the Rewarder value it has loaded and not yet stored
  waits,        \* whole one-second waits since is_done_time, at most the limit
  server,       \* where the websocket thread is
  asker,        \* the client whose reset request it is handling
  reply,        \* the message that handler is preparing
  counter_reg   \* the episode_counter it has loaded and not yet stored

VARIABLES       \* history, read by no action
  late,         \* reward and done messages sent since the reset lock was taken
  told,         \* the current client was sent done since is_done last rose
  hardResets,   \* times episode_counter was zeroed since a client first opened
  startEpisode, \* the episode the "resetting" description was stamped with
  lost          \* messages sent to a closed handle with somebody connected,
                \* since a client last opened; counted up to two

loopVars    == <<loop, msg, reg, waits>>
serverVars  == <<server, asker, reply, counter_reg>>
historyVars == <<late, told, hardResets, startEpisode, lost>>
vars == <<connVars, rewarderVars, resetting, is_done, joystick, loopVars,
          serverVars, historyVars>>

MessageKind == {"reward", "done", "heartbeat"}
ReplyKind   == {"reply", "resetting", "running"}

NoMsg   == [kind |-> "heartbeat", episode |-> 0, done |-> FALSE]
NoReply == [kind |-> "reply", episode |-> 0]

LoopStep ==
  {"top", "topDone", "topResetting", "step", "storeDone", "loadCount",
   "storeCount", "loadReturn", "storeReturn", "stamp", "test", "send",
   "hardStep", "hardCounter", "whenNoClients", "checkDone", "elseDone",
   "elseResetting", "wait", "heartbeat"}

ServerStep ==
  {"idle", "opened", "before", "reply", "resetting", "running", "send", "resetGame",
   "resetStep", "loadCounter", "storeCounter", "resetReturn", "after", "noOp",
   "unlock"}

TypeOK ==
  /\ ConnTypeOK
  /\ RewarderTypeOK
  /\ resetting \in BOOLEAN
  /\ is_done \in BOOLEAN
  /\ joystick \in {"neutral", "driven"}
  /\ loop \in LoopStep
  /\ msg \in [kind : MessageKind, episode : Episode, done : BOOLEAN]
  /\ reg \in StepCount
  /\ loop = "storeReturn" => reg \in {0, 1}
  /\ waits \in 0 .. kMaxResetWaitSecs
  /\ server \in ServerStep
  /\ asker \in Clients \union {NoClient}
  /\ reply \in [kind : ReplyKind, episode : Episode]
  /\ counter_reg \in Episode
  /\ late \in Nat
  /\ told \in BOOLEAN
  /\ hardResets \in Nat
  /\ startEpisode \in Episode
  /\ lost \in 0 .. 2

\* The loop starts once connect() has returned and no_op() has run; this is
\* the state it is then in when no client has come yet.
Init ==
  /\ ConnInit
  /\ RewarderInit
  /\ resetting = FALSE
  /\ is_done = FALSE
  /\ joystick = "neutral"
  /\ loop = "top" /\ msg = NoMsg /\ reg = 0
  /\ waits = kMaxResetWaitSecs     \* is_done_time starts at the epoch
  /\ server = "idle" /\ asker = NoClient /\ reply = NoReply
  /\ counter_reg = 0
  /\ late = 0 /\ told = FALSE /\ hardResets = 0 /\ startEpisode = 0
  /\ lost = 0

-----------------------------------------------------------------------------
(* The main thread.  LoopGoto(from, to) is a step that only moves it.      *)

LoopAt(from, to) == loop = from /\ loop' = to

LoopShared == <<connVars, resetting, serverVars, startEpisode>>

LoopGoto(from, to) ==
  /\ LoopAt(from, to)
  /\ UNCHANGED <<LoopShared, rewarderVars, is_done, joystick, msg, reg, waits,
                 late, told, hardResets, lost>>

\* Variant: the size is read without the lock here too.
TopConnected_NoLock ==
  LoopGoto("top", IF ClientIsConnected THEN "topDone" ELSE "elseDone")

\* if (client_is_connected() && ! is_done() && ! resetting()); the first waits
\* for m_connection_lock_.
TopConnected ==
  /\ LockFree
  /\ LoopGoto("top", IF ClientIsConnected THEN "topDone" ELSE "elseDone")

TopDone == LoopGoto("topDone", IF is_done THEN "elseDone" ELSE "topResetting")

\* Variant: the loop forgets the lock.
TopResetting_NoTest == LoopGoto("topResetting", "step")

TopResetting ==
  LoopGoto("topResetting", IF resetting THEN "elseDone" ELSE "step")

\* else if (is_done() && ! resetting())
ElseDone ==
  LoopGoto("elseDone", IF is_done THEN "elseResetting" ELSE "heartbeat")

ElseResetting ==
  LoopGoto("elseResetting", IF resetting THEN "heartbeat" ELSE "wait")

\* step() when ready_for_reward() says it is too early.
StepNotReady == LoopGoto("step", "checkDone")

\* step() when it is time: sendReward_ reads the game and get_reward decides.
StepReward ==
  /\ LoopAt("step", "storeDone")
  /\ \E done \in BOOLEAN :
       msg' = [kind |-> "reward", episode |-> 0, done |-> done]
  /\ UNCHANGED <<LoopShared, rewarderVars, is_done, joystick, reg, waits, late,
                 told, hardResets, lost>>

\* The end of get_reward: is_done_ = done, whatever happened since it decided.
StoreDone ==
  /\ LoopAt("storeDone", "loadCount")
  /\ is_done' = msg.done
  /\ told' = FALSE
  /\ UNCHANGED <<LoopShared, rewarderVars, joystick, msg, reg, waits, late,
                 hardResets, lost>>

\* sendRewardAndIncrementStepCounter: episode_step_counter++.
LoadCount ==
  /\ LoopAt("loadCount", "storeCount")
  /\ reg' = episode_step_counter
  /\ UNCHANGED <<LoopShared, rewarderVars, is_done, joystick, msg, waits, late,
                 told, hardResets, lost>>

StoreCount ==
  /\ LoopAt("storeCount", IF PastWarmUp(reg) THEN "loadReturn" ELSE "checkDone")
  /\ episode_step_counter' = NextStepCount(reg)
  /\ reg' = 0
  /\ UNCHANGED <<LoopShared, episode_counter, episode_return, is_done, joystick,
                 msg, waits, late, told, hardResets, lost>>

\* sendReward_: episode_return += reward (0 unless a step computed it).
LoadReturn ==
  /\ LoopAt("loadReturn", "storeReturn")
  /\ reg' = episode_return
  /\ UNCHANGED <<LoopShared, rewarderVars, is_done, joystick, msg, waits, late,
                 told, hardResets, lost>>

StoreReturn ==
  /\ LoopAt("storeReturn", "stamp")
  /\ \E r \in IF msg.kind = "reward" THEN {0, 1} ELSE {0} :
       episode_return' = AddReward(reg, r)
  /\ reg' = 0
  /\ UNCHANGED <<LoopShared, episode_step_counter, episode_counter, is_done,
                 joystick, msg, waits, late, told, hardResets, lost>>

\* get_episode_id().
Stamp ==
  /\ LoopAt("stamp", "test")
  /\ msg' = [msg EXCEPT !.episode = episode_counter]
  /\ UNCHANGED <<LoopShared, rewarderVars, is_done, joystick, reg, waits, late,
                 told, hardResets, lost>>

\* sendJson_: the size test, then either the send or no_clients_signal_.
TestClients ==
  LoopGoto("test", IF NoClientsForMessage THEN "hardStep" ELSE "send")

\* Where the caller of sendJson_ goes on.  After sendIsDone is_done_time is
\* set anew and the loop sleeps for a second.
Resume == IF msg.kind = "reward" THEN "checkDone" ELSE "top"

WaitsAfterSend == IF msg.kind = "done" THEN 0 ELSE waits

\* Handle and size are read without the lock, each as it is by then.
LostWith == IF ~ NoClientsForMessage /\ ~ Reachable /\ lost < 2 THEN lost + 1 ELSE lost

Send ==
  /\ LoopAt("send", Resume)
  /\ waits' = WaitsAfterSend
  /\ msg' = NoMsg
  /\ late' = late + (IF resetting /\ msg.kind # "heartbeat" THEN 1 ELSE 0)
  /\ told' = (told \/ (msg.done /\ Reachable))
  /\ lost' = LostWith
  /\ UNCHANGED <<LoopShared, rewarderVars, is_done, joystick, reg, hardResets>>

\* Rewarder::hard_reset: two stores, and no store to episode_return.
HardResetStep ==
  /\ LoopAt("hardStep", "hardCounter")
  /\ episode_step_counter' = 0
  /\ UNCHANGED <<LoopShared, episode_counter, episode_return, is_done, joystick,
                 msg, reg, waits, late, told, hardResets, lost>>

HardResetCounter ==
  /\ LoopAt("hardCounter", "whenNoClients")
  /\ episode_counter' = 0
  /\ hardResets' = IF connections = {} THEN hardResets ELSE hardResets + 1
  /\ UNCHANGED <<LoopShared, episode_step_counter, episode_return, is_done,
                 joystick, msg, reg, waits, late, told, lost>>

\* Variant: the calculator is reset, the joystick left alone.
WhenNoClients_NoOpMissing ==
  /\ LoopAt("whenNoClients", Resume)
  /\ is_done' = FALSE
  /\ waits' = WaitsAfterSend
  /\ msg' = NoMsg
  /\ UNCHANGED <<LoopShared, rewarderVars, joystick, reg, late, told,
                 hardResets, lost>>

\* GTAVEnv::when_no_clients: reset the calculator, then no_op.
WhenNoClients ==
  /\ LoopAt("whenNoClients", Resume)
  /\ is_done' = FALSE
  /\ joystick' = "neutral"
  /\ waits' = WaitsAfterSend
  /\ msg' = NoMsg
  /\ UNCHANGED <<LoopShared, rewarderVars, reg, late, told, hardResets, lost>>

\* After step(): if (is_done()) is_done_time = now.
CheckDone ==
  /\ LoopAt("checkDone", "top")
  /\ waits' = IF is_done THEN 0 ELSE waits
  /\ msg' = NoMsg
  /\ UNCHANGED <<LoopShared, rewarderVars, is_done, joystick, reg, late, told,
                 hardResets, lost>>

\* Waiting for the reset.  Each pass sleeps for at least a second, so the wait
\* may be over at any pass and is over after kMaxResetWaitSecs of them.
WaitNotElapsed ==
  /\ LoopAt("wait", "top")
  /\ waits < kMaxResetWaitSecs
  /\ waits' = waits + 1
  /\ UNCHANGED <<LoopShared, rewarderVars, is_done, joystick, msg, reg, late,
                 told, hardResets, lost>>

\* Variant: the extra message goes out with done = false.
WaitElapsed_NotDone ==
  /\ LoopAt("wait", "loadReturn")
  /\ msg' = [kind |-> "done", episode |-> 0, done |-> FALSE]
  /\ UNCHANGED <<LoopShared, rewarderVars, is_done, joystick, reg, waits, late,
                 told, hardResets, lost>>

\* rewarder.sendIsDone()
WaitElapsed ==
  /\ LoopAt("wait", "loadReturn")
  /\ msg' = [kind |-> "done", episode |-> 0, done |-> TRUE]
  /\ UNCHANGED <<LoopShared, rewarderVars, is_done, joystick, reg, waits, late,
                 told, hardResets, lost>>

\* rewarder.sendHeartbeat()
Heartbeat ==
  /\ LoopAt("heartbeat", "loadReturn")
  /\ msg' = [kind |-> "heartbeat", episode |-> 0, done |-> FALSE]
  /\ UNCHANGED <<LoopShared, rewarderVars, is_done, joystick, reg, waits, late,
                 told, hardResets, lost>>

Loop ==
  \/ TopConnected \/ TopDone \/ TopResetting \/ ElseDone \/ ElseResetting
  \/ StepNotReady \/ StepReward \/ StoreDone \/ LoadCount \/ StoreCount
  \/ LoadReturn \/ StoreReturn \/ Stamp \/ TestClients \/ Send
  \/ HardResetStep \/ HardResetCounter \/ WhenNoClients
  \/ CheckDone \/ WaitNotElapsed \/ WaitElapsed \/ Heartbeat

-----------------------------------------------------------------------------
(* The websocket thread.                                                   *)

ServerAt(from, to) == server = from /\ server' = to

Open(c) ==
  /\ ServerAt("idle", "opened")
  /\ OnWebsocketOpen(c)
  /\ hardResets' = IF connections = {} THEN 0 ELSE hardResets
  /\ told' = FALSE
  /\ lost' = 0
  /\ UNCHANGED <<rewarderVars, resetting, is_done, joystick, loopVars, asker,
                 reply, counter_reg, late, startEpisode>>

Opened ==
  /\ ServerAt("opened", "idle")
  /\ StoreMostRecent
  /\ UNCHANGED <<rewarderVars, resetting, is_done, joystick, loopVars, asker,
                 reply, counter_reg, historyVars>>

\* Variant: run() on several threads, a close handled during a reset.
Close_Concurrent(c) ==
  /\ OnWebsocketClose(c)
  /\ UNCHANGED <<rewarderVars, resetting, is_done, joystick, loopVars,
                 serverVars, historyVars>>

Close(c) ==
  /\ server = "idle"
  /\ OnWebsocketClose(c)
  /\ UNCHANGED <<rewarderVars, resetting, is_done, joystick, loopVars,
                 serverVars, historyVars>>

\* v0.agent.action: any joystick event, for or against neutral.
Act(c) ==
  /\ server = "idle"
  /\ c \in connections
  /\ joystick' \in {"neutral", "driven"}
  /\ UNCHANGED <<connVars, rewarderVars, resetting, is_done, loopVars,
                 serverVars, historyVars>>

ServerShared == <<connVars, loopVars>>

\* v0.env.reset: Env::reset takes the lock.
ResetRequest(c) ==
  /\ ServerAt("idle", "before")
  /\ c \in connections
  /\ episode_counter < MaxEpisode
  /\ ~ resetting
  /\ resetting' = TRUE
  /\ asker' = c
  /\ late' = 0
  /\ UNCHANGED <<ServerShared, rewarderVars, is_done, joystick, reply,
                 counter_reg, told, hardResets, startEpisode, lost>>

\* before_reset: the calculator's reset clears is_done_.
BeforeReset ==
  /\ ServerAt("before", "reply")
  /\ is_done' = FALSE
  /\ UNCHANGED <<ServerShared, rewarderVars, resetting, joystick, asker, reply,
                 counter_reg, historyVars>>

\* Each message of the handler is stamped with get_episode_id() first ...
StampReply ==
  /\ server \in ReplyKind
  /\ server' = "send"
  /\ reply' = [kind |-> server, episode |-> episode_counter]
  /\ startEpisode' = IF server = "resetting" THEN episode_counter
                                             ELSE startEpisode
  /\ UNCHANGED <<ServerShared, rewarderVars, resetting, is_done, joystick,
                 asker, counter_reg, late, told, hardResets, lost>>

AfterReply == [reply |-> "resetting", resetting |-> "resetGame",
               running |-> "after"][reply.kind]

\* ... and then sent.  With nobody connected sendJson_ would run the same
\* no-clients handler as on the main thread, from inside the reset.
SendReply ==
  /\ ServerAt("send", AfterReply)
  /\ IF NoClientsForMessage
     THEN /\ episode_step_counter' = 0
          /\ episode_counter' = 0
          /\ is_done' = FALSE
          /\ joystick' = "neutral"
          /\ UNCHANGED episode_return
     ELSE UNCHANGED <<rewarderVars, is_done, joystick>>
  /\ lost' = LostWith
  /\ UNCHANGED <<ServerShared, resetting, asker, reply, counter_reg, late, told,
                 hardResets, startEpisode>>

\* reset_game: load the saved game (or only sleep), then wait for the script.
ResetGame ==
  /\ ServerAt("resetGame", "resetStep")
  /\ UNCHANGED <<ServerShared, rewarderVars, resetting, is_done, joystick,
                 asker, reply, counter_reg, historyVars>>

\* Rewarder::reset
ResetStep ==
  /\ ServerAt("resetStep", "loadCounter")
  /\ episode_step_counter' = 0
  /\ UNCHANGED <<ServerShared, episode_counter, episode_return, resetting,
                 is_done, joystick, asker, reply, counter_reg, historyVars>>

LoadCounter ==
  /\ ServerAt("loadCounter", "storeCounter")
  /\ counter_reg' = episode_counter
  /\ UNCHANGED <<ServerShared, rewarderVars, resetting, is_done, joystick,
                 asker, reply, historyVars>>

\* Variant: the old number is written back.
StoreCounter_NoIncrement ==
  /\ ServerAt("storeCounter", "resetReturn")
  /\ episode_counter' = counter_reg
  /\ UNCHANGED <<ServerShared, episode_step_counter, episode_return, resetting,
                 is_done, joystick, asker, reply, counter_reg, historyVars>>

StoreCounter ==
  /\ ServerAt("storeCounter", "resetReturn")
  /\ episode_counter' = counter_reg + 1
  /\ UNCHANGED <<ServerShared, episode_step_counter, episode_return, resetting,
                 is_done, joystick, asker, reply, counter_reg, historyVars>>

ResetReturn ==
  /\ ServerAt("resetReturn", "running")
  /\ episode_return' = 0
  /\ UNCHANGED <<ServerShared, episode_step_counter, episode_counter, resetting,
                 is_done, joystick, asker, reply, counter_reg, historyVars>>

\* Variant: after_reset leaves the joystick as it was.
NoOp_Skipped ==
  /\ ServerAt("noOp", "unlock")
  /\ UNCHANGED <<ServerShared, rewarderVars, resetting, is_done, joystick, asker,
                 reply, counter_reg, historyVars>>

\* after_reset: the calculator's reset, then no_op, then the guard unlocks.
AfterReset ==
  /\ ServerAt("after", "noOp")
  /\ is_done' = FALSE
  /\ UNCHANGED <<ServerShared, rewarderVars, resetting, joystick, asker, reply,
                 counter_reg, historyVars>>

NoOp ==
  /\ ServerAt("noOp", "unlock")
  /\ joystick' = "neutral"
  /\ UNCHANGED <<ServerShared, rewarderVars, resetting, is_done, asker, reply,
                 counter_reg, historyVars>>

Unlock ==
  /\ ServerAt("unlock", "idle")
  /\ resetting' = FALSE
  /\ asker' = NoClient
  /\ reply' = NoReply
  /\ counter_reg' = 0
  /\ startEpisode' = 0
  /\ UNCHANGED <<ServerShared, rewarderVars, is_done, joystick, late, told,
                 hardResets, lost>>

\* on_websocket_msg_: one message of a client.  Malformed ones and pings, which
\* are answered and change nothing, are left out.
OnWebsocketMsg(c) == Act(c) \/ ResetRequest(c)

Handler ==
  \/ BeforeReset \/ StampReply \/ SendReply \/ ResetGame \/ ResetStep
  \/ LoadCounter \/ StoreCounter \/ ResetReturn \/ AfterReset \/ NoOp
  \/ Unlock

Next ==
  \/ Loop
  \/ Handler
  \/ Opened
  \/ \E c \in Clients : Open(c) \/ Close(c) \/ OnWebsocketMsg(c)

Spec == Init /\ [][Next]_vars

\* Both threads keep running; what clients do is up to them.
FairSpec == Spec /\ WF_vars(Loop) /\ WF_vars(Handler) /\ WF_vars(Opened)

-----------------------------------------------------------------------------
(* Properties.                                                             *)

(* While Env::reset runs, the client that asked for it is still in
   m_connections_: its close waits behind the handler.  So the three messages
   of a reset never find the set empty, and a reset never wipes the episode
   counter it is about to advance (AgentConn.cpp:199 called from Env.h:55-59). *)
AskerStaysConnected == server \notin {"idle", "opened"} => asker \in connections

(* The loop may be past its resetting() test when a reset begins, and then
   finishes what it was doing: at most one reward or done message is sent
   while the lock is held, and everything else the agent hears from the loop
   is a heartbeat (GTAVEnv.cpp:39, 48, 61-66). *)
OneLateMessage == late <= 1

(* The no-clients decision is made on a size read without the lock, and may
   be carried out long after a client has come.  It can wipe the episode
   counter under the feet of a connected client once, never twice, until the
   next time nobody is connected (AgentConn.cpp:199-204, Rewarder.cpp:22). *)
OneStaleHardReset == hardResets <= 1

(* The agent tells its episodes apart by id: if no stale hard reset came in
   between, "running" is stamped with the successor of the id "resetting" was
   stamped with (Env.h:56-59, Rewarder.cpp:33). *)
RunningIsNextEpisode ==
  (server = "send" /\ reply.kind = "running" /\ hardResets = 0)
     => reply.episode = startEpisode + 1

\* How far the reset being handled is; a description counts as given once it has
\* been stamped.
StageOf(step, kind) ==
  IF step = "send"
  THEN [reply |-> "answered", resetting |-> "resetting", running |-> "running"][kind]
  ELSE [idle |-> "playing", opened |-> "playing", before |-> "asked", reply |-> "asked",
        resetting |-> "answered", resetGame |-> "resetting",
        resetStep |-> "resetting", loadCounter |-> "resetting",
        storeCounter |-> "resetting", resetReturn |-> "renumbered",
        running |-> "renumbered", after |-> "running", noOp |-> "running",
        unlock |-> "running"][step]

Stage == StageOf(server, reply.kind)

Promise == INSTANCE Episodes WITH
             agents <- connections, stage <- Stage, episode <- episode_counter,
             said <- IF Stage = "running" THEN reply.episode ELSE startEpisode,
             wipes <- hardResets, car <- joystick

(* The two threads together keep the promise: whatever the loop was in the
   middle of when the reset came, the agent is told of its stages in order, the
   numbers advance, nothing drives the car meanwhile, and it is at rest when
   the next episode begins (Env.h:45-61, GTAVEnv.cpp:30-68, 168-184). *)
EpisodesSpec == Promise!Spec

(* An agent that is connected alone may lose a message, because the open handler
   has stored its connection and not yet its handle while the main thread sends
   without the lock.  It loses one at most: the main thread's next pass begins
   with client_is_connected, which waits for the handler to be through
   (AgentConn.cpp:102, 152-159, 199-205, GTAVEnv.cpp:39). *)
OneLostMessage == lost <= 1

(* Outside the open handler messages go to an open connection whenever there is
   one, as the warning at AgentConn.cpp:156 has it even for several: the most
   recent handle is an open one (AgentConn.cpp:158-164, 205). *)
SentToOpenConnection == LockFree /\ connections # {} => recent \in connections

(* A finished episode is not forgotten: with an agent connected it is told, in
   the reward that ended it or by sendIsDone when that one was dropped by the
   warm-up or by a reconnect, unless a reset starts the next episode first
   (GTAVEnv.cpp:43-58, Rewarder.cpp:59). *)
DoneIsTold ==
  (is_done /\ connections # {}) ~> (told \/ ~ is_done \/ connections = {})

(* A car whose agent has left comes to rest: steer and throttle go back to
   zero, or somebody else connects (GTAVEnv.cpp:65, 179-184). *)
AbandonedCarStops ==
  connections = {} ~> (joystick = "neutral" \/ connections # {})
=============================================================================
