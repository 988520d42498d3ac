# Verification of universe-windows-envs

TLA+ models of the programs that turn Grand Theft Auto V into a reinforcement
learning environment: the controller that talks to the agent, the script that
runs inside the game with the libraries it uses, and the Python scripts that start,
update and release them. TLC
checks the models on small instances; TLAPS proves the main safety properties
for every value of the constants. `PROJECT.json` lists the runs, the source lines
each definition stands for, a mutated definition for every property, the hazards
and the theorems.

Paths below are relative to the repository's root.

## The system

    agent(s)  <--websocket-->  GTAVController  <--shared memory-->  game script (in GTA5.exe)
                                    |  keys, joystick                      |
                                    +---------> GTA5.exe  <----------------+
    run_vnc_env.py starts and watches: VNC server, GTA5.exe, GTAVController
    update.py replaces the installation while none of them runs
    copy_ami.py releases the machine image all of it runs on

| Component | State | Operations | Interacts with |
|---|---|---|---|
| `GTAVEnv::loop` (main thread), `vnc-gtav/GTAVController/src/GTAVEnv.cpp` | `is_done_time`, the message being built | step, wait for reset, tell done again, heartbeat, no-clients handling | Rewarder, AgentConn, calculator, joystick, shared memory |
| `Env::reset`, `Env::act` (websocket thread), `vnc-windows/CommonController/include/Env.h` | `reset_lock_` | reset request, action | the same |
| `AgentConn` | `m_connections_`, `most_recent_websocket_cxn_` | open, close, message, `sendJson_` | agents; calls back `no_clients_signal_` |
| `Rewarder` | `episode_step_counter`, `episode_counter`, `episode_return` | reset, hard_reset, count a step, build a reward message | called by both threads |
| `GTAVRewardCalculator` | `embarked_`, `closest_distance_`, `is_done_`, times, last penalties | `get_reward`, `reset`, `get_is_done` | called by both threads; reads and writes `SharedAgentMemory` |
| Reset request in `SharedAgentMemory` | `should_reset_agent`, the published collision and jariness, the camera | request, change settings, poll, wipe, publish | controller and game script, no lock |
| Game script, `vnc-gtav/GTAVScriptHookProxy/src/script.cpp` | camera, `last_collision_time_`, jariness, traffic clock | one tick: poll keys and flag, `reset_agent`, measure, publish | shared memory; the game's natives |
| `connect`, `reset_game`, `wait_for_script` | `shared_` | look for the memory, load the story mode, reload the saved game | both threads; keystrokes to the game |
| `run_vnc_env.py`, `gym_windows/vnc.py` | handles, `started` | start, watch, clean up | processes and windows of the machine |
| `update.py` | the installation, its backup | back up, delete, download, restore | files, network |
| Keyboard of the script, `Keyboard.cpp` | `keyStates` | `onKeyboardMessage`, `isKeyJustUp` | written by the window thread, read and cleared by the tick |
| Road map, `nodes.cpp` | `nodes`, by the game's node ids | `populateNodes`, `setLinePoints` | reads an XML file through tinyxml2 |
| tinyxml2, `tinyxml2.cpp`, `tinyxml2.h` (part of the script's own project) | the node tree, its pools, the text it was parsed from | insert, move, delete, `Parse`, `LoadFile`, `Accept`, `GetStr` | called by `nodes.cpp` |
| `bin/copy_ami.py` | images by region, the queue of new ones | copy, make public, deregister | EC2 |
| Joystick, scenarios | see *Not modelled* | | |

### What is hard about it

*Two threads, almost no locks.* `websocketpp` runs every handler on one thread,
and `GTAVEnv::loop` runs on another. The only mutexes are the connection set's
(taken in some of its readers, and not where a message picks its target) and `reset_lock_`, which the loop tests and never
takes. `is_done_`, the Rewarder's counters, `embarked_`, `closest_distance_` and
the joystick are written by both. The properties that matter: what a message of
the loop can say while a reset is running; what a decision made on a stale size of
the connection set can destroy; that an episode's id and its end reach the agent.

*Two processes, no lock at all.* The controller and the game script share a struct.
The script polls a flag, wipes values one by one and lowers the flag. The property
that matters: a lowered flag means that nothing measured before the latest request
is visible.

*Waiting for something that has no signal.* The controller learns that a reload has
ended from a clock that has moved, the supervisor that a process is there from a list
it takes every five seconds.

*Steps that fail in the middle.* The updater deletes before it has downloaded; a release
that raises leaves images which the next one finds.

*Answers that age.* The script asks once a second which vehicle the player is in and
measures that one on every tick; a key counts as "just up" for many ticks.

*Pointers and memory by hand.* tinyxml2 links nodes in four directions, counts
them in pools, and translates every value over the text it came from, on first use.

### What makes each component correct

- Controller: at most one reward or done message of the loop is sent during a reset; an
  agent alone loses at most one message by connecting at the wrong moment; a reset finds its asker connected throughout; "running" carries the id after
  "resetting"; a finished episode is told to the agent; an abandoned car stops.
- Calculator: the distance rewards of an episode add up to the way the car has come
  nearer, whatever resets run into them; a car that gets nowhere is taken out of
  its episode.
- Shared memory: the promise of `ResetMailbox`.
- Connecting: `connect()` and every reset end once the player sits in a car.
- Supervisor: an end it could have noticed is reported; nothing is left behind that
  disturbs the next run.
- Penalties: between two resets nothing is charged twice; a car that stays off the road goes
  on paying.
- Script: what is measured is the vehicle in use; a key acts once; the camera follows.
- Updater: a user who is told to retry has something to retry with.
- Release: no region loses its last public image; a copy that is ready is made public.
- tinyxml2: the pointers are an ordered tree and the pools count it; what parses is what was
  written, what is printed parses to the same, and a value read late is still right.
- Road map: every node has its links in the end (it has not, see `lost`); evenly ruled roads.

## Modules

| Module | Models | Proofs |
|---|---|---|
| `AgentConn` | connections and the target of messages | in `GTAVEnvProofs` |
| `Rewarder` | the counters, as operators on loaded values | in `GTAVEnvProofs` |
| `Episodes` | what agents are promised: episodes and resets, without threads | in `GTAVEnvProofs` |
| `GTAVEnv` | composes `AgentConn` and `Rewarder` with the loop and the handlers; implements `Episodes` | `GTAVEnvProofs` |
| `ResetMailbox` | the abstract promise of the shared memory | |
| `ResetHandshake` | both sides of it, store by store; implements `ResetMailbox` | `ResetHandshakeProofs` |
| `RewardCalculator` | `get_distance_reward`, the end of an episode, `reset` on either thread | `RewardCalculatorProofs` |
| `Penalties` | the off-road, speed and discomfort penalties, `reset` on either thread, the script's sums | in `RewardCalculatorProofs` |
| `Connect` | `connect`, `reset_game`, `wait_for_script` on both threads, external game | |
| `GameScript` | the script's tick: refresh, camera, keys, reset, measuring; the window thread | `GameScriptProofs` |
| `Supervisor` | `run_vnc_env.py` and the machine's processes | `MachineProofs` |
| `Update` | `update.py` over several runs | `MachineProofs` |
| `AmiRelease` | `copy_ami.py` over several releases | in `MachineProofs` |
| `RoadNodes` | `populateNodes` and `setLinePoints` | `RoadNodesProofs` |
| `XMLHeap` | tinyxml2's nodes, pointers and pools, as operators on a heap | in `XMLTreeProofs` |
| `OrderedTree` | the tree the header promises, without pointers | in `XMLTreeProofs` |
| `XMLTree` | a caller of the library; implements `OrderedTree` | `XMLTreeProofs` |
| `XMLParser`, `XMLPrinter` | `ParseDeep` and `XMLPrinter`, token by token, as operators | the parser in `XMLDocumentProofs` |
| `XMLDocument` | one document loaded again and again; composes the three above | `XMLDocumentProofs` |
| `XMLText` | the characters of names and values, translated in place | |

The `MC` modules instantiate them for TLC; the values are in the `.cfg` files. Where one
`MC` module takes several modules that share no state (`MCLifecycle`, `MCXMLDocument`,
`MCRewardCalculator`), the variable `scene` picks which of them moves; the others rest in
an initial state of theirs.

### How the models correspond to the code

**GTAVEnv.** The variable `loop` is where the main thread is, `server` where the
websocket thread is. A condition of the code with three operands
(`client_is_connected() && ! is_done() && ! resetting()`) is three steps,
for each operand is a read the other thread can come before. `x++` on a member
is a load (`LoadCount`, into the thread's copy `reg`) and a store (`StoreCount`).
A message is built and sent in the order of `Rewarder::sendReward_` and
`AgentConn::sendJson_`: `LoadReturn`, `StoreReturn`, `Stamp` (the episode id),
`TestClients` (the size test), then `Send`, or `HardResetStep`, `HardResetCounter`,
`WhenNoClients` when nobody is connected. The server's handlers run one at a
time: `Open`, `Close`, `Act` and `ResetRequest` need `server = "idle"`. The open
handler is two steps with the connection lock held between them, for
`sendJson_` reads size and handle without it: `Open` stores the connection, `Opened`
the handle. What does take the lock, `client_is_connected`, waits meanwhile (`LockFree`).
`Env::reset` is the path from `BeforeReset` to `Unlock`. `episode_step_counter`
saturates one above the warm-up, with which alone it is compared;
`episode_return` is 0 or not. The reward calculator is reduced to *done or not*.
History variables (`late`, `lost`, `told`, `hardResets`, `startEpisode`) are read by
no action.

**Episodes.** `Stage` maps where the websocket thread is to how far the reset is for the agent: a
message counts as sent only when it leaves, so that all that builds it belongs to the stage
before. What was last described (`said`) is the number on its way once "running" has been
stamped, and the number of the beginning before. What can go wrong is part of the promise, each
once: a late message (`TellLate`), and numbers that start again with an agent there (`Wipe`),
after which the successor of the one described may come back (`Renumber`).

**ResetHandshake.** `published` holds, for the collision and the jariness, the set
of request numbers it was measured after; `measured` is the script's own copy.
`script` is where the tick is: poll, the four stores of `reset_agent` that matter,
the store that lowers the flag, measuring, two stores of publishing. Fields that a
tick computes afresh are not kept: they are never older than a tick.

**RewardCalculator.** `loop` follows `get_distance_reward` from read to read:
`Sample`, `Embark`, `SetClosest`, `EmbarkedTest`, `CompareNearer` (the first
read of `closest_distance_`), `Progress` (the second), `SetProgress`, `Arrive`,
`Crash`, and `reset` when done. `server` is `Env::reset`: the calculator's reset,
the reload, the calculator's reset again. Time is the seconds since the last progress.
A distance that is not a whole number changes nothing in the code, like the -1
of a pathfinder without an answer, and is the same value.

**Penalties.** `jariness` is the shared memory's three sums, `jerks` the script's own
three; `Source` says from which of these each axis is published (the vertical
one from `x`, as `script.cpp:387` does). A look is one step up to each read of the memory:
`Charge(a)` and `Remember(a)` are the two reads of an axis. What a look charges is sent, whatever
reset it has run into. `Reset` is the calculator's `reset` on either thread, store by store, the
store to `is_done_` with the last axis; `Tell` is the script's tick with its wipe in the
order of `reset_agent`. The speed's excess is 1. History: `charged` is what the looks have charged
by axis since it was wiped, `forgotten` how much of that a reset has let the calculator forget.

**GameScript.** `script` is where the tick is. `Refresh` is the refresh up to the choice
of a new camera, `Attach` its creation, which reads the offsets again. `Consume` is
`resetKeyState`. A key message is two stores, the time and then `isUpNow`; the wrapping
sum of `isKeyJustUp` is taken modulo `TickCounts`. `staleFor` (WAITs since the player
changed vehicles) and `owed` (keys that went up and did not act since) are history.
`reset_agent` is one step; its stores are those of `ResetHandshake` and `Penalties`.

**AmiRelease.** `images` and `public` are what the regions hold, `queue` is
`new_image_ids`. A call may raise at any point of copying or cleaning up and ends the
script there; while copies are made public a failure only rotates the queue.

**RoadNodes.** A node of the file is its guid and the id of the game's nearest vehicle node
(any id: several nodes may share one); a link is its number in the file. `PlaceLink` is one
pass of the second loop, with the single handler around both look-ups. The call of
`populateNodes` is commented out at present (`rewards.cpp:75`), so that what is found here is
latent. The lines of a road
are distances in halves of a lane, computed by the cases of `setLinePoints`.

**XMLHeap, XMLTree.** A heap is a record of the five pointers of every node, the
attribute names, and the pools with their free lists, block by block. What a
destructor takes with it is `Below` a node: its children and theirs, each after what hangs
below it; `DestroyAll` destroys them one after the other. Texts, comments, declarations and
unknowns are one kind of node, `Leaf`: where `SetText` asks whether the first child is a text,
the answer is a choice for each of them. `XMLTree` has one action for each call. What the library only asserts under `DEBUG` is the caller's
side: no use of deleted nodes, no node below itself, and `SafeAfter`.

**XMLParser, XMLPrinter, XMLDocument.** A token is a whole tag, text, comment and so on, in
a whole and in several broken forms; `Feed` is what the recursion does with the next one,
and `stack` is the recursion. `XMLDocument` chooses the tokens one by one and may end
the input after any. The printer works on the calls of the visitor; `Lex` reads what it
prints back as tokens.

**XMLText.** One element with an attribute and a text, as characters in one array:
`bytes` is the parser's copy, and `GetStr` writes over it as the code does, terminators
included. The pieces a value is made of are those the translations tell apart: a blank, CR,
LF, a bare `&`, a double quote, a broken reference, named and numeric ones of one and of two
bytes, among them one to a carriage return. The value stands between quotes of either kind.
`Reprint` prints the element as `XMLPrinter` does, which takes from the document whether
entities are processed, and gives what it printed back to the parser under the same switches.

**Connect.** `AllocateSharedMemory` is the script's side of the shared memory's creation and
`WaitForSharedMemory` the controller's. `game` is external: at its menu, driving, on foot or loading. The
script publishes the clock only while the player drives (`Tick`), and each thread
remembers whether it has moved since it read it. `asked` is the time between the last
key and the beginning of the reload. A use of `shared_` while it is null ends the
process (`crashed`).

**Supervisor.** `running` is what `tasklist` lists, `launched` what a shell has been told
to start. Any process may end at any time, a game window may be late, the user may
have a folder of the game's name open. `runner` is the line the script is at.

**Update.** The installation and the backup are sets of scripts. Every copy, the download, the
extraction and every copy back can fail at any file; both `rmdir` may leave anything
that is in use, and `run_win_cmd` never sees their exit code.

## Runs

| Run | Instance | Shows |
|---|---|---|
| `pair` | two agents, both connected at times | the asker of a reset stays connected (`AskerStaysConnected`); at most one late message (`OneLateMessage`); ids follow each other (`RunningIsNextEpisode`); refinement of `Episodes` (`EpisodesSpec`) |
| `solo` | two agents, never at once, fair threads | at most one message is lost on an agent that has just connected (`OneLostMessage`); a finished episode is told (`DoneIsTold`); an abandoned car stops (`AbandonedCarStops`) |
| `reward` | distances to 5, end distance 2, patience 2; in other scenes a car driven anyhow, and a car that jerks and is reset | no metre paid twice (`NoOverpay`); every metre paid outside a reset (`PaidInFull`); a stalled episode ends (`StalledEpisodeEnds`); between two resets an axis is not charged for more than it holds (`ChargedOnceBetweenResets`); leaving the road goes on costing (`OffRoadKeepsCosting`) |
| `lifecycle` | six scenes: three regions and three releases; three scripts and two runs of the updater; any leftovers of an earlier run of the supervisor; a game that loads and two resets; three reset requests to a fair script; three pieces in the two values of an element | no region loses its last public image (`NeverWithout`); a ready copy is made public (`ReadyIsPublished`); a user asked to retry has every script (`RetryIsPossible`); the backup is complete while the installation is replaced (`BackupIsComplete`); nothing left behind (`NothingLeftBehind`); what has been seen complete is watched (`SeenCrashIsReported`); `connect()` and each reset end while the player drives (`WaitsEnd`); a lowered flag means fresh values (`FreshWhenLowered`); the agent's camera setting is kept (`SettingKept`); every request is served (`RequestServed`); refinement of `ResetMailbox` (`KeepsPromise`); values read in place as written (`ReadAsWritten`), the text behind them unchanged (`RestUntouched`), printed values read back (`PrintedReadsBack`) |
| `script` | two vehicles, two offsets, four outside events, a refresh every second tick | the vehicle in use is measured (`MeasuresVehicleInUse`); a key acts once (`KeyActsOnce`); the camera follows (`CameraFollows`) |
| `xmltree` | three elements in two blocks, one leaf | pointers agree (`WellLinked`); pools count right (`Accounted`); refinement of `OrderedTree`, each call doing what was asked (`TreeSpec`) |
| `xmldocument` | six tokens, loaded up to several times; in the other scene one link with up to three lanes each way | parsed as written (`ParsedAsWritten`), refused for cause (`RefusedForCause`), nothing leaked (`NothingLeaks`), printed and parsed to the same (`RoundTrip`); roads ruled evenly (`RoadsAreRuled`) |

Five runs check a sentence of the repository against what the code does, and end in a
violation:

| Run | Property | The repository says | The code does |
|---|---|---|---|
| `recent` | `SentToOpenConnection` | "sending to most recent connection only" (`AgentConn.cpp:156`) | the newer of two agents closes, `most_recent_websocket_cxn_` stays on it, and the agent that is left hears nothing |
| `twice` | `NothingChargedTwice` | "the rewards that we have aggregated since the last call" (`GTAVRewardCalculator.cpp:26`) | `reset` forgets the remembered sums at once, the memory keeps its own until the script wipes them, and a look in between charges them again |
| `after` | `MovedFromItsOldPlace` | a child node that is already part of the document "is moved from its old location to the new location" (`tinyxml2.h:805-807`) | `InsertAfterChild` unlinks the node and then follows `afterThis->_next`, null by then if the node was the last child and right behind `afterThis` |
| `declaration` | `DeclarationComesFirst` | "A declaration can only be the first child of a document." (`tinyxml2.cpp:990`) | `<a><?d?></a>` is accepted: the document has no children before its first element is complete |
| `lost` | `EverythingInPlace` | "Puts everything into place for fast searching by nodeID" (`nodes.cpp:143`) | of two links to one node the first is forgotten when the second begins at a new node; the file is proper: every link joins two nodes of it |

The passing runs go on from what the code does: `RefusedForCause` takes the rule for
declarations and attributes that the code applies, `ChargedOnceBetweenResets` leaves out just
what a reset has forgotten, `WellLinked` is about calls that `SafeAfter` allows.

### Seen in the models, with no run of their own

Controller and scripts:

- a done that falls into the warm-up is told for the first time by the message of
  `GTAVEnv.cpp:55` that says "again"; `hard_reset` leaves `episode_return` as it was;
- a reward counted in one episode may be stamped with the id of the next and so be sent in
  its warm-up (`Rewarder.cpp:48`; the comment at line 58 says none is);
- `connect()` reloads without the reset lock (`GTAVEnv.cpp:76`; `Env.h:49` speaks of
  skipping concurrent requests); a message handled before it has set `shared_` uses a null
  pointer (`Connect`'s `crashed`); the wait after a reload may end on the clock of the old
  session; the distance "progress" of an episode being reset can be minus the distance;
- a process that ends before the supervisor's first complete look is never reported
  (`run_vnc_env.py:220`; `vnc-gtav/README.md:194` says it monitors them);
- the retry of a failed update deletes the only backup (`update.py:19`; line 68 promises a
  restore).

Penalties and script:

- the vertical jariness that is published is the lateral sum (`script.cpp:387`; the debug text
  at 371 shows `jariness.z` as the vertical one), so that a jerk sideways is charged on two axes
  and one up and down on none; what the script adds between the two reads of an axis is never
  charged;
- the off-road clock is not restarted by a reset (`GTAVRewardCalculator.cpp:214`);
- the offsets the camera is compared with are never assigned, so that a zero offset is not
  honoured on the same vehicle; `reset_agent` lowers `use_custom_camera` and leaves the
  camera rendered; F11 pressed while the flag is up resets once more; a key that no tick has
  consumed is "just up" again when the tick count wraps.

Road map:

- the array of links has a fixed size and is never constructed, and the result of `LoadFile`
  is not looked at.

tinyxml2:

- `InsertAfterChild` links a node to itself when it is `afterThis`; `SafeAfter` rules that out,
  and the case of the run `after`;
- an attribute given twice is detected and the element refused (1671), though the comment below
  it says that it "will not be detected" and "doubly added" (1676-1678);
- without entities a double quote in an attribute cannot be printed: the value ends early and
  what was printed is refused (2222-2269); a text of which translating leaves white space only
  is printed as such and is no text when it is read back; `PrintedReadsBack` names both;
- a bare `&` leaves a stale character behind anything that got shorter (333-337); `&#` at the
  end loses its `&`;
- a malformed file leaves the untracked count above zero (977-983), so that the `DEBUG`
  assertion at 1872-1879 would fail on the next load; `Parse` of a string clears the pools;
- a stray end tag ends the parse silently; `</a/>` is read as `<a/>`; text at the end of a
  document cannot be parsed;
- `OpenElement` prints its spaces also inside text (2284-2300): `RoundTrip` excludes
  exactly the documents this changes.

### Bounds, and why they are enough

- *Agents* (`Clients`, `MaxOpen`): code and properties compare connections with one
  another and with nobody; two agents give every relation. `MaxOpen = 1` is the
  deployment the code's warning asks for.
- *Episodes* (`MaxEpisode = 2`): ids matter by successor and by being zeroed; two
  resets put one reset after another. The proofs have no bound.
- *Warm-up* (`kWarmUpSteps`, 5 in the code): 1, which gives steps on both sides of the test.
- *Waits* (`kMaxResetWaitSecs`, 10): 1; the wait may end at any pass.
- *Requests* (`MaxRequests = 3`): one being served, one in the middle of the wipe, one after.
- *Distances*: 0 to 5 around an end distance of 2: three distances beyond it are enough for
  nearer, again nearer and not nearer; 0, 1 and 2 are before and at it.
- *Resets* (`MaxResets = 2`), *runs* (`MaxRuns = 2`): the second is the one that meets what
  the first has left.
- *Scripts*: three, so that a copy can fail at the first, in the middle and at the last;
  *regions*: three, so that the queue can rotate with one image that is never ready between two
  others; *releases*: three, so that the third meets what two have left.
- *Jariness* (`MaxFelt = 1`): one jerk on each component in each of any number of
  episodes; charged or not, wiped or not is all the property asks. `MaxCharged = 1`: no look
  begins once an axis has been charged for more than 1, which is what it takes to be charged
  twice. Each limit is 0 or 1 second. The car jerks only forward and sideways in this scene, since
  nothing reads the third component, and time stands still while the loop is in a look. The proof
  is for all of it.
- *Tick* (`RefreshTicks = 2` for 100, `NowPeriod = 2` of `TickCounts = 4`): ticks with and
  without refresh, keys within and past their period, and a clock that wraps. The proofs are
  for all values.
- *Road map*: three lanes give odd and even in every case, and the lines are those of one link.
  For `lost`, two links on three ids suffice.
- *Heap*: two blocks, so that a pool grows; three elements and a leaf give a first, a middle
  and a last sibling, and depth three. Attributes are set on one element. A first child that
  `SetText` does not take for a text needs a second leaf, which this instance has not; the proofs
  have any number.
- *Tokens* (6, of which one from the rare and broken ones, 2 for inputs after the first):
  two open elements with crossed end tags and something between them; the pools hold as many
  items, so that `Read` is never refused one. *Pieces* (3, one of
  them longer than a character): a piece before and behind what gets shorter.

### Fairness

Weak fairness is assumed of the threads of the program and of nothing else that decides:
the loop (it spins with sleeps), the handler of the websocket thread once it has begun, the
script's tick (the game calls it while the player drives), the supervisor's loop, the clock. No
fairness is assumed of agents (who connects, acts, asks for a reset), of the user, of
processes ending, or of a step that fails. In `Connect` a load that has begun ends.
That the player sits in a car is a premise of the properties, not of the specification.
`Penalties` assumes that a look that has begun is finished and that time passes, not that
anybody looks (a premise of `OffRoadKeepsCosting`). `AmiRelease` assumes of the loop that makes
images public only that it runs, and of EC2 nothing: an image may never be ready.
`GameScript` assumes the script's thread and the handler that has begun to store a camera
setting; in it nobody is obliged to press a key or change vehicles.

### Assumptions on time

- `GetRewardIsShort` (`RewardCalculator`): no `get_reward` lasts as long as the
  reload it runs into. The reload sleeps for a second at the least, and `get_reward` is
  arithmetic on shared memory. `NoOverpay` is proved without it; `PaidInFull` needs it.
- `Sleep` (`Connect`): in 311 ms the clock of a game that runs has moved.
- `WaitElapsed` (`GTAVEnv`): the wait is over at any pass and at the latest after
  `kMaxResetWaitSecs` of them, since each sleeps for a second or more.

Reads and writes of one member are taken as atomic, as the build's aligned loads and
stores of ints, bools and doubles are. Between them everything may happen.

## Proofs

Every theorem is about all values of the constants under the named assumptions of the
modules. They say that bounds are numbers (`WaitAssumption`, `RewarderAssumption`,
`RequestsAssumption`, `CalculatorAssumption`, `PenaltyAssumption`, `UpdateAssumption`,
`RoadAssumption`), that "no client", "no vehicle", "no node" and the null pointer are none of what they stand
beside (`ClientsAssumption`, `ScriptAssumption`, `RoadAssumption`, `HeapAssumption`),
that a release starts from one of the regions and keeps at least two versions, as
`copy_ami.py` does (`ReleaseAssumption`), that a key's period is shorter than the tick count's (`ScriptAssumption`), that the items of the
pools' blocks are distinct addresses and no block is empty (`HeapAssumption`), and which
elements a caller sets attributes on (`CallerAssumption`), and of the inputs to the parser only that
they consist of tokens (`InputAssumption`).

**GTAVEnvProofs.** Two lemmas say that each thread leaves the other's variables
alone (`LoopLeaves`, `HandlerLeaves`). `TypeCorrect` needs `CounterBound`: from the
admission of a request to the store of the new number, `episode_counter` is below
the bound. `AskerConnected` rests on `LockInv`: the reset lock is held exactly while the
websocket thread is in the handler, so that no close can be handled, and the connection lock
exactly between the two stores of an open. For
`AtMostOneLateMessage`, "at most one" is not inductive; `LateInv` adds that while the
lock is held a late message that has been sent excludes one that is `InFlight` (past the
test of the lock). `AtMostOneStaleHardReset` adds in the same way that whoever is
about to wipe the counter while a client is connected is the first to (`StaleInv`).
`RunningFollowsResetting` follows the number through the handler (`SuccessorInv`):
a wipe by the other thread is counted, because by `LockInv` the asker is connected.
`AtMostOneLostMessage` assumes `MaxOpen = 1`. Its invariant (`AloneInv`) says that
`connections \subseteq {recent}` only while the connection lock is free; while the open
handler holds it, a message may be lost, and who has lost one is on its way back to
`client_is_connected`, where it waits for the lock (`LoopKeepsAlone`).

`PromiseKept` is the refinement: `Spec => EpisodesSpec`. It covers what
`AtMostOneStaleHardReset` says, which no run checks by itself. The steps of the loop are stutters but for
a halt, a wipe and a late message (`LoopPromised`), those of the handler are the stages of the
reset in order (`HandlerPromised`), and agents act between resets only (`ClientPromised`). The
invariants above are what makes each step possible there; new is `OnItsWay`: a number on its
way through the handler is the present one or, after a wipe, the successor of the one that was
described, and the car is at rest when the lock is released.

**ResetHandshakeProofs.** For `LoweredMeansFresh`,
"the flag is down, so what is published is fresh" is not
inductive, for the flag also comes down for a request that arrived during the wipe. What
makes that harmless is `Wiped`: nothing is measured between the wipe and the store that
lowers the flag, so that both copies are empty at that store. `FreshInv` extends
freshness to the script's own values. `Refinement` shows that each store is a step of
`ResetMailbox` or a stutter, with `should_reset_agent` for `pending` and `published`
for `report`. `SettingsAreKept` is inductive with the place of the script.

**RewardCalculatorProofs.** `Sampled` says what each place of the loop knows of the
distance, which gives `TypeCorrect` (`closest_distance_` never becomes -1). `NeverOverpaid`
needs `Budget`: what has been paid plus what can still be claimed from `closest` is
within `start`, and a reset only takes claims away. `EveryMetrePaid` needs `Quiet` (in
the second half of a reset nothing is being computed and the car is not embarked) and
`Account` (how the books stand at each place of the loop), which is claimed
only for an embarked car outside a reset.

*Penalties.* `ChargedOnce` keeps books by axis. What has been charged since the axis was wiped,
less what a reset has forgotten of it, is not by itself bounded by the memory, since the look
charges in one read and remembers in another: `Covered` says that it is within `Known(a)`, which is
what the calculator remembers of the axis or, from its charge until it is remembered (`Billed`),
what the memory holds. A reset forgets the axis and strikes the charges out of the books
in one store, the script's wipe does it from the other side. `Published` adds that the memory
never runs ahead of the script's sums, so that publishing only adds to it. It holds for any number
of resets of both threads and any bound on jariness.

**MachineProofs.** *Updates.* `Kept` says where each script of the run is at every step: installed
while the backup is made, in the backup from then on, and at the end installed or still to be
copied back. `RetryAlwaysPossible` and `BackupCompleteWhileDeleted` follow from it.

*Releases.* `NeverWithout` is not inductive: what makes it safe to deregister the old images is
`OnTheWay`, that this version is public in every region by the time the cleaning up begins. So
while images are made public, each region has it public or is still in the queue, and rotating
the queue loses no region.

*Supervisor.* `LeavesNothing` is about the step that kills by handle, which ends a
shell and not the process the shell was told to start. `OneController` says that at most one
controller is ever running or still to appear, and that while it has not appeared the script
cannot have seen all three and does not clean up.

**GameScriptProofs.** `MeasuredVehicle` needs `Known`: the vehicle in use differs from the one
the script knows only if it changed since the last refresh, which is `iter` ticks ago, or
`RefreshTicks` at the step that is about to repeat it. `KeysActOnce` needs `Owing`: a key whose
state says that it went up has not acted since, and neither has one the tick is about to
act upon; every step that makes it act clears the state with it, and only a message
raises it again. Both hold for every period and whenever the tick count wraps.

**RoadNodesProofs.** `RoadsRuled` is arithmetic: two lemmas turn the sets of lines, images
of a range of line numbers, into the numbers of one parity in an interval (`RightLines`,
`LeftLines`), and `Ruled` puts them together in the three cases of `setLinePoints`: with a
width, two-way without one (where the centre line joins them) and one-way. `TypeCorrect`
needs `Stored`: the second pass begins with exactly `Links` links. `TableHoldsLinks` has
`HoldsLinksSinceReplaced`, what the code does keep of what `EverythingInPlace` asks for, for the
first `i - 1` links as its invariant (`Placed`), with the
list of every node in order; one pass of the loop then extends, begins or replaces a list
(`Kept` of one link more), and the length is that of an ordered list of distinct numbers. `InPlaceUnlessReplaced` follows:
`EverythingInPlace` holds of every file in which no link leads from an id not met before to one
that was.

**XMLTreeProofs.** That the pointers agree node by node does not carry over an insert: two
chains of siblings below one parent agree as well, and a chain can run in a circle. The
invariant (`TreeInv`) has these parts:

- `Laid`: there is a list of children for every parent that the five pointers lay out, and who
  names a parent is in its list. The lists are no state of the program; each step has to
  exhibit them. `Unlink` takes a node out of one list (`Cut`), each insert puts it into
  another (`Splice`), and `ChildrenListed` says that who follows `next` from `first` reads
  exactly that list.
- `Grounded`: no walk along `first` and `next` comes back, stated as: among any nodes there is
  one from which neither leads to another of them. It makes `From`, a recursive
  function over pointers, defined (`SomeWalk`, from a least counterexample) and shows that
  `Below` lists exactly what hangs below a node, each once, children before parents
  (`BelowFacts`). It survives an insert because the caller does not hang a node below
  itself (`Attached`).
- `PoolsOK`: no item is twice in a free list and each lies in a block in use (`ReleaseOK`,
  `AllocOK`). With it a destruction makes exactly one node free (`Destroyed`), and
  destroying the nodes of a list one by one leaves the rest as it was (`AllGone`).
- `Housed`: what hangs is in use and hangs on what is in use. This is the part that a
  deletion forgetting a child would break.
- `LooseEnds`: what hangs nowhere has no sibling behind it, so that a walk along `next` ends.
  `Unlink` leaves the `next` of the node it cuts off as it was; so inside an operation that
  node is the exception (`Loose`), until it is hung elsewhere or destroyed.

`PointersAgree` holds for any number of nodes and blocks and any sequence of calls, also where
the pools grow and addresses come back.

`EverythingCounted` adds what is counted (`Tallied`). What is in use and the attributes in the
lists of elements (`Books`) are counted right after every single destruction
(`DestroyedCounts`), so they are carried through `AllGone`. The untracked nodes are not: while
a node that hung is being deleted it hangs nowhere and is counted as tracked. So the preamble
that every insert and deletion begins with is shown to leave them right but for that node
(`PreambleCounts`), and the insert or the destruction that follows takes it out of account
(`HungCounts`, `PrunedCounts`). That what `DeleteChildren` destroys has all been inserted is
`BelowAlive`: each of it has a parent.

`PointersImplementTree` is the refinement: `Spec => TreeSpec`. The lists of `OrderedTree` are
those a reader finds, and those are the lists of `Laid` (`KidsAre`). So each call needs to say
what it makes of the lists, and the lemmas that keep the invariant say it: an insert takes the
node out of its list (`PreambleLists`) and puts it last, first or behind another
(`MovedLast`, `MovedFirst`, `MovedBehind`), a deletion empties the lists of what it destroys and
no other (`PrunedLists`). What hangs below a node is a walk along the pointers in `XMLHeap` and
the least set closed under children in `OrderedTree`; `BelowReached` shows them equal, from
`Grounded` once more, and `SameBelow` that cutting the node off first does not change it. Where
`InsertAfterChild` is given a node that does not hang below `p`, the tree stutters. `CallDone`,
that each call did what was asked and not only something the tree allows, comes with it.

**XMLDocumentProofs.** `ParserLeaksNothing` is about a caller that is in the middle of its work for
as long as a text lasts: elements whose end tags are awaited hang nowhere. The invariant
(`DocInv`) says that those on the stack are all that do (`Reading`), on top of `TreeInv` and
`Tallied`, whose lemmas are about any heap and serve both callers of the library. Each token is
a few of the library's calls: a new node, nowhere hung (`Fresh`), is hung, put on the stack, closed
or discarded, and an end tag hangs what it closes one level up (`HungAbove`), which is safe
because the level above, an element on the stack or the document, hangs below nothing. An
error leads back through every level; `Abandoned` follows it and finds nothing left. But what it
deletes was never tracked, so the count of untracked nodes is wrong from then on: `Tallied`
claims that count only while `lost` is false, and `ClearPools`, which `Parse` calls and `LoadFile`
does not, makes it right again. `DocumentTypes` comes from the same invariant.

`AcceptsWellFormed` and `RefusesTheFaulty` are the two halves of a verdict, about what
the text says without a parser (`Faultless`: each end tag has the name of the tag opened last
on its level). The invariant (`TextInv`) keeps parser and text abreast (`Abreast`): while it reads,
the depth of the text is the height of the stack, the i-th element of the stack carries the name of
the tag opened last on level i, and something hangs below the document as soon as a piece
was complete. An opening tag changes the last of its own level and no other (`StillOpened`), so that
a closing tag matches the top of the stack if and only if it rightly closes (`RightlyClosed`). Once
the parser has stopped, `Deserved` says of each outcome what it takes, and `Judged` carries it
to the next load. Why elements keep their names while their siblings are hung or destroyed
(`SameValues`) is what the lemmas of the heap are used for.

`ParsesAsWritten` adds that the tree is the right one: what Accept tells a visitor of it
(`Events`) is what the text says (`Meaning`), call by call. In the middle of a text that is
not so, for the elements on the stack hang nowhere. What holds there (`Mirrors`) is that the calls told of
the document so far, then for each level the call that enters its element and those told below
it, are together the meaning of the tokens read. `Tells` names the calls told below each node in
use, without recursion; `Retold` says that a change in a node which is no child changes what is told of
that node alone, which is why each token touches the end of the list only: a leaf or a sealed tag
adds its calls on the lowest level (`HungSpelled`), an opening tag adds a level (`FreshPushedMirrored`), and
an end tag hangs the lowest level below the next (`ClosedMirrored`), by which nothing moves, since
concatenation is associative. To start with, nothing is in use once Clear has deleted the
document's children (`Rooted`: what has a parent all the way up has the document there, or else
one of finitely many nodes would have more below it than its own parent). In the end the stack is
empty, `Tells` is a solution of the recursion in `Events` (`ToldRecites`), and there is but one
(`OneRecital`, from `Grounded`). `FlattenSeq` is recursive as well; `FlatNext` gives what is
needed of it, one more list.

Only model-checked:

- every liveness property (`DoneIsTold`, `AbandonedCarStops`, `RequestServed`,
  `StalledEpisodeEnds`, `OffRoadKeepsCosting`, `WaitsEnd`, `SeenCrashIsReported`,
  `ReadyIsPublished`, `CameraFollows`), for fairness is out of the prover's reach;
- what is printed and the values (`RoundTrip`, `ReadAsWritten`, `RestUntouched`,
  `PrintedReadsBack`): what a recursion over the pieces of an input computes
  for every input is induction over data, which is out of reach too. (Where a proof above needs a
  recursive function, it exhibits the function and argues from a least number or a node that
  is `Grounded`, instead of an induction theorem.)

`TypeOK` of `Connect` and of `XMLTree` document their types.

## Plan

The models are done, in this order: `GTAVEnv` with its two parts; the handshake and its
abstract promise; the calculator; the supervisor; the updater; connecting; the XML library; the
road map; the script's tick; the penalties; the release of images. Proved, in this
order: the controller, the handshake with its refinement, the calculator, the updater; the
script's tick and the ruled roads; then the supervisor, the release of images, the
charges for discomfort, the table of links, of tinyxml2 the pointers, the counts and the tree they
implement, what is promised of episodes, the parser's nodes, its verdict
and the tree it builds. What is left is to prove more:

1. The types of `Connect` and `XMLTree`.

## Not modelled

- Vendored libraries; the renderer, natives and pathfinder of the game, and EC2 (external,
  any answer).
- Files and arguments: reading settings, the command line, `install.py`,
  `enforce_version.py`, the project template. They keep no state.
- `rewards.cpp`, which is commented out, and the scenarios, which are behind
  `USE_NVIDIA_SCENARIOS`; no build defines it, and the script would not compile with it.
- The traffic clock (`script.cpp:285-297`): an offence in the ten seconds before a reset is
  reported in the next episode if the game's native goes on counting over a reload, which the
  repository does not say.
- The demonstration switch (`script.cpp:217-237`): `is_game_driving` is passed by value, and
  nothing raises `should_game_drive`.
- The joystick's axes: `set_rx_axis` moves the X axis (`JoystickController.cpp:100`), a call
  with a wrong constant and no state.
- What the VNC server shows, and the effect of keys from two threads that meet in one menu.
- Torn reads of `most_recent_websocket_cxn_`, a weak pointer copied without its lock
  (`AgentConn.cpp:205`). That it may be copied before the open handler has stored it is modelled
  (`OneLostMessage`).
- tinyxml2: conversions of numbers, handles, queries over siblings and attributes, cloning,
  and files.
- `check_win_active`, `ping`, logging, monitoring, debug text and the wording of messages.
