# SnakeMultiplayer: formal models and proofs

This directory holds TLA+ models of the game server, its network layer, its recordings and the two
client programs of SnakeMultiplayer, the TLC runs that check them on small instances, and TLAPS proofs
of theorems that hold for every instance. Paths below are relative to the repository; `PROJECT.json`
maps every definition to the lines it models.

    tlc -workers 2 -config engine_solo.cfg GameFeed.tla      # one run
    tlapm EngineProofs.tla                                   # the proofs of one module

## 1. Inventory

### 1.1 The parts and how they interact

| Part | Code | State | Operations |
| --- | --- | --- | --- |
| Game engine | `src/snake_server/SnakeServer.cpp`, `SnakeServer.h` | players by client id, food, at most one speed boost, occupancy by bodies, high score, tick, random generator | `run` loop: `pollMessages`, `handleClientJoin/Input/Disconnect`, `updateSnakes`, `checkCollisions`, `placeSpeedBoost`, `broadcastGameState`, `replaceFood` |
| Snake bodies | `include/snake_server/Player.h` | linked list of nodes, each with its position and its previous one | `moveTo`, `grow`, `getSegments` |
| Server networking | `src/snake_server/NetworkServer.cpp` | three tables fd / client id / receive buffer, the set of descriptors to disconnect | accept, receive and parse, drain, send, broadcast |
| Terminal client | `src/snake_client/SnakeClient.cpp` | running, playing, client id, one pending key, the last game state | join, input, receive, render |
| Bot | `src/snake_bot/SnakeBot.cpp` | client id, awaitingJoin, gameStateHasChanged, the last game state | join, receive, send one input per state |
| Client framing | `src/snake_client/NetworkClient.cpp` (both clients use it) | receive buffer | send, receive, parse; every exception ends the client |
| Pathfinder | `src/snake_bot/Pathfinder.cpp` | distance map, queue of the search | `rebuildMap`, `calculateNextMove` |
| Message log, replay | `include/common/MessageLog*.h`, replay branches of `SnakeServer.cpp` | a file, one record read ahead | `log`, `first`, `nextBatch`: the records of one time |
| Codec | `include/common/Protocol.h`, `GameState.h` | none | `serialise`, `deserialise`, `fromProtocol` |

The server is one thread. An iteration of `run()` reads what `epoll_wait` reports, appends a
synthesised `CLIENT_DISCONNECT` for each connection found broken, dispatches the messages in order,
moves every snake whose time has come, checks collisions if one has moved, and broadcasts the whole
game state if a flag says that something has changed. Clients talk to it over TCP: `CLIENT_JOIN` and
`CLIENT_INPUT` one way, `SERVER_WELCOME` and `GAME_STATE` the other. There are no locks: what is
hard is the interleaving of the peers' and the kernel's steps with the iteration, the order of
messages in a batch, state that one handler leaves for another or for the next iteration, streams that
break off in the middle of a frame, and the several snakes that one collision check decides about
together. Everything the server dispatches or sends is also logged, and a log can be fed back to a server
in place of the network.

### 1.2 What makes each part correct

* **Engine**: a snake never turns into its own neck; bodies never leave the arena; of heads that
  meet one survives; nobody stays on a body; food is eaten by one snake and only by it; pace and boost
  agree; the high score misses nobody; every snake keeps moving.
* **Feed**: whenever the loop polls, what was last broadcast is what there is.
* **Networking**: the tables agree with each other and the kernel; each message belongs to the client
  it is attributed to; streams arrive whole and in order; departures come last; gone clients are
  closed; a torn stream is given up; nobody starves; a failed send does not take the server down (it
  does, see 5).
* **Framing**: a client hears what the server said, whole, in order and at once, in whatever pieces it
  arrives, and stops only for a reason.
* **Replay**: a replay reproduces its recording, however it was cut off, and ends.
* **Pathfinder**: the map holds the distances there are, and the bot never steps into a body it knows of.
* **Sessions**: a client that takes itself for alive is, or is about to be told otherwise; a bot joins
  once and always comes back.

`PROJECT.json` "hazards" lists what can go wrong at which line, and the properties that would notice.

## 2. Modules

    Arena <- SnakeServer <- GameFeed --implements--> Scoreboard
       \         ^  ^  \----- CollisionLoop --implements--> SnakeServer
        \        |  '-------- Replay (the operators on one snake)
         Pathfinder

    Sockets <- NetworkServer <- ServerLoop <- MC_ServerLoop
    Protocol <- ClientFraming <- MC_ClientFraming;  ClientFraming --implements--> Channel
    Session <- ClientSession, BotSession

    SessionProofs <- ClientSessionProofs, BotSessionProofs
    EngineProofs;  ServerLoopProofs;  PathfinderProofs;  ClientFramingProofs;  ReplayProofs

An arrow `A <- B` says that B extends A, or instantiates it. Each module of proofs extends the module
whose name it bears; EngineProofs extends GameFeed and CollisionLoop.

* **Arena**: the grid and the linked list of `PlayerNode`. Each node but the last has its previous
  position under its successor, because `moveTo` hands it down; so a list is the sequence `segs` of
  positions and the one previous position that matters, `tailPrev`, where `grow` puts the next tail.
* **SnakeServer**: the engine. `phase` is the place in the iteration; each action is a whole handler:
  `PollMessages` (clock and `replaceFood`), `HandleClientJoin`, `HandleClientInput`,
  `HandleClientDisconnect` (these three in any order, as often as the batch has it), `UpdateSnakes`, `CheckCollisions` (with `destroyPlayers`, `feedPlayer`,
  `boostPlayer` and the `placeSpeedBoost` that always follows it), `BroadcastGameState`. `stateChanged`
  is `run()`'s local flag. Times are kept relative to the tick (`nextMoveIn`, `boostLeft`), which
  loses nothing: absolute times are only compared with the tick or with each other, the latter after
  every overdue snake has moved. Random draws are nondeterministic choices over their ranges, with
  the draws' off-by-one ranges as they are (`DropCells` leaves out the last row and column).
  `CheckCollisions` decides about all players at once.
* **CollisionLoop**: `checkCollisions()` and `destroyPlayers()` as they run, one player after another in
  any order of the hash map, each turn on what the turns before have left. It implements SnakeServer, so
  that the order does not matter and stating the check over the set of players loses nothing.
* **GameFeed**: the engine and the last `GAME_STATE` it broadcast. **Scoreboard** is what that feed
  promises somebody who knows of no arena; GameFeed implements it under a refinement mapping.
* **Sockets**: external, what the kernel and the peers do. A frame is two chunks, the first with its
  length, so that frames arrive whole, in pieces or several at a time. Descriptors are handed out lowest
  first and used again at once. A peer may close, or reset and lose what it sent; a send to it may
  succeed, succeed in part or fail as its state allows. `Kinds` are the frames peers send: beside what the
  repository's clients send (`CLIENT_JOIN`, `CLIENT_INPUT`) also what the server would take from others: a
  `CLIENT_DISCONNECT` of the client's own, frames `deserialise()` refuses, frames over the limit.
* **NetworkServer**: the operations of `NetworkServer.cpp` on its tables.
* **ServerLoop**: `run()` and `pollMessages()` driving them, one action per system call or dispatched
  message, with peers acting between any two. Of the game it keeps the roster. What nobody catches
  ends in phase "crashed": a frame that `deserialise()` refuses (`DeserialiseThrows`), a client that is gone
  when its join is answered, a failed assertion. A disconnect that the client has sent itself is dispatched
  like a synthesised one, takes its snake and leaves it connected. `Asserts` tells whether
  `assert()` is compiled in (no build type is set in `CMakeLists.txt`, so by default it is).
* **Protocol**: `serialise()` and `deserialise()` field by field, with counted vectors and the exceptions; the
  types of what a server sends.
* **ClientFraming**: `NetworkClient.cpp`. The server's end writes frames whole or in part, and other
  frames may follow a torn one until the server closes the connection; `recv()` returns any piece. Every
  exception ends the program. **Channel** is what either client may expect: messages whole, in order, each
  once, until it gives up; ClientFraming implements it.
* **Session**, **ClientSession**, **BotSession**: one player's program against the server, reduced to
  whether this player has a snake. A batch is any prefix of what is under way: what Channel delivers.
* **Pathfinder**: one step is one turn of the loop of `computePaths()`; the moves are an operator on the map.
  Its reference, distances on the graph of free cells, shares nothing with the search.
* **Replay**: a live server that logs, until it is killed with any tail of the log unwritten, even within a
  record; then `main()` and `pollMessages()` over the reader. The engine is that of SnakeServer for one
  client, as a function of seed, ticks and messages: iterations in which nothing is logged leave no
  record, yet they draw food and end boosts, and a replay must get by without them. The seed is the
  sequence of numbers the generator makes; both runs read it the same way. The model rests on these facts
  about its use: ticks of the live loop strictly increase (two iterations within one tick would be one
  batch of the replay), clients send only `CLIENT_JOIN` and `CLIENT_INPUT`, and of the recorded
  configuration only the seed matters because the rest is compiled in.

Operators marked `Wrong:` in a comment (for example `TurnFromPending`) are plausible bugs. Each is
substituted for the definition next to it to see that a property notices; no specification uses them.

## 3. Runs

All bounds are constants of the cfg files. Passing runs:

| Run | Instance | Shows |
| --- | --- | --- |
| engine_solo | GameFeed, 3x2, one snake up to the whole arena, boosts of pace 1 against 2, clock steps 0..2, fair | types, `BodiesInArena`, `NecksBehind`, `ClocksAgree`, `NoReversal`; `FoodIsShown` (in 2x2 a snake cannot help eating the only food), `EverySnakeMoves` |
| engine_pair | GameFeed, 2x2, two snakes, boosts, iterations end | `HighScoreCovers`, `FeedIsCurrent`, `HeadOnLeavesOne`, `NoOverlapButGrowth`, `FoodFeedsOne`, `ImplementsScoreboard` |
| collisions | CollisionLoop, 2x2, two snakes | `ImplementsEngine` |
| pathfinder | 3x3, all bodies, up to 2 goals | `MapIsDistance`, `AvoidsBodies`, `TakesShortestWay` |
| replay | 2x3, one client, 2 messages, 8 clock units, all seeds of period 4 over two draws | `ReproducesRecording`, `ReplayAdvances` |
| wire | 3 frames of 4 messages, torn after 1, 2 or 5 bytes | types, `StopsForAReason`, `NothingHeldBack`, `ImplementsChannel` |
| network_tables | 3 connections over 2 descriptors, 2 frames each, joins and oversized frames, asserts, symmetry | types, `TablesAgree`, `RightSender`, `StreamIntact`, `DeparturesComeLast` |
| network_progress | 2 connections over 1 descriptor, 2 frames each, among them the clients' own disconnects and malformed frames, slow readers, no asserts, one event a time, fair | `StreamIntact`, `DeparturesComeLast`, `TornStreamsAreClosing`, `NothingStaysUnread`, `GoneClientsAreClosed` |
| client_session | 4 messages up, 5 down | types, `NoGhost` |
| bot_session | the same, fair | types, `NoGhost`, `OneJoinAtATime`, `BotReturns` |

**Why the bounds are enough.** In a 3x2 arena a snake can reach every wall, turn in both
directions, block itself, grow over several segments and be boosted; 2x2 is the smallest arena in which a
snake closes a loop, and the one in which two snakes cannot avoid each other. Two snakes suffice for each
pairwise collision (head and head, head and body, head and new tail), and for those of three heads the theorem
`HeadOnSparesOne` takes over. `MaxLength` makes a long snake's client leave before the snake moves on; in
the runs with two snakes no snake gets that long. Two frames of two chunks give every way to split and
coalesce; more connections than descriptors give reuse and exhaustion. `MaxDown` rests the snakes
while a client has five messages to read, and `MaxUp` the client while four of its are unanswered: a batch
then still holds a welcome, states before and after it, a death, and the next welcome.

In `collisions`, `MaxLength = 4` lets a snake close a loop in 2x2, and two snakes meet in every way. In
`pathfinder`, `Cells` of 3x3 allow ways around bodies, cells cut off, two goals (`MaxGoals`) at different
distances and in one cell. In `replay` the generator draws from `Outcomes` and starts again after
`Period` draws; `MaxMessages` are a join and an input or a second join, a disconnect and so on; `MaxTime`
and `MaxElapsed` leave room for a move, a meal, a boost and silent iterations between them. In `wire` the
limits are scaled down with the messages: `LengthBase` makes the longest length need both digits,
`RecvBufferSize` is less than the largest frame, `MaxMessageSize` is exceeded by one sample only;
`TornAfter` breaks off within the length, behind it and within the body; `MaxFrames = 3` puts a whole
frame before and behind a torn one. With the limits as they are (`CLIENT_RECV_MAX_MESSAGE_SIZE` of 32768
bytes) a GAME_STATE goes over only with hundreds of players or very long snakes.

network_tables uses symmetry over the connections: nothing in the model compares or orders them, descriptors
and ids being numbers of their own, and the run has safety properties only.

**Deadlock** is checked in the engine, collisions and bot runs. The others switch it off because what
they model really stops: a crashed server, a client that quits or has lost its connection, a search
whose queue is empty, a replay at the end of its recording.

**Fairness.** The handlers of `run()` are straight-line code and batches are finite, so an iteration that has
begun comes to its end: in the engine the loop polls again and again (`IterationsEnd`), in ServerLoop its steps
are weakly fair. It never blocks for good either, since `epoll_wait` returns after 10 ms at most. In engine_pair
`IterationsEnd` is all the fairness there is: the clock may stand still, and a change of the scoreboard must be
announced by the end of the very iteration that makes it. The steady clock advances, hence strong fairness of a
poll that finds it further on (`TimePasses`). Clients are never obliged to do anything, except in BotSession,
whose loop is a thread of its own. `epoll_wait` puts reported descriptors at the end of its ready list, hence
strong fairness of reporting each one when more are ready than fit. TCP delivers: a reader does not find a
nonempty stream empty for ever. ClientFraming states no fairness: that a client which keeps calling `recv()`
hears everything is the invariant `NothingHeldBack` together with that loop, and TLC's evaluation of ENABLED for
a receive of any length is too slow to add much.

## 4. Proofs

Each theorem holds for every value of the constants that meets the assumptions of its module; each
property proved is also checked by a run on a small instance.

**Engine** (for every arena of at least 2x2, every set of clients and every timing: the draws' ranges are
not empty, the food fits, a boosted snake is not slower).
`EngineProofs` proves `TypeCorrect` (`TypeOK`), `ArenaSafe` (`BodiesInArena`), `NeverReverses`
(`NoReversal`), `HeadOnSparesOne` (`HeadOnLeavesOne`), `NecksStayBehind` (`NecksBehind`),
`ClocksAlwaysAgree` (`ClocksAgree`), `HighScoreAlwaysCovers` (`HighScoreCovers`), `OverlapOnlyByGrowth`
(`NoOverlapButGrowth`) and `FoodFeedsExactlyOne` (`FoodFeedsOne`).

The inductive invariant is `Inv == TypeOK /\ BodiesInArena /\ NecksBehind`. `BodiesInArena` is not
inductive without the phase: a head is outside between the move and the check, and would be handed down
to a body by another move; the invariant therefore says that heads are inside except in phase
"collide", which `CheckCollisions` re-establishes because it destroys whoever hit a wall.
`NoReversal` needs `NecksBehind`: that the second segment (or, for one segment, the place where growth
would put it) lies opposite to the direction of the last move, and that the pending direction does not
point there. It is `Turn`'s comparison with `direction`, not with `nextDirection`, that keeps the latter.
`HeadOnSparesOne` needs that `ArrivedBefore` is a strict total order on the heads in a cell, and that a finite
nonempty set has a least element for it. The preservation of `Inv` has one lemma per action, over
lemmas about one snake (`ElapseOK`, `NewPlayerOK`, ...) and about the linked list (`MoveToShape`,
`GrowShape`). `Rules == Inv /\ ClocksAgree /\ HighScoreCovers` is inductive on top of it; the two action
properties follow from `Inv` and one check: a snake that feeds is alone in its cell, so that two that grow
have different heads, and its new tail is the one cell `occupiedCellsBodies` does not know.

**Feed.** `EngineProofs` also proves `FeedAlwaysCurrent` (`FeedIsCurrent`) and `StepsOfScoreboard`:
every step of the engine with its broadcasts is a step of Scoreboard or a stutter, the safety part of
`ImplementsScoreboard`. The invariant `FeedInv` adds `FlagCounts` to `Inv`: `stateChanged` is down when the
loop polls, and as long as it is down what was broadcast last is still what there is.

**Collision loop.** `EngineProofs` proves `LoopImplementsEngine` (`ImplementsEngine`): for any
number of players, and whatever the order in which the hash map yields them, the turns of
`checkCollisions()` and `destroyPlayers()` do in the end what `CheckCollisions` does in one step. The
invariant `LoopInv` splits every variable the loop writes into the part of the players whose turn has been
and of those whose turn is to come. It goes through because each turn decides on the bodies and heads at the
beginning of the check, and no two players eat in the same cell: of heads that meet one is left.

**Networking** (any number of connections, frames and descriptors). `ServerLoopProofs` proves
`TablesAlwaysAgree` (`TablesAgree`). Its invariant is `TablesTyped /\ TablesAgree /\ DescriptorsOpen`: the
last conjunct says that reported events and broadcast targets are open descriptors, without which a
receive or a send could mark a closed one. Registration keeps the id table injective because ids handed
out are below `nextClientId`, and a descriptor handed out is free in the kernel and hence in the tables.
`TornStreamsAlwaysClose` (`TornStreamsAreClosing`) adds `ConnsOK`: a connection is new, in the backlog or
accepted under one descriptor, never two of these.
`StreamsAlwaysIntact` (`StreamIntact`), `SenderAlwaysRight` (`RightSender`) and `DeparturesAlwaysLast`
(`DeparturesComeLast`) rest on two more: `StreamInv` says of each connection, also before it is
accepted, that buffer and inbox together are the last chunks sent, so that cutting frames off the front
keeps it; `DeliveryInv` adds `BatchOK`: nobody in the batch is missing from the tables while receiving, and
the last that a later batch holds of a client missing there is its disconnect (`DepartLast`), which
`drainDisconnects()` has appended, although a disconnect that the client has sent itself may stand anywhere
before it. `LoopTypeCorrect` (`TypeOK`) needs
`IdsOK`: a client id is handed out for each connection accepted, so that ids stay within the number of
connections.

**Framing and codec** (any message the types admit, any base, buffer size and limit, frames torn anywhere).
`ClientFramingProofs` proves `DecodesWhatWasEncoded`: for every welcome and every GAME_STATE, whatever its
vectors hold, `deserialise()` of `serialise()` is the message, without an exception. `FlattenSeq`,
`Players` and `ParseReceivedPacket` are recursive functions: that a function with their equations exists, and
what it returns, is proved by least counterexamples (`LeastNumber`), because induction itself is a theorem
about an operator. On the codec rests the invariant `Inv` of the connection. Its heart is `InStep`: what the client
has not heard yet lies in `messageBuffer` and the stream behind it, frame behind frame from the first byte on,
and behind them nothing, or the beginning of a torn frame, or anything if the server wrote on after that
(`LaidOut`). A write keeps it (`LaidOutSend`); a `recv()` of any piece cuts off exactly the frames that have
become whole and leaves the others where they were (`CutSome`, `LaidOutBehind`), and then nothing more can be
cut (`Waits`). From it follow `FramingTypeCorrect` (`TypeOK`), `AlwaysStopsForAReason`
(`StopsForAReason`), `NothingEverHeldBack` (`NothingHeldBack`) and `FramingImplementsChannel`
(`ImplementsChannel`). The types of the messages are an assumption: each field holds the unsigned number its
bytes make, which is what the server writes.

**Pathfinder** (any arena, bodies, goals). `PathfinderProofs` proves `MapIsDistanceAlways`
(`MapIsDistance`), `AvoidsBodiesAlways` (`AvoidsBodies`) and `TakesShortestWayAlways`
(`TakesShortestWay`). Its invariant `SearchInv` is that of a breadth-first search: the queue holds marked
cells in the order of their distance, which differ by one at most (`Sorted`); each marked cell but a goal has
a neighbour one nearer (`Linked`); the neighbours of a cell that has left the queue are marked
(`Closed`). That the marks are the distances is again a least counterexample, against the reference's
recursion `Within`. The map's "infinite" is a value of its own: that no distance reaches `INT_MAX` is not proved.

**Sessions** (messages under way bounded only by the constants, of any value). `SessionProofs` holds the
lemmas about counting and about the server; `ClientSessionProofs` proves `ClientNeverAGhost`
(`NoGhost`) and `ClientTypeCorrect` (`TypeOK`), `BotSessionProofs` proves `BotNeverAGhost` (`NoGhost`),
`BotJoinsOnce` (`OneJoinAtATime`) and `BotTypeCorrect` (`TypeOK`), whose bounds on what is under way need `Bounded`: each welcome the program has not
read yet is paid for by a message it will not send. The heart of the others is
`LastTells`: the last message under way is a GAME_STATE that says whether the player has a snake, because the
server broadcasts at the end of the very iteration that changes it; so a client that is wrong has something
unread (`NewsUnread`), and what it has unread ends with the truth.

**Replay** (any arena of at least 2x2, generator, seed, client and recording; one client, as the module has it).
`ReplayProofs` proves `ReproducesAlways` (`ReproducesRecording`) and `AlwaysReadsForward`
(`ReplayAdvances`). The invariant `IInv` gives the log a history (`Account`): positions in it at which
iterations end, the engine `E[b]` after the one that ends at `b`, and the messages `M[b]` of the next, whose
records follow. The live engine is not that of the history, for it has also run iterations that wrote
nothing; it may be ahead of it, `Lags`: the same numbers drawn once the food is replaced, the same snake once its clock
is set, except that a boost that has run out may already be taken back (`Alike`). An iteration that writes nothing
keeps this (`SilentIteration`), because no message was dispatched and no snake moved; one that writes
writes the same records from both engines, and they differ by no more afterwards (`LoudIteration`). The history grows by that iteration (`AccountGrows`). All its records have one time, later than that of
those before; so `nextBatch()` cuts the recording exactly where the iterations ended, but for the last, of which
part may be missing; and what `pollMessages()` takes from a batch that is cut short is still a beginning of the
messages, which writes a beginning of the records or more (`IterationCut`, `BatchIs`). That time strictly
increases from one live iteration to the next is a condition of the model (section 2), and needed: two
iterations of one tick would be replayed as one.

**Only model-checked.** Everything temporal under fairness (`EverySnakeMoves`, `FoodIsShown`,
`NothingStaysUnread`, `GoneClientsAreClosed`, `BotReturns`): liveness and ENABLED are beyond TLAPS.

## 5. Where the code and its text disagree

Each has a run in which TLC finds the counterexample.

1. `violation_assert`: a send that fails in dispatch or broadcast leaves its descriptor for the next
   `pollMessages()`, whose assertion aborts the server, although `main.cpp` wants to "just move on and
   let epoll surface the client disconnect". Without assertions the mark survives that
   poll; if it reads a second join of the same client, that client is drained before the join is
   dispatched, and `sendToClient` throws out of `run()` (the same cfg with `Asserts = FALSE` and
   `MaxFrames = 2`).
2. `violation_welcome`: a client that reads an older GAME_STATE in one batch with its welcome takes
   itself for dead, though the welcome was "confirming that they are playing". The bot does the same
   and joins again; the run bot_session shows that it recovers.

A partial send is not given up at once either: the descriptor is only marked, and a broadcast in the same
iteration continues the torn stream, so that a client may hear garbage (`IsGarbled` in ClientFraming) before
the connection closes. `TornStreamsAreClosing` says what the server does guarantee, and
`StopsForAReason` that garbage has no other source.

## 6. Not modelled

* `fromProtocol()` copies fields; usernames, colours and icons are left out of every model, and with them
  whose name stands beside the high score when two snakes reach it in one check, which depends on hash
  order.
* Rendering, logging, statistics, JSON and hashing have no effect on the game.
* Replay of several clients: which snake is looked at first then depends on a hash map, and `collisions` shows
  that the outcome of a check does not; but destroyed snakes take their drops from the generator in that
  order, which is the same in both runs only because both run the same binary.
* Replaying the file the new server itself logs to, which it truncates.
* Replay of a log with a `CLIENT_DISCONNECT` in the middle of a batch, which no client of the repository sends.
* What a frame of a wrong size or type holds: `deserialise()` on the server's side either takes a frame
  or throws; the bytes are modelled for what a server sends (Protocol).
* `epoll_wait` interrupted by a signal, and errors of `fcntl` or `epoll_ctl`.
* The bytes a client sends are modelled on the server's side only (`NetworkServer`, `Sockets`): a client that
  fails to send a whole message ends.

## 7. State of the plan

Done: the engine and its proofs, the feed and its refinement, the network and its proofs, the sessions and
their proofs, the collision loop, recording and replay, the clients' framing, the pathfinder; and theorems
for every invariant and action property the passing runs check, and for the refinements but for the fairness
of Scoreboard. What is left would be composition rather than new parts:

1. A bot with its pathfinder and the engine: how stale a map may be when the move it chose takes effect.
2. Replay with two clients, and an order of the hash map that is a function of its history.
3. A client's whole life over several connections, with the key typed while dead that is sent in the next
   life.
