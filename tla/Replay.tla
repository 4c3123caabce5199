------------------------------- MODULE Replay -------------------------------
(***************************************************************************)
(* Recording and replay: a live server writes every message it dispatches  *)
(* or sends to its log, until it is killed with an arbitrary tail of the   *)
(* log unwritten; a second server reads the log back through               *)
(* MessageLogReader.h instead of the network and writes a log of its own.  *)
(*                                                                         *)
(* Iterations in which nothing is logged leave no trace in the recording,  *)
(* yet they take food from the random generator and end boosts: a replay   *)
(* must get by without them.  The engine here is that of SnakeServer for   *)
(* one client, made a function of seed, ticks and messages: a seed is the  *)
(* sequence of numbers it makes the random generator produce.              *)
(***************************************************************************)
EXTENDS SequencesExt, Integers

CONSTANTS
    Width, Height, MinFood,
    MovementFrequency, BoostedMovementFrequency, BoostDuration,
    Outcomes,       \* bound: what the generator may draw
    Period,         \* bound: after so many draws it starts again
    MaxElapsed,     \* bound: clock units between two live iterations
    MaxTime,        \* bound: clock units the live server runs
    MaxMessages     \* bound: messages it receives

ASSUME ReplayAssumption ==
    /\ Width \in Nat /\ Width >= 2 /\ Height \in Nat /\ Height >= 2
    /\ MovementFrequency \in Nat /\ BoostedMovementFrequency \in Nat /\ BoostDuration \in Nat
    /\ Outcomes \subseteq Nat /\ Period \in Nat \ {0}
    /\ MaxElapsed \in Nat /\ MaxTime \in Nat /\ MaxMessages \in Nat

Seeds == [0..Period - 1 -> Outcomes]

\* The rules of the game, of which only the operators on one snake are used.
Rules == INSTANCE SnakeServer WITH
    Clients <- {1}, SpawnMargin <- 0, MaxLength <- 0,
    players <- << >>, food <- {}, boosts <- {}, highScore <- 0,
    phase <- "poll", stateChanged <- FALSE

VARIABLES
    engine,     \* the SnakeServer that runs
    log,        \* what its MessageLogWriter has written
    status,     \* "live", "killed", "replay", "done" or "failed"
    recording,  \* the killed server's records, and where its last write broke off
    reader      \* the replay's MessageLogReader

vars == <<engine, log, status, recording, reader>>

-----------------------------------------------------------------------------
(* The engine.  "gen" counts the draws of the random generator.            *)

NewEngine(seed, start) ==
    [tick |-> start, sequence |-> 0, seed |-> seed, gen |-> 0,
     playing |-> FALSE, snake |-> Rules!NewPlayer(<<1, 1>>), food |-> {}, boosts |-> {}]

Drawn(e) == e.seed[e.gen]

Draw(e) == [e EXCEPT !.gen = (e.gen + 1) % Period]

\* A uniform draw of one of the cells of placeFood(), placeSpeedBoost() and, with no
\* margin, createNewPlayer().
DrawnCell(e) ==
    <<1 + (Drawn(e) % (Width - 1)), 1 + ((Drawn(e) \div (Width - 1)) % (Height - 1))>>

\* The one chance in FOOD_SPAWN_FROM_BODY_SEGMENT_PROBABILITY or SPEED_BOOST_PROBABILITY.
IsLucky(e) == Drawn(e) = 0

PlaceFood(e) ==
    IF Cardinality(e.food) >= MinFood THEN e
    ELSE [Draw(e) EXCEPT !.food = e.food \cup {DrawnCell(e)}]

\* Bound: so many draws find MinFood different cells, or there are none.
ReplaceFood(e) ==
    LET placed[i \in 0..Period] == IF i = 0 THEN e ELSE PlaceFood(placed[i - 1])
    IN placed[Period]

\* Timer::tick() or setTick().
SetTick(e, tick) ==
    [e EXCEPT !.tick = tick, !.snake = Rules!Elapse(e.snake, tick - e.tick)]

\* createNewPlayer(): the cell is drawn even if emplace() then keeps the old snake.
Join(e) ==
    [Draw(e) EXCEPT !.playing = TRUE,
                    !.snake = IF e.playing THEN e.snake ELSE Rules!NewPlayer(DrawnCell(e))]

DropFood(e, cell) ==
    IF IsLucky(e) THEN [Draw(e) EXCEPT !.food = e.food \cup {cell}] ELSE Draw(e)

\* destroyPlayers(): a draw for each body segment.
Destroy(e) ==
    LET body == Tail(e.snake.segs)
        dropped[i \in 0..Len(body)] == IF i = 0 THEN e ELSE DropFood(dropped[i - 1], body[i])
    IN [dropped[Len(body)] EXCEPT !.playing = FALSE]

CheckCollisions(e) ==
    LET head == Rules!HeadOf(e.snake.segs) IN
    CASE head \notin Rules!Cells \/ head \in Rules!BodyCells(e.snake.segs) -> Destroy(e)
      [] OTHER ->
         IF head \in e.food
            THEN [e EXCEPT !.snake = Rules!FeedPlayer(e.snake), !.food = e.food \ {head}]
         ELSE IF head \in e.boosts
            THEN [e EXCEPT !.snake = Rules!BoostPlayer(e.snake), !.boosts = {}]
         ELSE e

PlaceSpeedBoost(e) ==
    IF e.boosts # {} THEN e
    ELSE IF IsLucky(e) THEN [Draw(Draw(e)) EXCEPT !.boosts = {DrawnCell(Draw(e))}]
    ELSE Draw(e)

-----------------------------------------------------------------------------
(* One iteration of run() on r: the engine "e", the records it writes and  *)
(* its flag stateChanged.                                                  *)

\* stampMessage() and MessageLogWriter::log().
Write(r, type, content) ==
    [r EXCEPT !.e.sequence = r.e.sequence + 1,
              !.records = Append(r.records, [type         |-> type,
                                             sequence     |-> r.e.sequence,
                                             transactTime |-> r.e.tick,
                                             content      |-> content])]

Nothing == [none |-> TRUE]

Dispatch(r, msg) ==
    LET w == Write(r, msg.type, msg.content) IN
    CASE msg.type = "CLIENT_JOIN" ->
           Write([w EXCEPT !.e = Join(w.e), !.stateChanged = TRUE], "SERVER_WELCOME", Nothing)
      [] msg.type = "CLIENT_INPUT" ->
           IF w.e.playing THEN [w EXCEPT !.e.snake = Rules!Turn(w.e.snake, msg.content.key)] ELSE w
      [] msg.type = "CLIENT_DISCONNECT" ->
           [w EXCEPT !.e.playing = FALSE, !.stateChanged = TRUE]

DispatchAll(r, messages) ==
    LET after[i \in 0..Len(messages)] ==
            IF i = 0 THEN r ELSE Dispatch(after[i - 1], messages[i])
    IN after[Len(messages)]

UpdateSnakes(r) ==
    LET moved == r.e.playing /\ r.e.snake.nextMoveIn <= 0
        updated == [r EXCEPT !.e.snake = Rules!UpdateSnake(r.e.snake)]
    IN CASE moved -> [updated EXCEPT !.e = PlaceSpeedBoost(CheckCollisions(updated.e)),
                                     !.stateChanged = TRUE]
         [] r.e.playing /\ ~moved -> updated
         [] ~r.e.playing -> r

GameState(e) ==
    [snake |-> IF e.playing THEN <<e.snake.segs, e.snake.direction, e.snake.score>> ELSE << >>,
     food |-> e.food, boosts |-> e.boosts]

BroadcastGameState(r) ==
    IF r.stateChanged THEN Write(r, "GAME_STATE", GameState(r.e)) ELSE r

Started(e) == [e |-> e, records |-> << >>, stateChanged |-> FALSE]

Iteration(e, tick, messages) ==
    BroadcastGameState(UpdateSnakes(
        DispatchAll(Started(ReplaceFood(SetTick(e, tick))), messages)))

RecordServerConfig(e) == Write(Started(e), "SERVER_CONFIG", [seed |-> e.seed])

-----------------------------------------------------------------------------
(* The live server.                                                        *)

Message(type, content) == [type |-> type, content |-> content]

Messages ==
    {Message(type, Nothing) : type \in {"CLIENT_JOIN", "CLIENT_DISCONNECT"}}
        \cup {Message("CLIENT_INPUT", [key |-> key]) : key \in Rules!Directions}

IsFromClient(record) == record.type \notin {"SERVER_WELCOME", "GAME_STATE"}

Init ==
    \E seed \in Seeds :
        LET r == RecordServerConfig(NewEngine(seed, 1))
        IN /\ engine = r.e
           /\ log = r.records
           /\ status = "live"
           /\ recording = [records |-> << >>, torn |-> "no"]
           /\ reader = [next |-> 1, outputBuffer |-> << >>]

\* The steady clock has moved on since the last tick.
LiveIteration(elapsed, messages) ==
    LET r == Iteration(engine, engine.tick + elapsed, messages)
    IN /\ status = "live"
       /\ r.e.tick <= MaxTime
       /\ Len(messages) + Len(SelectSeq(log, IsFromClient)) <= 1 + MaxMessages
       /\ engine' = r.e
       /\ log' = log \o r.records
       /\ UNCHANGED <<status, recording, reader>>

\* The process is gone.  Its log has been written up to some byte: between two records,
\* or within the length or the body of the next.
Kill(n, torn) ==
    /\ status = "live"
    /\ torn # "no" => n < Len(log)
    /\ status' = "killed"
    /\ recording' = [records |-> SubSeq(log, 1, n), torn |-> torn]
    /\ engine' = NewEngine([i \in 0..Period - 1 |-> 0], 1)
    /\ log' = << >>
    /\ UNCHANGED reader

-----------------------------------------------------------------------------
(* The replay.                                                             *)

\* main(): MessageLogReader::first() and initServerConfig(); a length that is cut off
\* counts as the end of the file.
Start(seed) ==
    LET r == RecordServerConfig(NewEngine(seed, 1))
    IN /\ status = "killed"
       /\ status' = IF recording.records = << >> /\ recording.torn = "body"
                       THEN "failed" ELSE "replay"
       /\ recording.records # << >> => seed = recording.records[1].content.seed
       /\ engine' = r.e
       /\ log' = r.records
       /\ reader' = [reader EXCEPT !.next = 2]
       /\ UNCHANGED recording

Unread == SubSeq(recording.records, reader.next, Len(recording.records))

\* The records nextBatch() puts together: those of the time of the first one.
BatchLength(ahead) ==
    LET other == {i \in 1..Len(ahead) : ahead[i].transactTime # ahead[1].transactTime}
    IN IF other = {} THEN Len(ahead) ELSE Min(other) - 1

\* Wrong: the record that has been read ahead is dropped.
ReadAheadLost(ahead, n) == << >>

\* The record after the batch waits for the next call.
ReadAhead(ahead, n) == SubSeq(ahead, n + 1, n + 1)

\* nextBatch().  It throws when time runs backwards, or when it finds a record cut off in
\* its body before it has found one of a later time.
NextBatch ==
    LET ahead == reader.outputBuffer \o Unread
        n == BatchLength(ahead)
    IN [batch  |-> SubSeq(ahead, 1, n),
        throws |-> IF n < Len(ahead) THEN ahead[n + 1].transactTime < ahead[n].transactTime
                   ELSE recording.torn = "body",
        reader |-> [next |-> IF n < Len(ahead)
                               THEN reader.next + n + 1 - Len(reader.outputBuffer)
                               ELSE Len(recording.records) + 1,
                    outputBuffer |-> IF n < Len(ahead) THEN ReadAhead(ahead, n) ELSE << >>]]

\* The branch of pollMessages(): what the server wrote itself is not dispatched again.
ToDispatch(batch) ==
    LET own[i \in 0..Len(batch)] ==
            IF i = 0 THEN << >>
            ELSE IF IsFromClient(batch[i])
                    THEN Append(own[i - 1], Message(batch[i].type, batch[i].content))
            ELSE own[i - 1]
    IN own[Len(batch)]

\* Wrong: the end of the recording is an iteration without messages like any other.
StatusAfterKeepsOn(read) == IF read.throws THEN "failed" ELSE "replay"

StatusAfter(read) ==
    CASE read.throws -> "failed"
      [] ~read.throws /\ read.batch = << >> -> "done"
      [] OTHER -> "replay"

ReplayIteration ==
    LET read == NextBatch
        r == Iteration(engine, IF read.batch = << >> THEN engine.tick
                               ELSE Last(read.batch).transactTime, ToDispatch(read.batch))
    IN /\ status = "replay"
       /\ status' = StatusAfter(read)
       /\ reader' = read.reader
       /\ IF status' = "replay" THEN engine' = r.e /\ log' = log \o r.records
          ELSE UNCHANGED <<engine, log>>
       /\ UNCHANGED recording

Next ==
    \/ \E elapsed \in 1..MaxElapsed : \E n \in 0..MaxMessages : \E messages \in [1..n -> Messages] :
          LiveIteration(elapsed, messages)
    \/ \E n \in 0..Len(log), torn \in {"no", "length", "body"} : Kill(n, torn)
    \/ \E seed \in Seeds : Start(seed)
    \/ ReplayIteration

Spec == Init /\ [][Next]_vars

-----------------------------------------------------------------------------
\* tests/replay_determinism_test.cpp: a replay reproduces the recording record by record
\* but for the first, whose time is the wall clock's; where it stops, it has reproduced
\* all of it, except the last tick of a recording that breaks off within a record.
ReproducesRecording ==
    status \in {"replay", "done", "failed"} =>
        /\ \A i \in 2..Len(log) :
              i <= Len(recording.records) => log[i] = recording.records[i]
        /\ \A i \in 2..Len(recording.records) :
              i > Len(log) =>
                 \/ status = "replay"
                 \/ status = "failed" /\ recording.records[i].transactTime
                                            = Last(recording.records).transactTime

\* Each turn of the replay reads on or is the last, so that it ends (nextBatch(),
\* pollMessages()).
ReplayAdvances ==
    [][status = "replay" /\ status' = "replay" =>
          Len(reader'.outputBuffer \o Unread') < Len(reader.outputBuffer \o Unread)]_vars
=============================================================================
