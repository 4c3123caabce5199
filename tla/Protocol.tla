------------------------------ MODULE Protocol ------------------------------
(***************************************************************************)
(* The codec of Protocol.h.  A byte string is a sequence of numbers, one   *)
(* for each field that serialise() writes.  Sequence numbers and times     *)
(* make one field; names, colours and icons are left out.                  *)
(***************************************************************************)
EXTENDS Integers, SequencesExt

SERVER_CONFIG     == 0
CLIENT_JOIN       == 1
CLIENT_DISCONNECT == 2
SERVER_WELCOME    == 3
CLIENT_INPUT      == 4
GAME_STATE        == 5

\* The fields behind the header: 10 of SERVER_CONFIG, the name, the key.
BodySize ==
    [type \in {SERVER_CONFIG, CLIENT_JOIN, CLIENT_DISCONNECT, SERVER_WELCOME, CLIENT_INPUT} |->
        CASE type = SERVER_CONFIG -> 10
          [] type \in {CLIENT_JOIN, CLIENT_INPUT} -> 1
          [] OTHER -> 0]

HEADER_PACKED_SIZE == 3

(* What a server sends.  A field is the unsigned number that its bytes make. *)
Position == Nat \X Nat

Player == [clientId : Nat, direction : Nat, score : Nat, segments : Seq(Position)]

GameState == [highScore : Nat, food : Seq(Position), speedBoosts : Seq(Position),
              players : Seq(Player)]

ServerMessage ==
    [type : {SERVER_WELCOME}, clientId : Nat, stamp : Nat, body : {<< >>}]
        \cup [type : {GAME_STATE}, clientId : Nat, stamp : Nat, body : GameState]

\* serialise() of a vector: the count, then the elements one after another.
Counted(elements) == <<Len(elements)>> \o FlattenSeq(elements)

SerialisePlayer(p) == <<p.clientId, p.direction, p.score>> \o Counted(p.segments)

SerialiseState(state) ==
    <<state.highScore>> \o Counted(state.food) \o Counted(state.speedBoosts)
        \o Counted([i \in 1..Len(state.players) |-> SerialisePlayer(state.players[i])])

Serialise(msg) ==
    <<msg.type, msg.clientId, msg.stamp>>
        \o (IF msg.type = GAME_STATE THEN SerialiseState(msg.body) ELSE msg.body)

-----------------------------------------------------------------------------
(* deserialise().  readRawBytes() throws at the first field beyond the end *)
(* of the frame; here fields beyond the end read as 0, and that the cursor *)
(* has passed the end is found at the end.                                 *)

Field(bytes, at) == IF at <= Len(bytes) THEN bytes[at] ELSE 0

\* The vector at a cursor, its elements "size" fields wide, and the cursor behind it.
Vector(bytes, at, size) ==
    [elements |-> [i \in 1..Field(bytes, at) |->
                     [j \in 1..size |-> Field(bytes, at + (i - 1) * size + j)]],
     next     |-> at + 1 + Field(bytes, at) * size]

Players(bytes, at) ==
    LET read[i \in 0..Field(bytes, at)] ==
            IF i = 0 THEN [elements |-> << >>, next |-> at + 1]
            ELSE LET r == read[i - 1]
                     segments == Vector(bytes, r.next + 3, 2)
                 IN [elements |-> Append(r.elements,
                                         [clientId  |-> Field(bytes, r.next),
                                          direction |-> Field(bytes, r.next + 1),
                                          score     |-> Field(bytes, r.next + 2),
                                          segments  |-> segments.elements]),
                     next     |-> segments.next]
    IN read[Field(bytes, at)]

\* The exception.
Throws == [throws |-> TRUE]

\* Wrong: the speed boosts are read before the food.
DeserialiseStateSwapped(bytes) ==
    LET boosts == Vector(bytes, HEADER_PACKED_SIZE + 2, 2)
        food == Vector(bytes, boosts.next, 2)
        players == Players(bytes, food.next)
    IN IF players.next > Len(bytes) + 1 THEN Throws
       ELSE [type |-> GAME_STATE, clientId |-> bytes[2], stamp |-> bytes[3],
             body |-> [highScore   |-> bytes[HEADER_PACKED_SIZE + 1],
                       food        |-> food.elements,
                       speedBoosts |-> boosts.elements,
                       players     |-> players.elements]]

\* A GAME_STATE may leave bytes unread.
DeserialiseState(bytes) ==
    LET food == Vector(bytes, HEADER_PACKED_SIZE + 2, 2)
        boosts == Vector(bytes, food.next, 2)
        players == Players(bytes, boosts.next)
    IN IF players.next > Len(bytes) + 1 THEN Throws
       ELSE [type |-> GAME_STATE, clientId |-> bytes[2], stamp |-> bytes[3],
             body |-> [highScore   |-> bytes[HEADER_PACKED_SIZE + 1],
                       food        |-> food.elements,
                       speedBoosts |-> boosts.elements,
                       players     |-> players.elements]]

\* A message of fixed layout must fill its frame.
Deserialise(bytes) ==
    IF Len(bytes) < HEADER_PACKED_SIZE THEN Throws
    ELSE IF bytes[1] = GAME_STATE THEN DeserialiseState(bytes)
    ELSE IF /\ bytes[1] \in DOMAIN BodySize
            /\ Len(bytes) = HEADER_PACKED_SIZE + BodySize[bytes[1]]
       THEN [type |-> bytes[1], clientId |-> bytes[2], stamp |-> bytes[3],
             body |-> SubSeq(bytes, HEADER_PACKED_SIZE + 1, Len(bytes))]
    ELSE Throws
=============================================================================
