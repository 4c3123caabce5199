-------------------------- MODULE BotSessionProofs --------------------------
(***************************************************************************)
(* The bot neither plays a dead snake without the news being under way,    *)
(* nor sends a second join before the first is answered, whatever its id   *)
(* and however much is under way, and what is under way stays bounded.     *)
(***************************************************************************)
EXTENDS BotSession, SessionProofs

NewsUnread == clientId # -1 /\ ~alive => down # << >>

\* TypeOK without the bounds on the streams, which hold by Bounded.
BotTyped ==
    /\ clientId \in {-1, Me}
    /\ awaitingJoin \in BOOLEAN /\ gameStateHasChanged \in BOOLEAN /\ present \in BOOLEAN
    /\ step \in {"join", "receive", "steer"}
    /\ gameStateHasChanged => clientId = -1 \/ step = "steer"

\* The last conjunct is OneJoinAtATime, for JoinsUnderWay is what it counts.
Inv ==
    /\ SessionTyped
    /\ Bounded
    /\ LastTells
    /\ BotTyped
    /\ NewsUnread
    /\ JoinsUnderWay = IF awaitingJoin THEN 1 ELSE 0

LEMMA CountsNatural ==
    ASSUME SessionTyped
    PROVE  Count(up, "CLIENT_JOIN") \in Nat /\ Count(down, "SERVER_WELCOME") \in Nat
  BY CountFinite DEF SessionTyped

\* The bot sends one more message.
LEMMA SendOne ==
    ASSUME SessionTyped, NEW m \in UpMessages, up' = Append(up, m), UNCHANGED <<alive, down>>
    PROVE  /\ SessionTyped'
           /\ JoinsUnderWay' = JoinsUnderWay + (IF m = "CLIENT_JOIN" THEN 1 ELSE 0)
  <1>1. up' = up \o <<m>> /\ <<m>> \in Seq(UpMessages) /\ up' \in Seq(UpMessages)
    BY SMT DEF SessionTyped
  <1>2. Count(up \o <<m>>, "CLIENT_JOIN") = Count(up, "CLIENT_JOIN") + Count(<<m>>, "CLIENT_JOIN")
    BY <1>1, CountConcat DEF SessionTyped
  <1>3. Count(<<m>>, "CLIENT_JOIN") = IF m = "CLIENT_JOIN" THEN 1 ELSE 0
    BY CountSingle
  <1>4. Count(down', "SERVER_WELCOME") = Count(down, "SERVER_WELCOME")
    OBVIOUS
  <1>. QED BY <1>1, <1>2, <1>3, <1>4, CountsNatural DEF SessionTyped, JoinsUnderWay

LEMMA InvInit == Init => Inv
  <1> SUFFICES ASSUME Init PROVE Inv
    OBVIOUS
  <1>1. /\ alive = FALSE /\ up = << >> /\ down = << >> /\ clientId = -1
        /\ awaitingJoin = FALSE
    BY DEF Init
  <1>2. up \in Seq(UpMessages) /\ down \in Seq(DownMessages)
    BY <1>1, SMT
  <1>3. ~Contains(up, "CLIENT_JOIN") /\ ~Contains(down, "SERVER_WELCOME")
    BY <1>1, SMT DEF Contains
  <1>4. Count(up, "CLIENT_JOIN") = 0 /\ Count(down, "SERVER_WELCOME") = 0
    BY <1>2, <1>3, CountNone
  <1>5. JoinsUnderWay = 0
    BY <1>4 DEF JoinsUnderWay
  <1>6. Len(up) = 0 /\ Len(down) = 0
    BY <1>1
  <1>7. Slack(down, 0)
    <2>1. Len(down) < MaxDown
      BY <1>6, SessionAssumption
    <2>. QED BY <1>2, <2>1, SlackOfShort, SlackLess
  <1>8. Bounded
    BY <1>4, <1>6, <1>7, SessionAssumption DEF Bounded
  <1>9. BotTyped
    BY DEF Init, BotTyped
  <1>. QED BY <1>1, <1>2, <1>5, <1>8, <1>9 DEF Inv, SessionTyped, LastTells, NewsUnread

LEMMA InvNext == Inv /\ [Next]_vars => Inv'
  <1> SUFFICES ASSUME Inv, [Next]_vars PROVE Inv'
    OBVIOUS
  <1>0. /\ SessionTyped /\ Bounded /\ LastTells /\ BotTyped /\ NewsUnread
        /\ awaitingJoin \in BOOLEAN
        /\ JoinsUnderWay = IF awaitingJoin THEN 1 ELSE 0
    BY DEF Inv, BotTyped
  <1>1. CASE CreateBot
    <2>1. UNCHANGED <<alive, down, clientId>>
      BY <1>1 DEF CreateBot
    <2>2. NewsUnread' /\ LastTells'
      BY <1>0, <2>1 DEF NewsUnread, LastTells, Last
    <2>b. Bounded'
      BY <1>0, <1>1, <2>1, SentWithinBounds DEF CreateBot
    <2>t. BotTyped'
      BY <1>0, <1>1 DEF BotTyped, CreateBot, NeedsToJoin
    <2>3. CASE NeedsToJoin
      <3>1. up' = Append(up, "CLIENT_JOIN") /\ awaitingJoin' = TRUE /\ awaitingJoin = FALSE
        BY <1>0, <1>1, <2>3 DEF CreateBot, NeedsToJoin
      <3>2. "CLIENT_JOIN" \in UpMessages
        BY DEF UpMessages
      <3>3. /\ SessionTyped'
            /\ JoinsUnderWay' = JoinsUnderWay
                 + (IF "CLIENT_JOIN" = "CLIENT_JOIN" THEN 1 ELSE 0)
        BY <1>0, <2>1, <3>1, <3>2, SendOne
      <3>. QED BY <1>0, <2>2, <2>b, <2>t, <3>1, <3>3 DEF Inv
    <2>4. CASE ~NeedsToJoin
      <3>1. up' = up /\ awaitingJoin' = awaitingJoin
        BY <1>0, <1>1, <2>4 DEF CreateBot
      <3>. QED BY <1>0, <2>1, <2>2, <2>b, <2>t, <3>1 DEF Inv, SessionTyped, JoinsUnderWay
    <2>. QED BY <2>3, <2>4
  <1>2. CASE \E n \in 0..Len(down) : ReceiveUpdates(n)
    <2>1. PICK n \in 0..Len(down) : ReceiveUpdates(n)
      BY <1>2
    <2>2. PICK batch : batch = SubSeq(down, 1, n)
      OBVIOUS
    <2>3. /\ down' = SubSeq(down, n + 1, Len(down)) /\ UNCHANGED <<alive, up>>
          /\ awaitingJoin' = (awaitingJoin /\ ~IsWelcomed(batch))
          /\ clientId' = IF LatestState(batch) = "STATE_WITHOUT" THEN -1
                         ELSE IF IsWelcomed(batch) THEN Me ELSE clientId
      BY <2>1, <2>2 DEF ReceiveUpdates, StillAwaiting
    <2>4. /\ SessionTyped' /\ LastTells' /\ batch \in Seq(DownMessages)
          /\ JoinsUnderWay = JoinsUnderWay' + Count(batch, "SERVER_WELCOME")
          /\ down # << >> /\ down' = << >> => LatestState(batch) = State(alive)
          /\ down = << >> => batch = << >>
      <3>1. /\ SessionTyped' /\ LastTells' /\ SubSeq(down, 1, n) \in Seq(DownMessages)
            /\ JoinsUnderWay = JoinsUnderWay' + Count(SubSeq(down, 1, n), "SERVER_WELCOME")
            /\ down # << >> /\ down' = << >> => LatestState(SubSeq(down, 1, n)) = State(alive)
            /\ down = << >> => SubSeq(down, 1, n) = << >>
        BY <1>0, <2>3, ReadTells
      <3>. QED BY <2>2, <3>1, Zenon
    <2>5. NewsUnread'
      <3> SUFFICES ASSUME clientId' # -1, ~alive', down' = << >> PROVE FALSE
        BY DEF NewsUnread
      <3>1. ~alive /\ State(alive) = "STATE_WITHOUT"
        BY <2>3 DEF State
      <3>2. down = << >>
        BY <2>3, <2>4, <3>1
      <3>3. ~IsWelcomed(batch)
        BY <2>4, <3>2, SMT DEF IsWelcomed, Contains
      <3>4. clientId # -1
        BY <2>3, <3>3
      <3>. QED BY <1>0, <3>1, <3>2, <3>4 DEF NewsUnread
    <2>6. JoinsUnderWay' = IF awaitingJoin' THEN 1 ELSE 0
      <3>1. /\ Count(batch, "SERVER_WELCOME") \in Nat
            /\ Count(batch, "SERVER_WELCOME") = 0 <=> ~IsWelcomed(batch)
        BY <2>4, CountFinite, CountNone DEF IsWelcomed
      <3>2. JoinsUnderWay' \in Nat
        <4>1. /\ up' \in Seq(UpMessages) /\ down' \in Seq(DownMessages)
          BY <2>4 DEF SessionTyped
        <4>2. Count(up', "CLIENT_JOIN") \in Nat /\ Count(down', "SERVER_WELCOME") \in Nat
          BY <4>1, CountFinite
        <4>. QED BY <4>2 DEF JoinsUnderWay
      <3>3. PICK k \in Nat : k = Count(batch, "SERVER_WELCOME")
        BY <3>1
      <3>4. PICK j \in Nat : j = JoinsUnderWay'
        BY <3>2
      <3>5. (IF awaitingJoin THEN 1 ELSE 0) = j + k
        BY <1>0, <2>4, <3>3, <3>4
      <3>6. CASE IsWelcomed(batch)
        <4>1. k # 0
          BY <3>1, <3>3, <3>6
        <4>2. j = 0
          BY <3>5, <4>1
        <4>. QED BY <2>3, <3>4, <3>6, <4>2
      <3>7. CASE ~IsWelcomed(batch)
        <4>1. k = 0
          BY <3>1, <3>3, <3>7
        <4>2. (IF awaitingJoin THEN 1 ELSE 0) = j
          BY <3>5, <4>1
        <4>3. awaitingJoin' = awaitingJoin
          BY <1>0, <2>3, <3>7, Zenon
        <4>. QED BY <3>4, <4>2, <4>3
      <3>. QED BY <3>6, <3>7
    <2>7. Bounded'
      BY <1>0, <2>3, ReadBounded
    <2>8. BotTyped'
      <3>1. LatestState(batch) \in {"none", "STATE_WITH", "STATE_WITHOUT"}
        BY <2>4, LatestIsState
      <3>2. /\ step' = "steer" /\ present' \in BOOLEAN
            /\ gameStateHasChanged' = (gameStateHasChanged \/ LatestState(batch) # "none")
        BY <1>0, <2>1, <2>2, <3>1 DEF ReceiveUpdates, BotTyped
      <3>3. clientId' \in {-1, Me}
        BY <1>0, <2>3 DEF BotTyped
      <3>. QED BY <1>0, <2>3, <3>2, <3>3 DEF BotTyped
    <2>. QED BY <2>3, <2>4, <2>5, <2>6, <2>7, <2>8 DEF Inv
  <1>3. CASE Steer
    <2>1. UNCHANGED <<alive, down, clientId, awaitingJoin>>
      BY <1>3 DEF Steer
    <2>2. NewsUnread' /\ LastTells'
      BY <1>0, <2>1 DEF NewsUnread, LastTells, Last
    <2>b. Bounded'
      BY <1>0, <1>3, <2>1, SentWithinBounds DEF Steer
    <2>t. BotTyped'
      BY <1>0, <1>3 DEF BotTyped, Steer, Answered
    <2>3. CASE up' = Append(up, "CLIENT_INPUT")
      <3>1. "CLIENT_INPUT" \in UpMessages
        BY DEF UpMessages
      <3>2. /\ SessionTyped'
            /\ JoinsUnderWay' = JoinsUnderWay
                 + (IF "CLIENT_INPUT" = "CLIENT_JOIN" THEN 1 ELSE 0)
        BY <1>0, <2>1, <2>3, <3>1, SendOne
      <3>3. JoinsUnderWay' = JoinsUnderWay
        BY <1>0, <3>2
      <3>. QED BY <1>0, <2>1, <2>2, <2>b, <2>t, <3>2, <3>3 DEF Inv
    <2>4. CASE up' = up
      BY <1>0, <2>1, <2>2, <2>b, <2>t, <2>4 DEF Inv, SessionTyped, JoinsUnderWay
    <2>. QED BY <1>3, <2>3, <2>4 DEF Steer
  <1>4. CASE Server /\ UNCHANGED botVars
    <2>1. /\ SessionTyped' /\ LastTells' /\ JoinsUnderWay' = JoinsUnderWay
          /\ ~alive' /\ (alive \/ down # << >>) => down' # << >>
      BY <1>0, <1>4, ServerTells
    <2>2. UNCHANGED <<clientId, awaitingJoin>> /\ BotTyped'
      BY <1>0, <1>4 DEF botVars, BotTyped
    <2>3. NewsUnread'
      BY <1>0, <2>1, <2>2 DEF NewsUnread
    <2>4. Bounded'
      BY <1>0, <1>4, ServerBounded
    <2>. QED BY <1>0, <2>1, <2>2, <2>3, <2>4 DEF Inv
  <1>5. CASE UNCHANGED vars
    BY <1>0, <1>5 DEF Inv, vars, sessionVars, botVars, SessionTyped, LastTells, NewsUnread, Last,
                      JoinsUnderWay, Bounded, Slack, After, BotTyped
  <1>. QED BY <1>1, <1>2, <1>3, <1>4, <1>5 DEF Next, Bot

LEMMA InvAlways == Spec => []Inv
  BY InvInit, InvNext, PTL DEF Spec

\* NoGhost: a bot that believes to be in the game has a snake, or has still to read the
\* GAME_STATE upon which it joins again.
THEOREM BotNeverAGhost == Spec => []NoGhost
  <1>1. Inv => NoGhost
    BY DEF Inv, LastTells, NewsUnread, NoGhost, DeathUnderWay, State
  <1>. QED BY <1>1, InvAlways, PTL

\* OneJoinAtATime: between the bot's flag and the two directions of its connection, there
\* always is exactly one join or welcome if it waits for one, and none if it does not.
THEOREM BotJoinsOnce == Spec => []OneJoinAtATime
  <1>1. Inv => OneJoinAtATime
    BY DEF Inv, JoinsUnderWay, OneJoinAtATime
  <1>. QED BY <1>1, InvAlways, PTL

\* TypeOK: a bot that is in the game has answered every GAME_STATE before it reads the
\* next, and what is under way between it and the server stays within the bounds.
THEOREM BotTypeCorrect == Spec => []TypeOK
  <1>1. Inv => TypeOK
    BY BoundedTypes DEF Inv, BotTyped, TypeOK
  <1>. QED BY <1>1, InvAlways, PTL
=============================================================================
