------------------------ MODULE ClientSessionProofs ------------------------
(***************************************************************************)
(* The terminal client never plays a snake that is dead without the news   *)
(* being under way, whatever its id and however much is under way.         *)
(*                                                                         *)
(* NoGhost says what the last message is.  That is an invariant of the     *)
(* server alone (LastTells); what the client adds is that it has not read  *)
(* that message yet (NewsUnread).                                          *)
(*                                                                         *)
(* That the streams stay within their bounds is not inductive either: what *)
(* is left to read must fit however far the client reads (Bounded).        *)
(***************************************************************************)
EXTENDS ClientSession, SessionProofs

NewsUnread == playing /\ ~alive => down # << >>

\* TypeOK without the bounds on the streams, which hold by Bounded.
ClientTyped ==
    /\ running \in BOOLEAN /\ playing \in BOOLEAN /\ playerInput \in BOOLEAN
    /\ clientId = IF playing THEN Me ELSE -1
    /\ step \in {"input", "receive", "over"}

Inv ==
    /\ SessionTyped
    /\ Bounded
    /\ LastTells
    /\ ClientTyped
    /\ NewsUnread

LEMMA InvInit == Init => Inv
  <1> SUFFICES ASSUME Init PROVE Inv
    OBVIOUS
  <1>1. alive = FALSE /\ up = <<"CLIENT_JOIN">> /\ down = << >> /\ playing = FALSE
    BY DEF Init
  <1>2. up \in Seq(UpMessages) /\ down \in Seq(DownMessages)
    BY <1>1, SMT DEF UpMessages
  <1>3. Len(up) = 1 /\ Len(down) = 0
    BY <1>1
  <1>4. Count(down, "SERVER_WELCOME") = 0
    <2>1. ~Contains(down, "SERVER_WELCOME")
      BY <1>1, SMT DEF Contains
    <2>. QED BY <1>2, <2>1, CountNone
  <1>5. Slack(down, 0)
    <2>1. Len(down) < MaxDown
      BY <1>3, SessionAssumption
    <2>. QED BY <1>2, <2>1, SlackOfShort, SlackLess
  <1>6. Bounded
    BY <1>3, <1>4, <1>5, SessionAssumption DEF Bounded
  <1>7. ClientTyped
    BY DEF Init, ClientTyped
  <1>. QED BY <1>1, <1>2, <1>6, <1>7 DEF Inv, SessionTyped, LastTells, NewsUnread

LEMMA InvNext == Inv /\ [Next]_vars => Inv'
  <1> SUFFICES ASSUME Inv, [Next]_vars PROVE Inv'
    OBVIOUS
  <1>0. SessionTyped /\ Bounded /\ LastTells /\ ClientTyped /\ NewsUnread
    BY DEF Inv
  <1>1. CASE \E key \in {"none", "arrow", "r", "q"} : HandleInput(key)
    <2>1. PICK key \in {"none", "arrow", "r", "q"} : HandleInput(key)
      BY <1>1
    <2>2. UNCHANGED <<alive, down, playing>>
      BY <2>1 DEF HandleInput
    <2>3. PICK joins \in Seq(UpMessages), inputs \in Seq(UpMessages) :
             up' = (up \o joins) \o inputs
      <3>1. /\ << >> \in Seq(UpMessages) /\ <<"CLIENT_JOIN">> \in Seq(UpMessages)
            /\ <<"CLIENT_INPUT">> \in Seq(UpMessages)
        BY SMT DEF UpMessages
      <3>. QED BY <2>1, <3>1 DEF HandleInput
    <2>4. up' \in Seq(UpMessages)
      <3>1. up \o joins \in Seq(UpMessages)
        BY <1>0, ConcatProperties DEF SessionTyped
      <3>2. (up \o joins) \o inputs \in Seq(UpMessages)
        BY <3>1, ConcatProperties
      <3>. QED BY <2>3, <3>2
    <2>5. Bounded'
      BY <1>0, <2>1, <2>2, SentWithinBounds DEF HandleInput
    <2>6. ClientTyped'
      BY <1>0, <2>1 DEF ClientTyped, HandleInput
    <2>. QED BY <1>0, <2>2, <2>4, <2>5, <2>6 DEF Inv, SessionTyped, LastTells, NewsUnread, Last
  <1>2. CASE \E n \in 0..Len(down) : ReceiveUpdates(n)
    <2>1. PICK n \in 0..Len(down) : ReceiveUpdates(n)
      BY <1>2
    <2>2. PICK batch : batch = SubSeq(down, 1, n)
      OBVIOUS
    <2>3. /\ down' = SubSeq(down, n + 1, Len(down)) /\ UNCHANGED <<alive, up>>
          /\ playing' => LatestState(batch) # "STATE_WITHOUT" /\ (playing \/ IsWelcomed(batch))
      BY <2>1, <2>2 DEF ReceiveUpdates
    <2>4. /\ SessionTyped' /\ LastTells'
          /\ down # << >> /\ down' = << >> => LatestState(batch) = State(alive)
          /\ down = << >> => batch = << >>
      <3>1. /\ SessionTyped' /\ LastTells'
            /\ down # << >> /\ down' = << >> => LatestState(SubSeq(down, 1, n)) = State(alive)
            /\ down = << >> => SubSeq(down, 1, n) = << >>
        BY <1>0, <2>3, ReadTells
      <3>. QED BY <2>2, <3>1, Zenon
    <2>5. NewsUnread'
      <3> SUFFICES ASSUME playing', ~alive', down' = << >> PROVE FALSE
        BY DEF NewsUnread
      <3>1. ~alive /\ State(alive) = "STATE_WITHOUT"
        BY <2>3 DEF State
      <3>2. down = << >>
        BY <2>3, <2>4, <3>1
      <3>3. ~IsWelcomed(batch)
        BY <2>4, <3>2, SMT DEF IsWelcomed, Contains
      <3>4. playing
        BY <2>3, <3>3
      <3>. QED BY <1>0, <3>1, <3>2, <3>4 DEF NewsUnread
    <2>6. Bounded'
      BY <1>0, <2>3, ReadBounded
    <2>7. ClientTyped'
      <3> DEFINE id == IF IsWelcomed(batch) THEN Me ELSE clientId
                 absent == LatestState(batch) = "STATE_WITHOUT"
                             \/ (LatestState(batch) = "STATE_WITH" /\ id # Me)
      <3>1. /\ playing' = ((playing \/ IsWelcomed(batch)) /\ ~absent)
            /\ clientId' = IF absent THEN -1 ELSE id
            /\ step' = IF running THEN "input" ELSE "over"
            /\ UNCHANGED <<running, playerInput>>
        BY <2>1, <2>2, Zenon DEF ReceiveUpdates
      <3>2. clientId' = IF playing' THEN Me ELSE -1
        <4>1. CASE absent
          BY <3>1, <4>1
        <4>2. CASE ~absent /\ IsWelcomed(batch)
          BY <3>1, <4>2
        <4>3. CASE ~absent /\ ~IsWelcomed(batch)
          <5>1. clientId' = clientId /\ (playing' <=> playing)
            BY <3>1, <4>3
          <5>. QED BY <1>0, <5>1 DEF ClientTyped
        <4>. QED BY <4>1, <4>2, <4>3
      <3>3. playing' \in BOOLEAN
        BY <3>1, Zenon
      <3> HIDE DEF id, absent
      <3>. QED BY <1>0, <3>1, <3>2, <3>3 DEF ClientTyped
    <2>. QED BY <2>3, <2>4, <2>5, <2>6, <2>7 DEF Inv
  <1>3. CASE Server /\ UNCHANGED clientVars
    <2>1. /\ SessionTyped' /\ LastTells'
          /\ ~alive' /\ (alive \/ down # << >>) => down' # << >>
      BY <1>0, <1>3, ServerTells
    <2>2. playing' = playing /\ ClientTyped'
      BY <1>0, <1>3 DEF clientVars, ClientTyped
    <2>3. NewsUnread'
      BY <1>0, <2>1, <2>2 DEF NewsUnread
    <2>4. Bounded'
      BY <1>0, <1>3, ServerBounded
    <2>. QED BY <1>0, <2>1, <2>2, <2>3, <2>4 DEF Inv
  <1>4. CASE UNCHANGED vars
    BY <1>0, <1>4 DEF Inv, vars, sessionVars, clientVars, SessionTyped, LastTells, NewsUnread, Last,
                      Bounded, Slack, After, ClientTyped
  <1>. QED BY <1>1, <1>2, <1>3, <1>4 DEF Next

LEMMA InvAlways == Spec => []Inv
  BY InvInit, InvNext, PTL DEF Spec

\* NoGhost: a terminal client that believes to be playing has a snake, or has still to
\* read the GAME_STATE that takes it out of the game.
THEOREM ClientNeverAGhost == Spec => []NoGhost
  <1>1. Inv => NoGhost
    BY DEF Inv, LastTells, NewsUnread, NoGhost, DeathUnderWay, State
  <1>. QED BY <1>1, InvAlways, PTL

\* TypeOK: the client has an id exactly while it believes to be playing, and what is
\* under way between it and the server stays within the bounds.
THEOREM ClientTypeCorrect == Spec => []TypeOK
  <1>1. Inv => TypeOK
    BY BoundedTypes DEF Inv, ClientTyped, TypeOK
  <1>. QED BY <1>1, InvAlways, PTL
=============================================================================
