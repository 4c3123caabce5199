--------------------------- MODULE SessionProofs ---------------------------
(***************************************************************************)
(* What the programs at the other end may rely on: lemmas about counting   *)
(* messages in a stream, about the batch a client reads, and about the     *)
(* server's iterations.  ClientSessionProofs and BotSessionProofs use them.*)
(***************************************************************************)
EXTENDS Session, WellFoundedInduction, FiniteSetTheorems, SequenceTheorems, TLAPS

-----------------------------------------------------------------------------
(* Counting.                                                               *)

LEMMA CountFinite ==
    ASSUME NEW S, NEW s \in Seq(S), NEW m
    PROVE  IsFiniteSet({i \in 1..Len(s) : s[i] = m}) /\ Count(s, m) \in Nat
  <1>1. PICK n \in Nat : n = Len(s)
    BY LenProperties
  <1>2. IsFiniteSet(1..n)
    <2>1. 1 \in Int /\ n \in Int
      OBVIOUS
    <2>. QED BY <2>1, FS_Interval
  <1>3. {i \in 1..n : s[i] = m} \in SUBSET (1..n)
    OBVIOUS
  <1>4. IsFiniteSet({i \in 1..n : s[i] = m})
    BY <1>2, <1>3, FS_Subset
  <1>. QED BY <1>1, <1>4, FS_CardinalityType DEF Count

LEMMA CountNone ==
    ASSUME NEW S, NEW s \in Seq(S), NEW m
    PROVE  Count(s, m) = 0 <=> ~Contains(s, m)
  <1>1. {i \in 1..Len(s) : s[i] = m} = {} <=> ~Contains(s, m)
    BY DEF Contains
  <1>2. IsFiniteSet({i \in 1..Len(s) : s[i] = m})
    BY CountFinite
  <1>3. Cardinality({i \in 1..Len(s) : s[i] = m}) = 0 <=> {i \in 1..Len(s) : s[i] = m} = {}
    BY <1>2, FS_EmptySet, Zenon
  <1>. QED BY <1>1, <1>3 DEF Count

LEMMA CountSingle ==
    ASSUME NEW x, NEW m
    PROVE  Count(<<x>>, m) = IF x = m THEN 1 ELSE 0
  <1>1. {i \in 1..Len(<<x>>) : <<x>>[i] = m} = IF x = m THEN {1} ELSE {}
    BY SMT
  <1>. QED BY <1>1, FS_EmptySet, FS_Singleton DEF Count

LEMMA CountWelcomes ==
    ASSUME NEW n \in Nat
    PROVE  /\ Welcomes(n) \in Seq(DownMessages) /\ Len(Welcomes(n)) = n
           /\ Count(Welcomes(n), "SERVER_WELCOME") = n
  <1>1. Welcomes(n) \in Seq(DownMessages) /\ Len(Welcomes(n)) = n
    BY SMT DEF Welcomes, DownMessages
  <1>2. {i \in 1..Len(Welcomes(n)) : Welcomes(n)[i] = "SERVER_WELCOME"} = 1..n
    BY <1>1 DEF Welcomes
  <1>3. Cardinality(1..n) = n
    <2>1. 1 \in Int /\ n \in Int
      OBVIOUS
    <2>2. Cardinality(1..n) = IF 1 > n THEN 0 ELSE n - 1 + 1
      BY <2>1, FS_Interval
    <2>. QED BY <2>2
  <1>. QED BY <1>1, <1>2, <1>3 DEF Count

LEMMA CountConcat ==
    ASSUME NEW S, NEW s \in Seq(S), NEW t \in Seq(S), NEW m
    PROVE  Count(s \o t, m) = Count(s, m) + Count(t, m)
  <1>1. PICK L \in Nat : L = Len(s)
    BY LenProperties
  <1>2. PICK T \in Nat : T = Len(t)
    BY LenProperties
  <1>3. /\ Len(s \o t) = L + T /\ s \o t \in Seq(S)
        /\ \A i \in 1..(L + T) : (s \o t)[i] = IF i <= L THEN s[i] ELSE t[i - L]
    BY <1>1, <1>2, ConcatProperties
  <1> DEFINE A == {i \in 1..L : s[i] = m}
             B == {i \in 1..T : t[i] = m}
             Shifted == {i + L : i \in B}
             C == {i \in 1..(L + T) : (s \o t)[i] = m}
  <1>4. C = A \cup Shifted
    <2>1. ASSUME NEW i \in C PROVE i \in A \cup Shifted
      <3>1. CASE i <= L
        <4>1. i \in 1..L
          BY <3>1, SMT
        <4>. QED BY <1>3, <3>1, <4>1
      <3>2. CASE ~(i <= L)
        <4>1. i - L \in 1..T /\ (i - L) + L = i
          BY <3>2, SMT
        <4>2. t[i - L] = m
          BY <1>3, <3>2
        <4>. QED BY <4>1, <4>2
      <3>. QED BY <3>1, <3>2
    <2>2. ASSUME NEW i \in A PROVE i \in C
      <3>1. i \in 1..(L + T) /\ i <= L
        BY SMT
      <3>. QED BY <1>3, <3>1
    <2>3. ASSUME NEW i \in B PROVE i + L \in C
      <3>1. i + L \in 1..(L + T) /\ ~(i + L <= L) /\ (i + L) - L = i
        BY SMT
      <3>. QED BY <1>3, <3>1
    <2>. QED BY <2>1, <2>2, <2>3
  <1>5. A \cap Shifted = {}
    BY SMT
  <1>6. IsFiniteSet(A) /\ IsFiniteSet(B) /\ Count(s, m) = Cardinality(A) /\ Count(t, m) = Cardinality(B)
        /\ Count(s \o t, m) = Cardinality(C)
    <2>1. /\ IsFiniteSet({i \in 1..Len(s) : s[i] = m})
          /\ IsFiniteSet({i \in 1..Len(t) : t[i] = m})
      BY CountFinite
    <2>2. A = {i \in 1..Len(s) : s[i] = m} /\ B = {i \in 1..Len(t) : t[i] = m}
          /\ C = {i \in 1..Len(s \o t) : (s \o t)[i] = m}
      BY <1>1, <1>2, <1>3
    <2> HIDE DEF A, B, C
    <2>. QED BY <2>1, <2>2, Zenon DEF Count
  <1>7. IsFiniteSet(Shifted) /\ Cardinality(Shifted) = Cardinality(B)
    <2> DEFINE F == [i \in B |-> i + L]
    <2>1. \A i, j \in B : i + L = j + L => i = j
      BY SMT
    <2>2. F \in Bijection(B, Shifted)
      <3> HIDE DEF B
      <3>. QED BY <2>1 DEF Bijection, Injection, Surjection, IsInjective
    <2>3. ExistsBijection(B, Shifted)
      BY <2>2 DEF ExistsBijection
    <2>. QED BY <1>6, <2>3, FS_Bijection
  <1> HIDE DEF A, B, C, Shifted
  <1>8. Cardinality(A \cup Shifted) =
          Cardinality(A) + Cardinality(Shifted) - Cardinality(A \cap Shifted)
    BY <1>6, <1>7, FS_Union
  <1>9. Cardinality(A \cap Shifted) = 0 /\ Cardinality(A) \in Nat /\ Cardinality(B) \in Nat
    BY <1>5, <1>6, FS_EmptySet, FS_CardinalityType
  <1>. QED BY <1>4, <1>6, <1>7, <1>8, <1>9

\* A stream that is read in two parts.
LEMMA Split ==
    ASSUME NEW S, NEW s \in Seq(S), NEW n \in 0..Len(s)
    PROVE  /\ SubSeq(s, 1, n) \in Seq(S) /\ SubSeq(s, n + 1, Len(s)) \in Seq(S)
           /\ SubSeq(s, 1, n) \o SubSeq(s, n + 1, Len(s)) = s
  <1>1. Len(s) \in Nat
    BY LenProperties
  <1>2. SubSeq(s, 1, n) \in Seq(S) /\ SubSeq(s, n + 1, Len(s)) \in Seq(S)
    BY SMT
  <1>3. 1 \in 1..(Len(s) + 1) /\ n \in (1 - 1)..Len(s) /\ Len(s) \in n..Len(s)
    BY <1>1, SMT
  <1>4. SubSeq(s, 1, n) \o SubSeq(s, n + 1, Len(s)) = SubSeq(s, 1, Len(s))
    BY <1>3, ConcatAdjacentSubSeq
  <1>. QED BY <1>2, <1>4, SubSeqFull

LEMMA CountSplit ==
    ASSUME NEW S, NEW s \in Seq(S), NEW n \in 0..Len(s), NEW m
    PROVE  Count(s, m) = Count(SubSeq(s, 1, n), m) + Count(SubSeq(s, n + 1, Len(s)), m)
  <1> DEFINE front == SubSeq(s, 1, n)
             rest == SubSeq(s, n + 1, Len(s))
  <1>1. front \in Seq(S) /\ rest \in Seq(S) /\ front \o rest = s
    BY Split
  <1> HIDE DEF front, rest
  <1>2. Count(front \o rest, m) = Count(front, m) + Count(rest, m)
    BY <1>1, CountConcat
  <1>. QED BY <1>1, <1>2 DEF front, rest

-----------------------------------------------------------------------------
(* What is under way.                                                      *)

SessionTyped ==
    /\ alive \in BOOLEAN
    /\ up \in Seq(UpMessages)
    /\ down \in Seq(DownMessages)

\* The last thing under way to the client is whether it has a snake: every welcome is
\* followed by a GAME_STATE in the same iteration, and nobody dies without one.
LastTells == down # << >> => Last(down) = State(alive)

JoinsUnderWay == Count(up, "CLIENT_JOIN") + Count(down, "SERVER_WELCOME")

LEMMA LastOfConcat ==
    ASSUME NEW S, NEW s \in Seq(S), NEW x \in S
    PROVE  /\ s \o <<x>> \in Seq(S) /\ s \o <<x>> # << >>
           /\ Last(s \o <<x>>) = x
  BY SMT DEF Last

\* Of a batch that ends in a GAME_STATE, that is the one the clients handle.
LEMMA LatestIsLast ==
    ASSUME NEW s \in Seq(DownMessages), s # << >>, Last(s) # "SERVER_WELCOME"
    PROVE  LatestState(s) = Last(s)
  <1>1. PICK n \in Nat : n = Len(s) /\ n \in 1..n
    <2>1. Len(s) \in Nat /\ Len(s) \in 1..Len(s)
      BY SMT
    <2>. QED BY <2>1
  <1>2. n \in StatesIn(s) /\ StatesIn(s) \subseteq 1..n
    BY <1>1 DEF StatesIn, Last
  <1>3. \A i \in 1..n : i <= n /\ (n <= i => i = n)
    BY SMT
  <1>4. (CHOOSE i \in StatesIn(s) : \A j \in StatesIn(s) : j <= i) = n
    <2>1. \A j \in StatesIn(s) : j <= n
      BY <1>2, <1>3
    <2>2. \A i \in StatesIn(s) : (\A j \in StatesIn(s) : j <= i) => i = n
      BY <1>2, <1>3
    <2>. QED BY <1>2, <2>1, <2>2
  <1>. QED BY <1>1, <1>2, <1>4 DEF LatestState, Last

\* What the clients take from a batch is nothing or a GAME_STATE.
LEMMA LatestIsState ==
    ASSUME NEW s \in Seq(DownMessages)
    PROVE  LatestState(s) \in {"none", "STATE_WITH", "STATE_WITHOUT"}
  <1>1. CASE StatesIn(s) = {}
    BY <1>1 DEF LatestState
  <1>2. CASE StatesIn(s) # {}
    <2> DEFINE Latest(i) == \A j \in StatesIn(s) : j <= i
    <2>1. PICK n \in Nat : n = Len(s)
      BY LenProperties
    <2>2. StatesIn(s) \subseteq 1..n
      BY <2>1 DEF StatesIn
    <2>3. \E i \in StatesIn(s) : Latest(i)
      <3> DEFINE Left == {n - i : i \in StatesIn(s)}
      <3>1. Left \subseteq Nat /\ Left # {}
        BY <1>2, <2>2, SMT
      <3>2. PICK m \in Left : \A k \in Left : ~(<<k, m>> \in OpToRel(<, Nat))
        <4> HIDE DEF Left
        <4>. QED BY <3>1, NatLessThanWellFounded, WFMin
      <3>3. \A k \in Left : m <= k
        <4> HIDE DEF Left
        <4>1. \A k \in Left : ~(k < m)
          BY <3>1, <3>2 DEF OpToRel
        <4>. QED BY <3>1, <4>1
      <3>4. PICK i \in StatesIn(s) : m = n - i
        OBVIOUS
      <3>5. ASSUME NEW j \in StatesIn(s) PROVE j <= i
        <4>1. m <= n - j
          BY <3>3
        <4>. QED BY <2>2, <3>4, <4>1, SMT
      <3>. QED BY <3>5
    <2>4. (CHOOSE i \in StatesIn(s) : Latest(i)) \in StatesIn(s)
      <3> HIDE DEF Latest
      <3>. QED BY <2>3
    <2>5. \A i \in StatesIn(s) : s[i] \in {"STATE_WITH", "STATE_WITHOUT"}
      BY SMT DEF StatesIn, DownMessages
    <2>. QED BY <1>2, <2>4, <2>5 DEF LatestState
  <1>. QED BY <1>1, <1>2

LEMMA ServerTells ==
    ASSUME SessionTyped, LastTells, Server
    PROVE  /\ SessionTyped' /\ LastTells' /\ JoinsUnderWay' = JoinsUnderWay
           /\ ~alive' /\ (alive \/ down # << >>) => down' # << >>
  <1>1. PICK n \in 0..Len(up), moved \in BOOLEAN, dies \in BOOLEAN :
           ServerIteration(n, moved, dies)
    BY DEF Server
  <1>2. PICK read : read = SubSeq(up, 1, n)
    OBVIOUS
  <1>3. PICK joins : joins = Count(read, "CLIENT_JOIN")
    OBVIOUS
  <1>4. /\ read \in Seq(UpMessages) /\ joins \in Nat /\ up' \in Seq(UpMessages)
        /\ Count(up, "CLIENT_JOIN") = joins + Count(up', "CLIENT_JOIN")
    <2>1. up' = SubSeq(up, n + 1, Len(up))
      BY <1>1 DEF ServerIteration
    <2>2. SubSeq(up, 1, n) \in Seq(UpMessages) /\ SubSeq(up, n + 1, Len(up)) \in Seq(UpMessages)
      BY Split DEF SessionTyped
    <2>3. Count(up, "CLIENT_JOIN") =
            Count(SubSeq(up, 1, n), "CLIENT_JOIN")
              + Count(SubSeq(up, n + 1, Len(up)), "CLIENT_JOIN")
      BY CountSplit DEF SessionTyped
    <2>4. joins \in Nat
      BY <1>2, <1>3, <2>2, CountFinite
    <2>. QED BY <1>2, <1>3, <2>1, <2>2, <2>3, <2>4
  <1>5. PICK tail : tail = IF moved \/ joins > 0 THEN <<State(alive')>> ELSE << >>
    OBVIOUS
  <1>6. /\ dies => moved /\ (alive \/ joins > 0)
        /\ alive' = ((alive \/ joins > 0) /\ ~dies)
        /\ down' = (down \o Welcomes(joins)) \o tail
    BY <1>1, <1>2, <1>3, <1>5 DEF ServerIteration
  <1>7. State(alive') \in DownMessages /\ State(alive') # "SERVER_WELCOME"
    BY DEF State, DownMessages
  <1>8. tail \in Seq(DownMessages) /\ Count(tail, "SERVER_WELCOME") = 0
    <2>1. << >> \in Seq(DownMessages) /\ <<State(alive')>> \in Seq(DownMessages)
      BY <1>7, SMT
    <2>2. ~Contains(<< >>, "SERVER_WELCOME")
      BY SMT DEF Contains
    <2>3. Count(<< >>, "SERVER_WELCOME") = 0
      BY <2>1, <2>2, CountNone
    <2>4. Count(<<State(alive')>>, "SERVER_WELCOME") = 0
      BY <1>7, CountSingle
    <2>. QED BY <1>5, <2>1, <2>3, <2>4
  <1>9. /\ Welcomes(joins) \in Seq(DownMessages) /\ Len(Welcomes(joins)) = joins
        /\ Count(Welcomes(joins), "SERVER_WELCOME") = joins
    BY <1>4, CountWelcomes
  <1>10. PICK told : told = down \o Welcomes(joins)
    OBVIOUS
  <1>11. told \in Seq(DownMessages) /\ told \o tail \in Seq(DownMessages)
    <2>1. down \in Seq(DownMessages)
      BY DEF SessionTyped
    <2>2. told \in Seq(DownMessages)
      BY <1>9, <1>10, <2>1, ConcatProperties
    <2>. QED BY <1>8, <2>2, ConcatProperties
  <1>12. Count(down', "SERVER_WELCOME") = Count(down, "SERVER_WELCOME") + joins
    <2>1. Count(down \o Welcomes(joins), "SERVER_WELCOME") =
            Count(down, "SERVER_WELCOME") + Count(Welcomes(joins), "SERVER_WELCOME")
      BY <1>9, CountConcat DEF SessionTyped
    <2>2. Count(told \o tail, "SERVER_WELCOME") =
            Count(told, "SERVER_WELCOME") + Count(tail, "SERVER_WELCOME")
      BY <1>8, <1>11, CountConcat
    <2>3. Count(down, "SERVER_WELCOME") \in Nat
      BY CountFinite DEF SessionTyped
    <2>. QED BY <1>4, <1>6, <1>8, <1>9, <1>10, <2>1, <2>2, <2>3
  <1>13. JoinsUnderWay' = JoinsUnderWay
    <2>1. Count(down, "SERVER_WELCOME") \in Nat /\ Count(up', "CLIENT_JOIN") \in Nat
      BY <1>4, CountFinite DEF SessionTyped
    <2>. QED BY <1>4, <1>12, <2>1 DEF JoinsUnderWay
  <1>14. SessionTyped'
    BY <1>4, <1>6, <1>10, <1>11 DEF SessionTyped
  <1>15. CASE moved \/ joins > 0
    <2>1. /\ told \o <<State(alive')>> # << >>
          /\ Last(told \o <<State(alive')>>) = State(alive')
      BY <1>7, <1>11, LastOfConcat
    <2>2. down' # << >> /\ Last(down') = State(alive')
      BY <1>5, <1>6, <1>10, <1>15, <2>1
    <2>3. LastTells'
      BY <2>2 DEF LastTells, Last
    <2>. QED BY <1>13, <1>14, <2>2, <2>3
  <1>16. CASE ~(moved \/ joins > 0)
    <2>1. joins = 0
      BY <1>4, <1>16
    <2>2. Welcomes(joins) = << >>
      BY <1>9, <2>1, SMT
    <2>3. down' = down
      <3>1. (down \o << >>) \o << >> = down
        BY SMT DEF SessionTyped
      <3>. QED BY <1>5, <1>6, <1>16, <2>2, <3>1
    <2>4. alive' = alive
      BY <1>6, <1>16, Zenon DEF SessionTyped
    <2>5. LastTells'
      BY <2>3, <2>4 DEF LastTells, Last
    <2>. QED BY <1>13, <1>14, <2>3, <2>4, <2>5
  <1>. QED BY <1>15, <1>16

\* A client reads what is under way up to some message, and maybe all of it.
LEMMA ReadTells ==
    ASSUME SessionTyped, LastTells, NEW n \in 0..Len(down),
           down' = SubSeq(down, n + 1, Len(down)), UNCHANGED <<alive, up>>
    PROVE  /\ SessionTyped' /\ LastTells'
           /\ SubSeq(down, 1, n) \in Seq(DownMessages)
           /\ JoinsUnderWay = JoinsUnderWay' + Count(SubSeq(down, 1, n), "SERVER_WELCOME")
           /\ down # << >> /\ down' = << >> => LatestState(SubSeq(down, 1, n)) = State(alive)
           /\ down = << >> => SubSeq(down, 1, n) = << >>
  <1>a. PICK batch : batch = SubSeq(down, 1, n)
    OBVIOUS
  <1>1. PICK m \in Nat : m = Len(down) /\ n \in 0..m
    BY LenProperties DEF SessionTyped
  <1>2. /\ SubSeq(down, 1, n) \in Seq(DownMessages)
        /\ SubSeq(down, n + 1, Len(down)) \in Seq(DownMessages)
        /\ SubSeq(down, 1, n) \o SubSeq(down, n + 1, Len(down)) = down
    BY Split DEF SessionTyped
  <1>3. SessionTyped'
    BY <1>2 DEF SessionTyped
  <1>4. JoinsUnderWay = JoinsUnderWay' + Count(batch, "SERVER_WELCOME")
    <2>1. Count(down, "SERVER_WELCOME") =
            Count(SubSeq(down, 1, n), "SERVER_WELCOME")
              + Count(SubSeq(down, n + 1, Len(down)), "SERVER_WELCOME")
      BY CountSplit DEF SessionTyped
    <2>2. /\ Count(batch, "SERVER_WELCOME") \in Nat /\ Count(up, "CLIENT_JOIN") \in Nat
          /\ Count(down', "SERVER_WELCOME") \in Nat
      BY <1>a, <1>2, CountFinite DEF SessionTyped
    <2>. QED BY <1>a, <2>1, <2>2 DEF JoinsUnderWay
  <1>5. Last(down') = Last(down) \/ down' = << >>
    <2>1. PICK k \in Nat : k = m - n
      <3>1. m - n \in Nat
        BY <1>1, SMT
      <3>. QED BY <3>1
    <2>2. Len(down') = k /\ \A i \in 1..k : down'[i] = down[i + n]
      <3>1. down \in Seq(DownMessages)
        BY DEF SessionTyped
      <3>. QED BY <1>1, <2>1, <3>1, SMT
    <2>3. k = 0 \/ (k \in 1..k /\ k + n = m)
      BY <1>1, <2>1, SMT
    <2>4. k = 0 => down' = << >>
      BY <1>2, <2>2, SMT
    <2>. QED BY <1>1, <2>2, <2>3, <2>4 DEF Last
  <1>6. down # << >> \/ down' = << >>
    BY <1>1, SMT DEF SessionTyped
  <1>7. LastTells'
    <2>1. LastTells' <=> (down' # << >> => Last(down') = State(alive))
      BY DEF LastTells, Last, State
    <2>. QED BY <1>5, <1>6, <2>1 DEF LastTells
  <1>8. ASSUME down # << >>, down' = << >>
        PROVE  LatestState(batch) = State(alive)
    <2>1. batch = down
      <3>1. SubSeq(down, 1, n) \o << >> = SubSeq(down, 1, n)
        BY <1>2, ConcatEmptySeq
      <3>. QED BY <1>a, <1>2, <1>8, <3>1
    <2>2. Last(batch) = State(alive) /\ State(alive) # "SERVER_WELCOME"
      BY <1>8, <2>1 DEF LastTells, State
    <2>. QED BY <1>a, <1>2, <1>8, <2>1, <2>2, LatestIsLast
  <1>9. down = << >> => batch = << >>
    BY <1>a, <1>1, SMT
  <1>. QED BY <1>a, <1>2, <1>3, <1>4, <1>7, <1>8, <1>9

-----------------------------------------------------------------------------
(* How much is under way.                                                  *)

\* What is left of a stream when k messages have been read.
After(s, k) == SubSeq(s, k + 1, Len(s))

\* However far the client reads, what is left, and x messages more, is what the server
\* sends while the snakes move, and each welcome with the GAME_STATE that follows it.
Slack(s, x) ==
    \A k \in 0..Len(s) :
        Len(After(s, k)) + x <= MaxDown + 2 * Count(After(s, k), "SERVER_WELCOME")

Bounded ==
    /\ Len(up) + Count(down, "SERVER_WELCOME") <= MaxUp
    /\ Slack(down, 0)

LEMMA CountAtMostLen ==
    ASSUME NEW S, NEW s \in Seq(S), NEW m
    PROVE  Count(s, m) <= Len(s)
  <1>1. PICK n \in Nat : n = Len(s)
    BY LenProperties
  <1>2. IsFiniteSet(1..n) /\ Cardinality(1..n) = n
    <2>1. 1 \in Int /\ n \in Int
      OBVIOUS
    <2>2. Cardinality(1..n) = IF 1 > n THEN 0 ELSE n - 1 + 1
      BY <2>1, FS_Interval
    <2>. QED BY <2>1, <2>2, FS_Interval
  <1>3. {i \in 1..n : s[i] = m} \subseteq 1..n
    OBVIOUS
  <1>4. Cardinality({i \in 1..n : s[i] = m}) <= Cardinality(1..n)
    BY <1>2, <1>3, FS_Subset
  <1>. QED BY <1>1, <1>2, <1>4 DEF Count

LEMMA AfterTyped ==
    ASSUME NEW S, NEW s \in Seq(S), NEW k \in 0..Len(s)
    PROVE  /\ After(s, k) \in Seq(S) /\ Len(After(s, k)) = Len(s) - k
           /\ \A i \in 1..(Len(s) - k) : After(s, k)[i] = s[k + i]
  BY SMT DEF After

\* Reading twice.
LEMMA AfterAfter ==
    ASSUME NEW S, NEW s \in Seq(S), NEW n \in 0..Len(s), NEW k \in 0..Len(After(s, n))
    PROVE  n + k \in 0..Len(s) /\ After(After(s, n), k) = After(s, n + k)
  <1>1. PICK L \in Nat : L = Len(s) /\ n \in 0..L
    BY LenProperties
  <1>2. /\ After(s, n) \in Seq(S) /\ Len(After(s, n)) = L - n
        /\ \A i \in 1..(L - n) : After(s, n)[i] = s[n + i]
    BY <1>1, AfterTyped
  <1>3. n + k \in 0..L
    BY <1>1, <1>2, SMT
  <1>4. /\ After(After(s, n), k) \in Seq(S) /\ Len(After(After(s, n), k)) = (L - n) - k
        /\ \A i \in 1..((L - n) - k) : After(After(s, n), k)[i] = After(s, n)[k + i]
    <2>1. PICK r : r = After(s, n)
      OBVIOUS
    <2>2. r \in Seq(S) /\ k \in 0..Len(r) /\ Len(r) = L - n
      BY <1>2, <2>1
    <2>3. /\ After(r, k) \in Seq(S) /\ Len(After(r, k)) = Len(r) - k
          /\ \A i \in 1..(Len(r) - k) : After(r, k)[i] = r[k + i]
      BY <2>2, AfterTyped
    <2>. QED BY <2>1, <2>2, <2>3
  <1>5. /\ After(s, n + k) \in Seq(S) /\ Len(After(s, n + k)) = L - (n + k)
        /\ \A i \in 1..(L - (n + k)) : After(s, n + k)[i] = s[(n + k) + i]
    BY <1>1, <1>3, AfterTyped
  <1>6. (L - n) - k = L - (n + k)
    BY <1>1, <1>2, SMT
  <1>7. ASSUME NEW i \in 1..(L - (n + k))
        PROVE  After(After(s, n), k)[i] = After(s, n + k)[i]
    <2>1. k + i \in 1..(L - n) /\ n + (k + i) = (n + k) + i
      BY <1>1, <1>2, <1>3, SMT
    <2>. QED BY <1>2, <1>4, <1>5, <1>6, <2>1
  <1>8. After(After(s, n), k) = After(s, n + k)
    BY <1>4, <1>5, <1>6, <1>7, SeqEqual
  <1>. QED BY <1>1, <1>3, <1>8

\* Reading less than the first of two parts, and reading more.
CutsOne(s, t, k) ==
    \/ k \in 0..Len(s) /\ After(s \o t, k) = After(s, k) \o t
    \/ \E j \in 0..Len(t) : After(s \o t, k) = After(t, j)

LEMMA AfterConcat ==
    ASSUME NEW S, NEW s \in Seq(S), NEW t \in Seq(S), NEW k \in 0..Len(s \o t)
    PROVE  CutsOne(s, t, k)
  <1>1. PICK L \in Nat : L = Len(s)
    BY LenProperties
  <1>2. PICK T \in Nat : T = Len(t)
    BY LenProperties
  <1>3. /\ s \o t \in Seq(S) /\ Len(s \o t) = L + T /\ k \in 0..(L + T)
        /\ \A i \in 1..(L + T) : (s \o t)[i] = IF i <= L THEN s[i] ELSE t[i - L]
    BY <1>1, <1>2, ConcatProperties
  <1>4. /\ After(s \o t, k) \in Seq(S) /\ Len(After(s \o t, k)) = (L + T) - k
        /\ \A i \in 1..((L + T) - k) : After(s \o t, k)[i] = (s \o t)[k + i]
    <2>1. PICK r : r = s \o t
      OBVIOUS
    <2>2. r \in Seq(S) /\ k \in 0..Len(r) /\ Len(r) = L + T
      BY <1>3, <2>1
    <2>3. /\ After(r, k) \in Seq(S) /\ Len(After(r, k)) = Len(r) - k
          /\ \A i \in 1..(Len(r) - k) : After(r, k)[i] = r[k + i]
      BY <2>2, AfterTyped
    <2>. QED BY <2>1, <2>2, <2>3
  <1>5. CASE k <= L
    <2>1. k \in 0..L
      BY <1>3, <1>5, SMT
    <2>2. /\ After(s, k) \in Seq(S) /\ Len(After(s, k)) = L - k
          /\ \A i \in 1..(L - k) : After(s, k)[i] = s[k + i]
      BY <1>1, <2>1, AfterTyped
    <2>3. /\ After(s, k) \o t \in Seq(S) /\ Len(After(s, k) \o t) = (L - k) + T
          /\ \A i \in 1..((L - k) + T) :
                (After(s, k) \o t)[i] = IF i <= L - k THEN After(s, k)[i] ELSE t[i - (L - k)]
      <3>1. PICK r : r = After(s, k)
        OBVIOUS
      <3>2. r \in Seq(S) /\ Len(r) = L - k
        BY <2>2, <3>1
      <3>3. /\ r \o t \in Seq(S) /\ Len(r \o t) = Len(r) + Len(t)
            /\ \A i \in 1..(Len(r) + Len(t)) :
                  (r \o t)[i] = IF i <= Len(r) THEN r[i] ELSE t[i - Len(r)]
        BY <3>2, ConcatProperties
      <3>. QED BY <1>2, <3>1, <3>2, <3>3
    <2>4. (L - k) + T = (L + T) - k
      BY <2>1, SMT
    <2>5. ASSUME NEW i \in 1..((L + T) - k)
          PROVE  After(s \o t, k)[i] = (After(s, k) \o t)[i]
      <3>1. k + i \in 1..(L + T) /\ (k + i <= L <=> i <= L - k) /\ (k + i) - L = i - (L - k)
            /\ (i <= L - k => i \in 1..(L - k))
        BY <2>1, SMT
      <3>. QED BY <1>3, <1>4, <2>2, <2>3, <2>4, <3>1
    <2>6. After(s \o t, k) = After(s, k) \o t
      BY <1>4, <2>3, <2>4, <2>5, SeqEqual
    <2>. QED BY <1>1, <2>1, <2>6 DEF CutsOne
  <1>6. CASE ~(k <= L)
    <2>1. k - L \in 0..T
      BY <1>3, <1>6, SMT
    <2>2. /\ After(t, k - L) \in Seq(S) /\ Len(After(t, k - L)) = T - (k - L)
          /\ \A i \in 1..(T - (k - L)) : After(t, k - L)[i] = t[(k - L) + i]
      BY <1>2, <2>1, AfterTyped
    <2>3. T - (k - L) = (L + T) - k
      BY <1>3, SMT
    <2>4. ASSUME NEW i \in 1..((L + T) - k)
          PROVE  After(s \o t, k)[i] = After(t, k - L)[i]
      <3>1. k + i \in 1..(L + T) /\ ~(k + i <= L) /\ (k + i) - L = (k - L) + i
        BY <1>3, <1>6, SMT
      <3>. QED BY <1>3, <1>4, <2>2, <2>3, <3>1
    <2>5. After(s \o t, k) = After(t, k - L)
      BY <1>4, <2>2, <2>3, <2>4, SeqEqual
    <2>. QED BY <1>2, <2>1, <2>5 DEF CutsOne
  <1>. QED BY <1>5, <1>6

LEMMA SlackWhole ==
    ASSUME NEW s \in Seq(DownMessages), NEW x \in Nat, Slack(s, x)
    PROVE  Len(s) + x <= MaxDown + 2 * Count(s, "SERVER_WELCOME")
  <1>1. Len(s) \in Nat
    BY LenProperties
  <1>2. 0 \in 0..Len(s) /\ After(s, 0) = s
    <2>1. After(s, 0) = SubSeq(s, 1, Len(s))
      BY DEF After
    <2>. QED BY <1>1, <2>1, SubSeqFull
  <1>. QED BY <1>2 DEF Slack

\* Nothing was sent while there was too much to read: one GAME_STATE more fits.
LEMMA SlackOfShort ==
    ASSUME NEW s \in Seq(DownMessages), Len(s) < MaxDown
    PROVE  Slack(s, 1)
  <1>1. MaxDown \in Nat /\ Len(s) \in Nat
    BY SessionAssumption, LenProperties
  <1> SUFFICES ASSUME NEW k \in 0..Len(s)
               PROVE  Len(After(s, k)) + 1 <= MaxDown + 2 * Count(After(s, k), "SERVER_WELCOME")
    BY DEF Slack
  <1>2. After(s, k) \in Seq(DownMessages) /\ Len(After(s, k)) = Len(s) - k
    BY AfterTyped
  <1>3. PICK c \in Nat : c = Count(After(s, k), "SERVER_WELCOME")
    BY <1>2, CountFinite
  <1>4. Len(s) - k + 1 <= MaxDown + 2 * c
    BY <1>1, SMT
  <1>. QED BY <1>2, <1>3, <1>4

LEMMA SlackLess ==
    ASSUME NEW s \in Seq(DownMessages), Slack(s, 1)
    PROVE  Slack(s, 0)
  <1> SUFFICES ASSUME NEW k \in 0..Len(s)
               PROVE  Len(After(s, k)) + 0 <= MaxDown + 2 * Count(After(s, k), "SERVER_WELCOME")
    BY DEF Slack
  <1>1. PICK r \in Seq(DownMessages) : r = After(s, k)
    BY AfterTyped
  <1>2. PICK c \in Nat : c = Count(r, "SERVER_WELCOME")
    BY CountFinite
  <1>3. Len(r) \in Nat /\ Len(r) + 1 <= MaxDown + 2 * c
    BY <1>1, <1>2, LenProperties DEF Slack
  <1>4. Len(r) + 0 <= MaxDown + 2 * c
    BY <1>3, SessionAssumption, SMT
  <1>. QED BY <1>1, <1>2, <1>4

LEMMA WelcomesAfter ==
    ASSUME NEW n \in Nat, NEW j \in 0..n
    PROVE  /\ Len(After(Welcomes(n), j)) = n - j
           /\ Count(After(Welcomes(n), j), "SERVER_WELCOME") = n - j
  <1>1. Welcomes(n) \in Seq(DownMessages) /\ Len(Welcomes(n)) = n
    BY CountWelcomes
  <1>2. PICK w \in Seq(DownMessages) : w = Welcomes(n) /\ Len(w) = n
    BY <1>1
  <1>3. /\ After(w, j) \in Seq(DownMessages) /\ Len(After(w, j)) = n - j
        /\ \A i \in 1..(n - j) : After(w, j)[i] = w[j + i]
    <2>1. j \in 0..Len(w)
      BY <1>2
    <2>2. /\ After(w, j) \in Seq(DownMessages) /\ Len(After(w, j)) = Len(w) - j
          /\ \A i \in 1..(Len(w) - j) : After(w, j)[i] = w[j + i]
      BY <2>1, AfterTyped
    <2>. QED BY <1>2, <2>2
  <1>4. n - j \in Nat /\ \A i \in 1..(n - j) : j + i \in 1..n
    BY SMT
  <1>5. PICK d \in Nat : d = n - j
    BY <1>4
  <1>6. /\ Welcomes(d) \in Seq(DownMessages) /\ Len(Welcomes(d)) = d
        /\ Count(Welcomes(d), "SERVER_WELCOME") = d
    BY CountWelcomes
  <1>7. \A i \in 1..d : After(w, j)[i] = "SERVER_WELCOME" /\ Welcomes(d)[i] = "SERVER_WELCOME"
    <2>1. \A i \in 1..n : w[i] = "SERVER_WELCOME"
      BY <1>2 DEF Welcomes
    <2>. QED BY <1>3, <1>4, <1>5, <2>1 DEF Welcomes
  <1>8. After(w, j) = Welcomes(d)
    BY <1>3, <1>5, <1>6, <1>7, SeqEqual
  <1>. QED BY <1>2, <1>5, <1>6, <1>8

\* Welcomes leave room for the GAME_STATE that follows them.
LEMMA SlackWelcomes ==
    ASSUME NEW s \in Seq(DownMessages), NEW n \in Nat, Slack(s, 0),
           n = 0 => Len(s) < MaxDown
    PROVE  Slack(s \o Welcomes(n), 1)
  <1>1. MaxDown \in Nat /\ MaxDown >= 1
    BY SessionAssumption
  <1>2. PICK w \in Seq(DownMessages) :
           w = Welcomes(n) /\ Len(w) = n /\ Count(w, "SERVER_WELCOME") = n
    BY CountWelcomes
  <1>3. CASE n = 0
    <2>1. w = << >>
      BY <1>2, <1>3, EmptySeq
    <2>2. s \o w = s
      BY <2>1, ConcatEmptySeq
    <2>. QED BY <1>2, <1>3, <2>2, SlackOfShort
  <1>4. CASE n # 0
    <2> SUFFICES ASSUME NEW k \in 0..Len(s \o w)
                 PROVE  Len(After(s \o w, k)) + 1
                          <= MaxDown + 2 * Count(After(s \o w, k), "SERVER_WELCOME")
      BY <1>2 DEF Slack
    <2>1. CASE k \in 0..Len(s) /\ After(s \o w, k) = After(s, k) \o w
      <3>1. PICK r \in Seq(DownMessages) : r = After(s, k)
        BY <2>1, AfterTyped
      <3>2. PICK c \in Nat : c = Count(r, "SERVER_WELCOME")
        BY CountFinite
      <3>3. Len(r) \in Nat /\ Len(r) + 0 <= MaxDown + 2 * c
        BY <2>1, <3>1, <3>2, LenProperties DEF Slack
      <3>4. Count(r \o w, "SERVER_WELCOME") = c + n
        BY <1>2, <3>2, CountConcat
      <3>5. Len(r \o w) = Len(r) + n
        BY <1>2, ConcatProperties
      <3>6. Len(r) + n + 1 <= MaxDown + 2 * (c + n)
        BY <1>1, <1>4, <3>3, SMT
      <3>. QED BY <2>1, <3>1, <3>4, <3>5, <3>6
    <2>2. CASE \E j \in 0..n : After(s \o w, k) = After(w, j)
      <3>1. PICK j \in 0..n : After(s \o w, k) = After(w, j)
        BY <2>2
      <3>2. Len(After(w, j)) = n - j /\ Count(After(w, j), "SERVER_WELCOME") = n - j
        BY <1>2, WelcomesAfter
      <3>3. (n - j) + 1 <= MaxDown + 2 * (n - j)
        BY <1>1, SMT
      <3>. QED BY <3>1, <3>2, <3>3
    <2>3. CutsOne(s, w, k)
      BY AfterConcat, ZenonT(60)
    <2>. QED BY <1>2, <2>1, <2>2, <2>3 DEF CutsOne
  <1>. QED BY <1>3, <1>4

LEMMA SlackState ==
    ASSUME NEW s \in Seq(DownMessages), NEW m \in DownMessages, Slack(s, 1)
    PROVE  Slack(s \o <<m>>, 0)
  <1>1. MaxDown \in Nat /\ MaxDown >= 1
    BY SessionAssumption
  <1>2. PICK w \in Seq(DownMessages) : w = <<m>> /\ Len(w) = 1
    <2>1. <<m>> \in Seq(DownMessages) /\ Len(<<m>>) = 1
      OBVIOUS
    <2>. QED BY <2>1
  <1> SUFFICES ASSUME NEW k \in 0..Len(s \o w)
               PROVE  Len(After(s \o w, k)) + 0
                        <= MaxDown + 2 * Count(After(s \o w, k), "SERVER_WELCOME")
    BY <1>2 DEF Slack
  <1>3. CASE k \in 0..Len(s) /\ After(s \o w, k) = After(s, k) \o w
    <2>1. PICK r \in Seq(DownMessages) : r = After(s, k)
      BY <1>3, AfterTyped
    <2>2. PICK c \in Nat : c = Count(r, "SERVER_WELCOME")
      BY CountFinite
    <2>3. PICK d \in Nat : d = Count(w, "SERVER_WELCOME")
      BY CountFinite
    <2>4. Len(r) \in Nat /\ Len(r) + 1 <= MaxDown + 2 * c
      BY <1>3, <2>1, <2>2, LenProperties DEF Slack
    <2>5. Count(r \o w, "SERVER_WELCOME") = c + d
      BY <2>2, <2>3, CountConcat
    <2>6. Len(r \o w) = Len(r) + 1
      BY <1>2, ConcatProperties
    <2>7. Len(r) + 1 + 0 <= MaxDown + 2 * (c + d)
      BY <1>1, <2>4, SMT
    <2>. QED BY <1>3, <2>1, <2>5, <2>6, <2>7
  <1>4. CASE \E j \in 0..Len(w) : After(s \o w, k) = After(w, j)
    <2>1. PICK j \in 0..Len(w) : After(s \o w, k) = After(w, j)
      BY <1>4
    <2>2. After(w, j) \in Seq(DownMessages) /\ Len(After(w, j)) = 1 - j /\ j \in 0..1
      BY <1>2, AfterTyped
    <2>3. PICK c \in Nat : c = Count(After(w, j), "SERVER_WELCOME")
      BY <2>2, CountFinite
    <2>4. (1 - j) + 0 <= MaxDown + 2 * c
      BY <1>1, <2>2, SMT
    <2>. QED BY <2>1, <2>2, <2>3, <2>4
  <1>5. CutsOne(s, w, k)
    BY AfterConcat, ZenonT(60)
  <1>. QED BY <1>3, <1>4, <1>5 DEF CutsOne

LEMMA ServerBounded ==
    ASSUME SessionTyped, Bounded, Server
    PROVE  Bounded'
  <1>1. PICK n \in 0..Len(up), moved \in BOOLEAN, dies \in BOOLEAN :
           ServerIteration(n, moved, dies)
    BY DEF Server
  <1>2. PICK joins : joins = Count(SubSeq(up, 1, n), "CLIENT_JOIN")
    OBVIOUS
  <1>3. PICK tail : tail = IF moved \/ joins > 0 THEN <<State(alive')>> ELSE << >>
    OBVIOUS
  <1>4. /\ moved => Len(down) < MaxDown
        /\ up' = SubSeq(up, n + 1, Len(up))
        /\ down' = (down \o Welcomes(joins)) \o tail
    BY <1>1, <1>2, <1>3 DEF ServerIteration
  <1>5. PICK L \in Nat : L = Len(up) /\ n \in 0..L
    BY LenProperties DEF SessionTyped
  <1>6. joins \in Nat /\ joins <= n
    <2>1. PICK read \in Seq(UpMessages) : read = SubSeq(up, 1, n)
      BY Split DEF SessionTyped
    <2>2. Len(read) = n
      BY <1>5, <2>1, SMT DEF SessionTyped
    <2>. QED BY <1>2, <2>1, <2>2, CountFinite, CountAtMostLen
  <1>7. Len(up') = L - n
    BY <1>4, <1>5, SMT DEF SessionTyped
  <1>8. PICK told \in Seq(DownMessages) : told = down \o Welcomes(joins)
    BY <1>6, CountWelcomes, ConcatProperties DEF SessionTyped
  <1>9. PICK c \in Nat : c = Count(down, "SERVER_WELCOME")
    BY CountFinite DEF SessionTyped
  <1>10. Count(told, "SERVER_WELCOME") = c + joins
    BY <1>6, <1>8, <1>9, CountWelcomes, CountConcat DEF SessionTyped
  <1>11. State(alive') \in DownMessages /\ State(alive') # "SERVER_WELCOME"
    BY DEF State, DownMessages
  <1>12. CASE moved \/ joins > 0
    <2>1. down' = told \o <<State(alive')>> /\ <<State(alive')>> \in Seq(DownMessages)
      BY <1>3, <1>4, <1>8, <1>11, <1>12
    <2>2. Slack(told, 1)
      BY <1>4, <1>6, <1>8, <1>12, SlackWelcomes DEF Bounded, SessionTyped
    <2>3. Slack(told \o <<State(alive')>>, 0)
      BY <1>11, <2>2, SlackState
    <2>4. Count(told \o <<State(alive')>>, "SERVER_WELCOME") = c + joins
      <3>1. Count(told \o <<State(alive')>>, "SERVER_WELCOME")
              = Count(told, "SERVER_WELCOME") + Count(<<State(alive')>>, "SERVER_WELCOME")
        BY <2>1, CountConcat
      <3>. QED BY <1>6, <1>10, <1>11, <3>1, CountSingle
    <2>5. Slack(down, 0)' /\ Count(down', "SERVER_WELCOME") = c + joins
      BY <2>1, <2>3, <2>4 DEF Slack, After
    <2>6. (L - n) + (c + joins) <= MaxUp
      BY <1>5, <1>6, <1>9, SessionAssumption, SMT DEF Bounded
    <2>. QED BY <1>7, <2>5, <2>6 DEF Bounded
  <1>13. CASE ~(moved \/ joins > 0)
    <2>1. joins = 0
      BY <1>6, <1>13
    <2>2. down' = down
      <3>1. Welcomes(joins) = << >>
        BY <1>6, <2>1, CountWelcomes, EmptySeq
      <3>2. (down \o << >>) \o << >> = down
        BY SMT DEF SessionTyped
      <3>. QED BY <1>3, <1>4, <1>13, <3>1, <3>2
    <2>3. (L - n) + c <= MaxUp
      BY <1>5, <1>9, SessionAssumption, SMT DEF Bounded
    <2>. QED BY <1>7, <1>9, <2>2, <2>3 DEF Bounded, Slack, After
  <1>. QED BY <1>12, <1>13

LEMMA ReadBounded ==
    ASSUME SessionTyped, Bounded, NEW n \in 0..Len(down),
           down' = SubSeq(down, n + 1, Len(down)), UNCHANGED up
    PROVE  Bounded'
  <1>1. down \in Seq(DownMessages) /\ down' = After(down, n)
    BY DEF SessionTyped, After
  <1>2. Slack(After(down, n), 0)
    <2> SUFFICES ASSUME NEW k \in 0..Len(After(down, n))
                 PROVE  Len(After(After(down, n), k)) + 0
                          <= MaxDown + 2 * Count(After(After(down, n), k), "SERVER_WELCOME")
      BY DEF Slack
    <2>1. n + k \in 0..Len(down) /\ After(After(down, n), k) = After(down, n + k)
      BY <1>1, AfterAfter
    <2>. QED BY <2>1 DEF Bounded, Slack
  <1>3. PICK a \in Nat : a = Count(SubSeq(down, 1, n), "SERVER_WELCOME")
    BY <1>1, Split, CountFinite
  <1>4. PICK b \in Nat : b = Count(down', "SERVER_WELCOME")
    BY <1>1, Split, CountFinite
  <1>5. Count(down, "SERVER_WELCOME") = a + b
    BY <1>1, <1>3, <1>4, CountSplit
  <1>6. Len(up) + b <= MaxUp
    <2>1. Len(up) \in Nat
      BY LenProperties DEF SessionTyped
    <2>. QED BY <1>5, <2>1, SessionAssumption, SMT DEF Bounded
  <1>. QED BY <1>1, <1>2, <1>4, <1>6 DEF Bounded, Slack, After

\* The program at the other end sends no more than the bound lets it.
LEMMA SentWithinBounds ==
    ASSUME Bounded, WithinBounds, UNCHANGED down
    PROVE  Bounded'
  BY DEF Bounded, WithinBounds, Slack, After

LEMMA BoundedTypes ==
    ASSUME SessionTyped, Bounded
    PROVE  SessionTypeOK
  <1>1. PICK c \in Nat : c = Count(down, "SERVER_WELCOME")
    BY CountFinite DEF SessionTyped
  <1>2. Len(down) + 0 <= MaxDown + 2 * c
    BY <1>1, SlackWhole DEF SessionTyped, Bounded
  <1>3. Len(up) \in Nat /\ Len(down) \in Nat /\ Len(up) + c <= MaxUp
    BY <1>1, LenProperties DEF SessionTyped, Bounded
  <1>4. Len(up) <= MaxUp /\ Len(down) <= MaxDown + 2 * MaxUp
    BY <1>2, <1>3, SessionAssumption, SMT
  <1>. QED BY <1>4 DEF SessionTyped, SessionTypeOK
=============================================================================
