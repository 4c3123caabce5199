------------------------ MODULE ClientFramingProofs ------------------------
(***************************************************************************)
(* Theorems about Protocol and ClientFraming.                              *)
(*                                                                         *)
(* First the codec: what deserialise() makes of what serialise() wrote is  *)
(* the message it was written from.  Then parseReceivedPacket(): how many  *)
(* frames it cuts from a buffer, and what is in them.  Then the connection *)
(* as a whole, whose invariant says how what the server has sent lies in   *)
(* the bytes that the client has not cut yet.                              *)
(***************************************************************************)
EXTENDS ClientFraming, SequenceTheorems, WellFoundedInduction, TLAPS

-----------------------------------------------------------------------------
(* The codec.                                                              *)

LEMMA LeastNumber ==
    ASSUME NEW S, S \subseteq Nat, S # {}
    PROVE  \E m \in S : \A n \in S : m <= n
  <1>1. PICK m \in S : \A n \in S : ~(<<n, m>> \in OpToRel(<, Nat))
    BY NatLessThanWellFounded, WFMin
  <1>2. \A n \in S : ~(n < m)
    BY <1>1 DEF OpToRel
  <1>. QED BY <1>2

\* FlattenSeq is defined by recursion: that there is a function that meets its
\* equation is a theorem, by induction on its domain.
IsFlatten(f, s, n) == f = [i \in 1..n |-> IF i = 1 THEN s[i] ELSE f[i - 1] \o s[i]]

LEMMA FlattenUpTo ==
    ASSUME NEW s, NEW n \in Nat \ {0}
    PROVE  \E f : IsFlatten(f, s, n)
  <1> DEFINE bad == {k \in Nat \ {0} : \A f : ~IsFlatten(f, s, k)}
  <1>1. SUFFICES ASSUME bad # {}
                 PROVE  FALSE
    OBVIOUS
  <1>2. PICK k \in bad : \A j \in bad : k <= j
    <2>1. bad \subseteq Nat
      OBVIOUS
    <2> HIDE DEF bad
    <2>. QED BY <1>1, <2>1, LeastNumber
  <1>3. k # 1
    <2>1. 1..1 = {1}
      BY SMT
    <2>2. IsFlatten([i \in 1..1 |-> s[1]], s, 1)
      BY <2>1 DEF IsFlatten
    <2>. QED BY <2>2
  <1>4. k - 1 \in Nat \ {0} /\ ~(k <= k - 1)
    BY <1>3, SMT
  <1>5. PICK f : IsFlatten(f, s, k - 1)
    <2>1. k - 1 \notin bad
      <3> HIDE DEF bad
      <3>. QED BY <1>2, <1>4, Zenon
    <2>. QED BY <1>4, <2>1, Zenon
  <1> DEFINE g == [i \in 1..k |-> IF i = k THEN f[k - 1] \o s[k] ELSE f[i]]
  <1>6. ASSUME NEW i \in 1..k
        PROVE  g[i] = IF i = 1 THEN s[i] ELSE g[i - 1] \o s[i]
    <2>1. CASE i = k
      <3>1. k - 1 \in 1..k /\ k - 1 # k /\ k \in 1..k
        BY <1>4, SMT
      <3>. QED BY <1>3, <2>1, <3>1
    <2>2. CASE i # k
      <3>1. i \in 1..k - 1 /\ (i # 1 => i - 1 \in 1..k /\ i - 1 # k)
        BY <1>4, <2>2, SMT
      <3>2. f[i] = IF i = 1 THEN s[i] ELSE f[i - 1] \o s[i]
        BY <1>5, <3>1, Zenon DEF IsFlatten
      <3>. QED BY <2>2, <3>1, <3>2
    <2>. QED BY <2>1, <2>2
  <1>7. IsFlatten(g, s, k)
    BY <1>6 DEF IsFlatten
  <1>. QED BY <1>2, <1>7

LEMMA FlattenUnfolds ==
    ASSUME NEW s, Len(s) \in Nat \ {0}
    PROVE  \E f : IsFlatten(f, s, Len(s)) /\ FlattenSeq(s) = f[Len(s)]
  <1>1. \E f : IsFlatten(f, s, Len(s))
    BY FlattenUpTo
  <1>2. PICK f : f = CHOOSE g : IsFlatten(g, s, Len(s))
    OBVIOUS
  <1>3. IsFlatten(f, s, Len(s))
    BY <1>1, <1>2, Zenon
  <1>4. FlattenSeq(s) = f[Len(s)]
    BY <1>2, Len(s) # 0 DEF FlattenSeq, IsFlatten
  <1>. QED BY <1>3, <1>4

\* What is known of a sequence from its pieces, by induction on them.
LEMMA Positions ==
    ASSUME NEW v \in Seq(Position)
    PROVE  /\ FlattenSeq(v) \in Seq(Nat) /\ Len(FlattenSeq(v)) = 2 * Len(v)
           /\ \A i \in 1..Len(v) : /\ FlattenSeq(v)[2 * i - 1] = v[i][1]
                                   /\ FlattenSeq(v)[2 * i] = v[i][2]
  <1>1. CASE Len(v) = 0
    <2>1. v = << >>
      BY <1>1, EmptySeq
    <2>2. FlattenSeq(v) = << >>
      BY <1>1, <2>1 DEF FlattenSeq
    <2>3. << >> \in Seq(Nat) /\ Len(<< >>) = 0
      BY EmptySeq
    <2>4. 1..Len(v) = {}
      BY <1>1, SMT
    <2>. QED BY <1>1, <2>2, <2>3, <2>4
  <1>2. CASE Len(v) # 0
    <2>1. Len(v) \in Nat \ {0}
      BY <1>2
    <2>2. PICK f : IsFlatten(f, v, Len(v)) /\ FlattenSeq(v) = f[Len(v)]
      BY <2>1, FlattenUnfolds
    <2> DEFINE Good(n) == /\ f[n] \in Seq(Nat) /\ Len(f[n]) = 2 * n
                          /\ \A i \in 1..n : f[n][2 * i - 1] = v[i][1] /\ f[n][2 * i] = v[i][2]
               bad == {n \in 1..Len(v) : ~Good(n)}
    <2>3. SUFFICES bad = {}
      <3>1. Len(v) \in 1..Len(v)
        BY <2>1
      <3>2. Good(Len(v))
        <4> HIDE DEF Good
        <4>. QED BY <3>1, bad = {}
      <3>. QED BY <2>2, <3>2
    <2>4. SUFFICES ASSUME bad # {}
                   PROVE  FALSE
      OBVIOUS
    <2>5. PICK n \in bad : \A m \in bad : n <= m
      <3>1. bad \subseteq Nat
        BY <2>1, SMT
      <3> HIDE DEF bad
      <3>. QED BY <2>4, <3>1, LeastNumber
    <2>6. n \in 1..Len(v) /\ v[n] \in Position
      BY ElementOfSeq, SMT
    <2>7. PICK a \in Nat, b \in Nat : v[n] = <<a, b>>
      BY <2>6 DEF Position
    <2>8. /\ <<a, b>> \in Seq(Nat) /\ Len(<<a, b>>) = 2
          /\ <<a, b>>[1] = a /\ <<a, b>>[2] = b
      BY SMT
    <2>9. f[n] = IF n = 1 THEN v[n] ELSE f[n - 1] \o v[n]
      BY <2>2, <2>6, Zenon DEF IsFlatten
    <2>10. CASE n = 1
      <3>1. f[1] = <<a, b>>
        BY <2>7, <2>9, <2>10
      <3>2. /\ \A i \in 1..1 : i = 1
            /\ 2 * 1 = 2 /\ 2 * 1 - 1 = 1
        BY SMT
      <3>3. /\ f[1] \in Seq(Nat) /\ Len(f[1]) = 2
            /\ f[1][1] = v[1][1] /\ f[1][2] = v[1][2]
        BY <2>7, <2>8, <2>10, <3>1
      <3>4. Good(1)
        BY <3>2, <3>3
      <3>. QED BY <2>10, <3>4
    <2>11. CASE n # 1
      <3>1. n - 1 \in 1..Len(v) /\ ~(n <= n - 1)
        BY <2>1, <2>6, <2>11, SMT
      <3>2. n - 1 \notin bad
        <4> HIDE DEF bad
        <4>. QED BY <2>5, <3>1, Zenon
      <3>3. Good(n - 1)
        <4> HIDE DEF Good
        <4>. QED BY <3>1, <3>2, Zenon
      <3>4. PICK g \in Seq(Nat) : g = f[n - 1]
        BY <3>3
      <3>5. PICK w \in Seq(Nat) : w = <<a, b>>
        BY <2>8
      <3>6. f[n] = g \o w
        BY <2>7, <2>9, <2>11, <3>4, <3>5
      <3>7. /\ g \o w \in Seq(Nat) /\ Len(g \o w) = Len(g) + Len(w)
            /\ \A i \in 1..Len(g) + Len(w) :
                  (g \o w)[i] = IF i <= Len(g) THEN g[i] ELSE w[i - Len(g)]
        BY ConcatProperties
      <3>8. Len(w) = 2 /\ w[1] = a /\ w[2] = b
        BY <2>8, <3>5
      <3>9. Len(g) = 2 * (n - 1)
        BY <3>3, <3>4
      <3>10. \A i \in 1..n - 1 : g[2 * i - 1] = v[i][1] /\ g[2 * i] = v[i][2]
        BY <3>3, <3>4
      <3>11. PICK h : h = f[n]
        OBVIOUS
      <3>12. \A i \in 1..Len(g) + Len(w) :
                  h[i] = IF i <= Len(g) THEN g[i] ELSE w[i - Len(g)]
        BY <3>6, <3>7, <3>11
      <3>13. h \in Seq(Nat) /\ Len(h) = 2 * n
        BY <3>6, <3>7, <3>8, <3>9, <3>11, SMT
      <3>14. ASSUME NEW i \in 1..n - 1
             PROVE  h[2 * i - 1] = v[i][1] /\ h[2 * i] = v[i][2]
        <4>1. /\ 2 * i - 1 \in 1..Len(g) + Len(w) /\ 2 * i - 1 <= Len(g)
              /\ 2 * i \in 1..Len(g) + Len(w) /\ 2 * i <= Len(g)
          BY <2>6, <3>8, <3>9, SMT
        <4>. QED BY <3>10, <3>12, <4>1
      <3>15. h[2 * n - 1] = v[n][1] /\ h[2 * n] = v[n][2]
        <4>1. /\ 2 * n - 1 \in 1..Len(g) + Len(w) /\ ~(2 * n - 1 <= Len(g))
              /\ 2 * n \in 1..Len(g) + Len(w) /\ ~(2 * n <= Len(g))
              /\ 2 * n - 1 - Len(g) = 1 /\ 2 * n - Len(g) = 2
          BY <2>6, <3>8, <3>9, SMT
        <4>2. h[2 * n - 1] = w[1] /\ h[2 * n] = w[2]
          BY <3>12, <4>1
        <4>. QED BY <2>7, <2>8, <3>8, <4>2
      <3>16. \A i \in 1..n : h[2 * i - 1] = v[i][1] /\ h[2 * i] = v[i][2]
        <4>1. \A i \in 1..n : i \in 1..n - 1 \/ i = n
          BY <2>6, SMT
        <4>. QED BY <3>14, <3>15, <4>1
      <3>17. Good(n)
        BY <3>11, <3>13, <3>16
      <3>. QED BY <3>17
    <2>. QED BY <2>10, <2>11
  <1>. QED BY <1>1, <1>2

\* A part of a byte string stands in it from a position on.
At(bytes, at, part) ==
    /\ at + Len(part) <= Len(bytes) + 1
    /\ \A k \in 1..Len(part) : bytes[at + k - 1] = part[k]

LEMMA AtConcat ==
    ASSUME NEW bytes \in Seq(Nat), NEW at \in Nat, NEW s \in Seq(Nat), NEW t \in Seq(Nat),
           At(bytes, at, s \o t)
    PROVE  At(bytes, at, s) /\ At(bytes, at + Len(s), t)
  <1>1. /\ Len(s \o t) = Len(s) + Len(t)
        /\ \A i \in 1..Len(s) + Len(t) :
              (s \o t)[i] = IF i <= Len(s) THEN s[i] ELSE t[i - Len(s)]
    BY ConcatProperties
  <1>2. PICK u : u = s \o t
    OBVIOUS
  <1>3. Len(s) \in Nat /\ Len(t) \in Nat /\ Len(bytes) \in Nat
    BY LenProperties
  <1>4. /\ at + (Len(s) + Len(t)) <= Len(bytes) + 1
        /\ \A k \in 1..Len(s) + Len(t) : bytes[at + k - 1] = u[k]
    BY <1>1, <1>2 DEF At
  <1>5. \A i \in 1..Len(s) + Len(t) : u[i] = IF i <= Len(s) THEN s[i] ELSE t[i - Len(s)]
    BY <1>1, <1>2
  <1>6. At(bytes, at, s)
    <2>1. at + Len(s) <= Len(bytes) + 1
      BY <1>3, <1>4, SMT
    <2>2. \A k \in 1..Len(s) : k \in 1..Len(s) + Len(t) /\ k <= Len(s)
      BY <1>3, SMT
    <2>. QED BY <1>4, <1>5, <2>1, <2>2 DEF At
  <1>7. ASSUME NEW k \in 1..Len(t)
        PROVE  bytes[at + Len(s) + k - 1] = t[k]
    <2>1. /\ Len(s) + k \in 1..Len(s) + Len(t) /\ ~(Len(s) + k <= Len(s))
          /\ Len(s) + k - Len(s) = k /\ at + (Len(s) + k) - 1 = at + Len(s) + k - 1
      BY <1>3, SMT
    <2>. QED BY <1>4, <1>5, <2>1
  <1>8. at + Len(s) + Len(t) <= Len(bytes) + 1
    BY <1>3, <1>4, SMT
  <1>. QED BY <1>6, <1>7, <1>8 DEF At

LEMMA PositionPair ==
    ASSUME NEW p \in Position
    PROVE  \E a \in Nat, b \in Nat : p = <<a, b>>
  BY DEF Position

LEMMA CountedPositions ==
    ASSUME NEW v \in Seq(Position)
    PROVE  /\ <<Len(v)>> \in Seq(Nat) /\ Len(<<Len(v)>>) = 1 /\ <<Len(v)>>[1] = Len(v)
           /\ Counted(v) \in Seq(Nat) /\ Len(Counted(v)) = 1 + 2 * Len(v)
  <1>1. Len(v) \in Nat
    BY LenProperties
  <1>2. <<Len(v)>> \in Seq(Nat) /\ Len(<<Len(v)>>) = 1 /\ <<Len(v)>>[1] = Len(v)
    BY <1>1, SMT
  <1>3. FlattenSeq(v) \in Seq(Nat) /\ Len(FlattenSeq(v)) = 2 * Len(v)
    BY Positions
  <1>4. /\ <<Len(v)>> \o FlattenSeq(v) \in Seq(Nat)
        /\ Len(<<Len(v)>> \o FlattenSeq(v)) = Len(<<Len(v)>>) + Len(FlattenSeq(v))
    BY <1>2, <1>3, ConcatProperties
  <1>. QED BY <1>2, <1>3, <1>4 DEF Counted

\* What was written as a vector of positions is read as the same vector.
LEMMA VectorRead ==
    ASSUME NEW bytes \in Seq(Nat), NEW at \in Nat \ {0}, NEW v \in Seq(Position),
           At(bytes, at, Counted(v))
    PROVE  Vector(bytes, at, 2) = [elements |-> v, next |-> at + Len(Counted(v))]
  <1>1. Len(v) \in Nat /\ Len(bytes) \in Nat
    BY LenProperties
  <1>2. PICK F \in Seq(Nat) : F = FlattenSeq(v)
    BY Positions
  <1>3. /\ Len(F) = 2 * Len(v)
        /\ \A i \in 1..Len(v) : F[2 * i - 1] = v[i][1] /\ F[2 * i] = v[i][2]
    BY <1>2, Positions
  <1>4. /\ <<Len(v)>> \in Seq(Nat) /\ Len(<<Len(v)>>) = 1 /\ <<Len(v)>>[1] = Len(v)
        /\ Len(Counted(v)) = 1 + 2 * Len(v)
    BY CountedPositions
  <1>5. At(bytes, at, <<Len(v)>>) /\ At(bytes, at + 1, F)
    <2>1. Counted(v) = <<Len(v)>> \o F
      BY <1>2 DEF Counted
    <2>2. At(bytes, at, <<Len(v)>>) /\ At(bytes, at + Len(<<Len(v)>>), F)
      BY <1>4, <2>1, AtConcat
    <2>. QED BY <1>4, <2>2
  <1>6. Field(bytes, at) = Len(v)
    <2>1. at <= Len(bytes) /\ bytes[at + 1 - 1] = <<Len(v)>>[1]
      <3>1. at + 1 <= Len(bytes) + 1 /\ 1 \in 1..Len(<<Len(v)>>)
        BY <1>4, <1>5 DEF At
      <3>2. bytes[at + 1 - 1] = <<Len(v)>>[1]
        BY <1>5, <3>1 DEF At
      <3>. QED BY <1>1, <3>1, <3>2, SMT
    <2>2. at + 1 - 1 = at
      BY SMT
    <2>. QED BY <1>4, <2>1, <2>2 DEF Field
  <1>7. ASSUME NEW i \in 1..Len(v)
        PROVE  [j \in 1..2 |-> Field(bytes, at + (i - 1) * 2 + j)] = v[i]
    <2>1. PICK a \in Nat, b \in Nat : v[i] = <<a, b>>
      <3>1. v[i] \in Position
        BY ElementOfSeq
      <3>. QED BY <3>1, PositionPair
    <2>2. /\ at + 1 + Len(F) <= Len(bytes) + 1
          /\ \A k \in 1..Len(F) : bytes[at + 1 + k - 1] = F[k]
      BY <1>5 DEF At
    <2>3. /\ 2 * i - 1 \in 1..Len(F) /\ 2 * i \in 1..Len(F)
          /\ at + (i - 1) * 2 + 1 = at + 1 + (2 * i - 1) - 1
          /\ at + (i - 1) * 2 + 2 = at + 1 + (2 * i) - 1
          /\ at + (i - 1) * 2 + 1 <= Len(bytes) /\ at + (i - 1) * 2 + 2 <= Len(bytes)
      <3>1. at + 1 + 2 * Len(v) <= Len(bytes) + 1 /\ i \in Nat /\ 1 <= i /\ i <= Len(v)
        BY <1>1, <1>3, <2>2
      <3>2. /\ 2 * i - 1 \in 1..2 * Len(v) /\ 2 * i \in 1..2 * Len(v)
            /\ at + (i - 1) * 2 + 1 = at + 1 + (2 * i - 1) - 1
            /\ at + (i - 1) * 2 + 2 = at + 1 + (2 * i) - 1
            /\ at + (i - 1) * 2 + 1 <= Len(bytes) /\ at + (i - 1) * 2 + 2 <= Len(bytes)
        BY <1>1, <3>1, SMT
      <3>. QED BY <1>3, <3>2
    <2>4. /\ bytes[at + (i - 1) * 2 + 1] = v[i][1]
          /\ bytes[at + (i - 1) * 2 + 2] = v[i][2]
      BY <1>3, <2>2, <2>3
    <2>5. /\ Field(bytes, at + (i - 1) * 2 + 1) = a
          /\ Field(bytes, at + (i - 1) * 2 + 2) = b
      BY <2>1, <2>3, <2>4 DEF Field
    <2>6. \A j \in 1..2 : j = 1 \/ j = 2
      BY SMT
    <2>7. PICK g : g = [j \in 1..2 |-> Field(bytes, at + (i - 1) * 2 + j)]
      OBVIOUS
    <2>8. g = [j \in 1..2 |-> IF j = 1 THEN a ELSE b]
      BY <2>5, <2>6, <2>7
    <2>9. <<a, b>> = [j \in 1..2 |-> IF j = 1 THEN a ELSE b]
      BY SMT
    <2>. QED BY <2>1, <2>7, <2>8, <2>9
  <1>8. v = [i \in 1..Len(v) |-> v[i]]
    BY LenProperties
  <1>9. [i \in 1..Len(v) |-> [j \in 1..2 |-> Field(bytes, at + (i - 1) * 2 + j)]] = v
    BY <1>7, <1>8
  <1>10. at + 1 + Len(v) * 2 = at + Len(Counted(v))
    BY <1>1, <1>4, SMT
  <1>. QED BY <1>6, <1>9, <1>10 DEF Vector

LEMMA FlattenTyped ==
    ASSUME NEW s \in Seq(Seq(Nat)), NEW f, IsFlatten(f, s, Len(s))
    PROVE  \A n \in 1..Len(s) : f[n] \in Seq(Nat)
  <1> DEFINE bad == {n \in 1..Len(s) : f[n] \notin Seq(Nat)}
  <1>1. SUFFICES ASSUME bad # {}
                 PROVE  FALSE
    OBVIOUS
  <1>2. PICK n \in bad : \A m \in bad : n <= m
    <2>1. bad \subseteq Nat
      BY SMT
    <2> HIDE DEF bad
    <2>. QED BY <1>1, <2>1, LeastNumber
  <1>3. n \in 1..Len(s) /\ Len(s) \in Nat
    BY LenProperties
  <1>4. s[n] \in Seq(Nat)
    BY <1>3, ElementOfSeq
  <1>5. f[n] = IF n = 1 THEN s[n] ELSE f[n - 1] \o s[n]
    BY <1>3, Zenon DEF IsFlatten
  <1>6. CASE n = 1
    BY <1>4, <1>5, <1>6
  <1>7. CASE n # 1
    <2>1. n - 1 \in 1..Len(s) /\ ~(n <= n - 1)
      BY <1>3, <1>7, SMT
    <2>2. n - 1 \notin bad
      <3> HIDE DEF bad
      <3>. QED BY <1>2, <2>1, Zenon
    <2>3. f[n - 1] \in Seq(Nat)
      BY <2>1, <2>2
    <2>. QED BY <1>4, <1>5, <1>7, <2>3, ConcatProperties
  <1>. QED BY <1>6, <1>7

PlayersWritten(list) == [i \in 1..Len(list) |-> SerialisePlayer(list[i])]

LEMMA PlayerBytes ==
    ASSUME NEW p \in Player
    PROVE  /\ p.clientId \in Nat /\ p.direction \in Nat /\ p.score \in Nat
           /\ p.segments \in Seq(Position)
           /\ <<p.clientId, p.direction, p.score>> \in Seq(Nat)
           /\ Len(<<p.clientId, p.direction, p.score>>) = 3
           /\ SerialisePlayer(p) \in Seq(Nat)
           /\ Len(SerialisePlayer(p)) = 3 + Len(Counted(p.segments))
  <1>1. /\ p.clientId \in Nat /\ p.direction \in Nat /\ p.score \in Nat
        /\ p.segments \in Seq(Position)
    BY DEF Player
  <1>2. /\ <<p.clientId, p.direction, p.score>> \in Seq(Nat)
        /\ Len(<<p.clientId, p.direction, p.score>>) = 3
    BY <1>1, SMT
  <1>3. Counted(p.segments) \in Seq(Nat)
    BY <1>1, CountedPositions
  <1>4. /\ <<p.clientId, p.direction, p.score>> \o Counted(p.segments) \in Seq(Nat)
        /\ Len(<<p.clientId, p.direction, p.score>> \o Counted(p.segments))
              = Len(<<p.clientId, p.direction, p.score>>) + Len(Counted(p.segments))
    BY <1>2, <1>3, ConcatProperties
  <1>. QED BY <1>1, <1>2, <1>4 DEF SerialisePlayer

LEMMA PlayersBytes ==
    ASSUME NEW list \in Seq(Player)
    PROVE  /\ PlayersWritten(list) \in Seq(Seq(Nat)) /\ Len(PlayersWritten(list)) = Len(list)
           /\ FlattenSeq(PlayersWritten(list)) \in Seq(Nat)
           /\ <<Len(list)>> \in Seq(Nat) /\ Len(<<Len(list)>>) = 1 /\ <<Len(list)>>[1] = Len(list)
           /\ Counted(PlayersWritten(list)) = <<Len(list)>> \o FlattenSeq(PlayersWritten(list))
           /\ Counted(PlayersWritten(list)) \in Seq(Nat)
           /\ Len(Counted(PlayersWritten(list))) = 1 + Len(FlattenSeq(PlayersWritten(list)))
  <1>1. PICK n \in Nat : n = Len(list)
    BY LenProperties
  <1>2. PICK S : S = Seq(Nat)
    OBVIOUS
  <1>3. PICK P : P = PlayersWritten(list)
    OBVIOUS
  <1>4. P \in [1..n -> S]
    <2>1. \A i \in 1..n : SerialisePlayer(list[i]) \in S
      BY <1>1, <1>2, ElementOfSeq, PlayerBytes
    <2>2. P = [i \in 1..n |-> SerialisePlayer(list[i])]
      BY <1>1, <1>3 DEF PlayersWritten
    <2>. QED BY <2>1, <2>2
  <1>5. P \in Seq(S) /\ Len(P) = n
    BY <1>4, SMT
  <1>6. FlattenSeq(P) \in Seq(Nat)
    <2>1. CASE n = 0
      <3>1. P = << >>
        BY <1>5, <2>1, EmptySeq
      <3>2. FlattenSeq(P) = << >>
        BY <1>5, <2>1, <3>1 DEF FlattenSeq
      <3>. QED BY <3>2, EmptySeq
    <2>2. CASE n # 0
      <3>1. Len(P) \in Nat \ {0}
        BY <1>5, <2>2
      <3>2. PICK f : IsFlatten(f, P, Len(P)) /\ FlattenSeq(P) = f[Len(P)]
        BY <3>1, FlattenUnfolds
      <3>3. P \in Seq(Seq(Nat)) /\ Len(P) \in 1..Len(P)
        BY <1>2, <1>5, <3>1
      <3>. QED BY <3>2, <3>3, FlattenTyped
    <2>. QED BY <2>1, <2>2
  <1>7. <<n>> \in Seq(Nat) /\ Len(<<n>>) = 1 /\ <<n>>[1] = n
    BY SMT
  <1>8. <<n>> \o FlattenSeq(P) \in Seq(Nat) /\ Len(<<n>> \o FlattenSeq(P)) = 1 + Len(FlattenSeq(P))
    BY <1>6, <1>7, ConcatProperties
  <1>9. Counted(P) = <<n>> \o FlattenSeq(P)
    BY <1>5 DEF Counted
  <1>. QED BY <1>1, <1>2, <1>3, <1>5, <1>6, <1>7, <1>8, <1>9

-----------------------------------------------------------------------------
(* Players is defined by recursion, like FlattenSeq.                       *)

ReadPlayer(bytes, r) ==
    LET segments == Vector(bytes, r.next + 3, 2)
    IN [elements |-> Append(r.elements,
                            [clientId  |-> Field(bytes, r.next),
                             direction |-> Field(bytes, r.next + 1),
                             score     |-> Field(bytes, r.next + 2),
                             segments  |-> segments.elements]),
        next     |-> segments.next]

IsRead(f, bytes, at, n) ==
    f = [i \in 0..n |-> IF i = 0 THEN [elements |-> << >>, next |-> at + 1]
                        ELSE ReadPlayer(bytes, f[i - 1])]

LEMMA ReadUpTo ==
    ASSUME NEW bytes, NEW at, NEW n \in Nat
    PROVE  \E f : IsRead(f, bytes, at, n)
  <1> DEFINE bad == {k \in Nat : \A f : ~IsRead(f, bytes, at, k)}
             first == [elements |-> << >>, next |-> at + 1]
  <1>1. SUFFICES ASSUME bad # {}
                 PROVE  FALSE
    OBVIOUS
  <1>2. PICK k \in bad : \A j \in bad : k <= j
    <2>1. bad \subseteq Nat
      OBVIOUS
    <2> HIDE DEF bad
    <2>. QED BY <1>1, <2>1, LeastNumber
  <1>3. k # 0
    <2>1. 0..0 = {0}
      BY SMT
    <2>2. IsRead([i \in 0..0 |-> first], bytes, at, 0)
      BY <2>1 DEF IsRead
    <2>. QED BY <2>2
  <1>4. k - 1 \in Nat /\ ~(k <= k - 1)
    BY <1>3, SMT
  <1>5. PICK f : IsRead(f, bytes, at, k - 1)
    <2>1. k - 1 \notin bad
      <3> HIDE DEF bad
      <3>. QED BY <1>2, <1>4, Zenon
    <2>. QED BY <1>4, <2>1, Zenon
  <1> DEFINE g == [i \in 0..k |-> IF i = k THEN ReadPlayer(bytes, f[k - 1]) ELSE f[i]]
  <1>6. ASSUME NEW i \in 0..k
        PROVE  g[i] = IF i = 0 THEN first ELSE ReadPlayer(bytes, g[i - 1])
    <2>1. CASE i = k
      <3>1. k - 1 \in 0..k /\ k - 1 # k /\ k \in 0..k
        BY <1>4, SMT
      <3>. QED BY <1>3, <2>1, <3>1
    <2>2. CASE i # k
      <3>1. i \in 0..k - 1 /\ (i # 0 => i - 1 \in 0..k /\ i - 1 # k)
        BY <1>4, <2>2, SMT
      <3>2. f[i] = IF i = 0 THEN first ELSE ReadPlayer(bytes, f[i - 1])
        BY <1>5, <3>1, Zenon DEF IsRead
      <3>. QED BY <2>2, <3>1, <3>2
    <2>. QED BY <2>1, <2>2
  <1>7. IsRead(g, bytes, at, k)
    BY <1>6 DEF IsRead
  <1>. QED BY <1>2, <1>7

LEMMA PlayersUnfolds ==
    ASSUME NEW bytes, NEW at, Field(bytes, at) \in Nat
    PROVE  \E f : /\ IsRead(f, bytes, at, Field(bytes, at))
                  /\ Players(bytes, at) = f[Field(bytes, at)]
  <1>1. \E f : IsRead(f, bytes, at, Field(bytes, at))
    BY ReadUpTo
  <1>2. PICK f : f = CHOOSE g : IsRead(g, bytes, at, Field(bytes, at))
    OBVIOUS
  <1>3. IsRead(f, bytes, at, Field(bytes, at))
    BY <1>1, <1>2, Zenon
  <1>4. Players(bytes, at) = f[Field(bytes, at)]
    BY <1>2 DEF Players, IsRead, ReadPlayer
  <1>. QED BY <1>3, <1>4

\* One number of a part is read from its place.
LEMMA FieldAt ==
    ASSUME NEW bytes \in Seq(Nat), NEW at \in Nat, NEW part, Len(part) \in Nat,
           At(bytes, at, part), NEW k \in 1..Len(part)
    PROVE  Field(bytes, at + k - 1) = part[k]
  <1>1. at + k - 1 <= Len(bytes)
    <2>1. at + Len(part) <= Len(bytes) + 1 /\ Len(bytes) \in Nat
      BY LenProperties DEF At
    <2>. QED BY <2>1, SMT
  <1>. QED BY <1>1 DEF At, Field

LEMMA PlayerRead ==
    ASSUME NEW bytes \in Seq(Nat), NEW q \in Nat \ {0}, NEW p \in Player, NEW list,
           At(bytes, q, SerialisePlayer(p))
    PROVE  ReadPlayer(bytes, [elements |-> list, next |-> q])
              = [elements |-> Append(list, p), next |-> q + Len(SerialisePlayer(p))]
  <1>1. /\ p.clientId \in Nat /\ p.direction \in Nat /\ p.score \in Nat
        /\ p.segments \in Seq(Position)
        /\ Len(SerialisePlayer(p)) = 3 + Len(Counted(p.segments))
    BY PlayerBytes
  <1>2. PICK w \in Seq(Nat) : w = <<p.clientId, p.direction, p.score>>
    BY PlayerBytes
  <1>3. Len(w) = 3 /\ w[1] = p.clientId /\ w[2] = p.direction /\ w[3] = p.score
    BY <1>1, <1>2
  <1>4. Counted(p.segments) \in Seq(Nat) /\ Len(Counted(p.segments)) \in Nat
    BY <1>1, CountedPositions, LenProperties
  <1>5. SerialisePlayer(p) = w \o Counted(p.segments)
    BY <1>2 DEF SerialisePlayer
  <1>6. At(bytes, q, w) /\ At(bytes, q + 3, Counted(p.segments))
    <2>1. At(bytes, q, w) /\ At(bytes, q + Len(w), Counted(p.segments))
      BY <1>4, <1>5, AtConcat
    <2>. QED BY <1>3, <2>1
  <1>7. /\ Field(bytes, q) = p.clientId /\ Field(bytes, q + 1) = p.direction
        /\ Field(bytes, q + 2) = p.score
    <2>1. ASSUME NEW k \in 1..3
          PROVE  Field(bytes, q + k - 1) = w[k]
      <3>1. q \in Nat /\ Len(w) \in Nat /\ k \in 1..Len(w)
        BY <1>3
      <3>. QED BY <1>6, <3>1, FieldAt
    <2>2. /\ 1 \in 1..3 /\ 2 \in 1..3 /\ 3 \in 1..3
          /\ q + 1 - 1 = q /\ q + 2 - 1 = q + 1 /\ q + 3 - 1 = q + 2
      BY SMT
    <2>3. /\ Field(bytes, q + 1 - 1) = w[1] /\ Field(bytes, q + 2 - 1) = w[2]
          /\ Field(bytes, q + 3 - 1) = w[3]
      BY <2>1, <2>2
    <2>. QED BY <1>3, <2>2, <2>3
  <1>8. Vector(bytes, q + 3, 2)
           = [elements |-> p.segments, next |-> q + 3 + Len(Counted(p.segments))]
    <2>1. q + 3 \in Nat \ {0}
      BY SMT
    <2>. QED BY <1>1, <1>6, <2>1, VectorRead
  <1>9. p = [clientId |-> p.clientId, direction |-> p.direction, score |-> p.score,
             segments |-> p.segments]
    BY DEF Player
  <1>10. q + 3 + Len(Counted(p.segments)) = q + Len(SerialisePlayer(p))
    BY <1>1, <1>4, SMT
  <1>11. PICK r : r = [elements |-> list, next |-> q]
    OBVIOUS
  <1>12. r.elements = list /\ r.next = q
    BY <1>11
  <1>13. PICK v : v = Vector(bytes, r.next + 3, 2)
    OBVIOUS
  <1>14. v.elements = p.segments /\ v.next = q + Len(SerialisePlayer(p))
    BY <1>8, <1>10, <1>12, <1>13
  <1>15. ReadPlayer(bytes, r) = [elements |-> Append(list, p), next |-> v.next]
    BY <1>7, <1>9, <1>12, <1>13, <1>14, Zenon DEF ReadPlayer
  <1>. QED BY <1>11, <1>14, <1>15

LEMMA PlayersRead ==
    ASSUME NEW bytes \in Seq(Nat), NEW at \in Nat \ {0}, NEW list \in Seq(Player),
           At(bytes, at, Counted(PlayersWritten(list)))
    PROVE  Players(bytes, at)
              = [elements |-> list, next |-> at + Len(Counted(PlayersWritten(list)))]
  <1>1. PICK n \in Nat : n = Len(list)
    BY LenProperties
  <1>2. PICK P \in Seq(Seq(Nat)) : P = PlayersWritten(list)
    BY PlayersBytes
  <1>3. Len(P) = n /\ \A i \in 1..n : P[i] = SerialisePlayer(list[i])
    BY <1>1, <1>2, PlayersBytes DEF PlayersWritten
  <1>4. /\ <<n>> \in Seq(Nat) /\ Len(<<n>>) = 1 /\ <<n>>[1] = n
        /\ FlattenSeq(P) \in Seq(Nat)
        /\ Counted(P) = <<n>> \o FlattenSeq(P) /\ Len(Counted(P)) = 1 + Len(FlattenSeq(P))
    BY <1>1, <1>2, PlayersBytes
  <1>5. At(bytes, at, <<n>>) /\ At(bytes, at + 1, FlattenSeq(P))
    <2>1. At(bytes, at, <<n>>) /\ At(bytes, at + Len(<<n>>), FlattenSeq(P))
      BY <1>2, <1>4, AtConcat
    <2>. QED BY <1>4, <2>1
  <1>6. Field(bytes, at) = n
    <2>1. 1 \in 1..Len(<<n>>) /\ at + 1 - 1 = at
      BY <1>4, SMT
    <2>2. at \in Nat /\ Len(<<n>>) \in Nat
      BY <1>4
    <2>3. Field(bytes, at + 1 - 1) = <<n>>[1]
      <3>1. PICK w : w = <<n>>
        OBVIOUS
      <3>2. at \in Nat /\ Len(w) \in Nat /\ 1 \in 1..Len(w) /\ At(bytes, at, w)
        BY <1>5, <2>1, <2>2, <3>1
      <3>3. Field(bytes, at + 1 - 1) = w[1]
        BY <3>2, FieldAt
      <3>. QED BY <3>1, <3>3
    <2>. QED BY <1>4, <2>1, <2>3
  <1>7. PICK r : IsRead(r, bytes, at, n) /\ Players(bytes, at) = r[n]
    BY <1>6, PlayersUnfolds
  <1>8. r[0] = [elements |-> << >>, next |-> at + 1]
    BY <1>7 DEF IsRead
  <1>9. \A i \in 1..n : r[i] = ReadPlayer(bytes, r[i - 1])
    BY <1>7, SMT DEF IsRead
  <1>10. CASE n = 0
    <2>1. list = << >> /\ P = << >>
      BY <1>1, <1>3, <1>10, EmptySeq
    <2>2. FlattenSeq(P) = << >>
      BY <1>3, <1>10, <2>1 DEF FlattenSeq
    <2>3. Len(Counted(P)) = 1
      BY <1>4, <2>2, EmptySeq
    <2>. QED BY <1>2, <1>7, <1>8, <1>10, <2>1, <2>3
  <1>11. CASE n # 0
    <2>1. n \in Nat \ {0} /\ n \in 1..n
      BY <1>11
    <2>2. PICK f : IsFlatten(f, P, n) /\ FlattenSeq(P) = f[n]
      BY <1>3, <2>1, FlattenUnfolds
    <2>3. \A i \in 1..n : f[i] \in Seq(Nat) /\ Len(f[i]) \in Nat
      BY <1>3, <2>2, FlattenTyped, LenProperties
    <2> DEFINE Good(i) == At(bytes, at + 1, f[i]) =>
                            r[i] = [elements |-> SubSeq(list, 1, i), next |-> at + 1 + Len(f[i])]
               bad == {i \in 1..n : ~Good(i)}
    <2> HIDE DEF Good
    <2>4. SUFFICES bad = {}
      <3>1. Good(n)
        BY <2>1, bad = {}
      <3>2. SubSeq(list, 1, n) = list
        BY <1>1, SubSeqFull
      <3>3. r[n] = [elements |-> list, next |-> at + 1 + Len(f[n])]
        BY <1>5, <2>2, <3>1, <3>2 DEF Good
      <3>4. PICK F \in Seq(Nat) : F = f[n]
        BY <2>1, <2>3
      <3>5. Len(F) \in Nat /\ Len(Counted(P)) = 1 + Len(F)
        BY <1>4, <2>2, <3>4, LenProperties
      <3>6. at + 1 + Len(F) = at + Len(Counted(P))
        BY <3>5, SMT
      <3>. QED BY <1>2, <1>7, <3>3, <3>4, <3>6
    <2>5. SUFFICES ASSUME bad # {}
                   PROVE  FALSE
      OBVIOUS
    <2>6. PICK i \in bad : \A m \in bad : i <= m
      <3>1. bad \subseteq Nat
        BY SMT
      <3> HIDE DEF bad
      <3>. QED BY <2>5, <3>1, LeastNumber
    <2>7. i \in 1..n /\ ~Good(i)
      OBVIOUS
    <2> HIDE DEF bad
    <2>8. At(bytes, at + 1, f[i])
      BY <2>7 DEF Good
    <2>9. list[i] \in Player /\ P[i] = SerialisePlayer(list[i]) /\ P[i] \in Seq(Nat)
      BY <1>1, <1>3, <2>7, ElementOfSeq
    <2>10. f[i] = IF i = 1 THEN P[i] ELSE f[i - 1] \o P[i]
      BY <2>2, <2>7, Zenon DEF IsFlatten
    <2>11. SubSeq(list, 1, i) = Append(SubSeq(list, 1, i - 1), list[i])
      <3>1. 1 \in 1..Len(list) /\ i \in 1..Len(list)
        BY <1>1, <2>7, SMT
      <3>2. SubSeq(list, 1, i) = SubSeq(list, 1, i - 1) \o <<list[i]>>
        BY <3>1, SubSeqRecursiveSecond
      <3>3. SubSeq(list, 1, i - 1) \in Seq(Player)
        <4>1. \A k \in 1..i - 1 : list[k] \in Player
          <5>1. \A k \in 1..i - 1 : k \in 1..Len(list)
            BY <3>1, SMT
          <5>. QED BY <5>1, ElementOfSeq
        <4>2. 1 \in Int /\ i - 1 \in Int
          BY <2>7, SMT
        <4>. QED BY <4>1, <4>2, SubSeqProperties
      <3>. QED BY <2>9, <3>2, <3>3, AppendIsConcat
    <2>12. \E q \in Nat \ {0} : /\ r[i - 1] = [elements |-> SubSeq(list, 1, i - 1), next |-> q]
                                /\ At(bytes, q, P[i]) /\ q + Len(P[i]) = at + 1 + Len(f[i])
      <3>1. CASE i = 1
        <4>1. SubSeq(list, 1, 0) = << >>
          BY SubSeqEmpty, SMT
        <4>2. i - 1 = 0 /\ at + 1 \in Nat \ {0}
          BY <3>1, SMT
        <4>3. r[i - 1] = [elements |-> SubSeq(list, 1, i - 1), next |-> at + 1]
          BY <1>8, <4>1, <4>2
        <4>4. At(bytes, at + 1, P[i]) /\ (at + 1) + Len(P[i]) = at + 1 + Len(f[i])
          BY <2>8, <2>10, <3>1
        <4>. QED BY <4>2, <4>3, <4>4
      <3>2. CASE i # 1
        <4>1. i - 1 \in 1..n /\ ~(i <= i - 1)
          BY <2>7, <3>2, SMT
        <4>2. i - 1 \notin bad
          BY <2>6, <4>1, Zenon
        <4>3. Good(i - 1)
          BY <4>1, <4>2, Zenon DEF bad
        <4>4. PICK g \in Seq(Nat) : g = f[i - 1]
          BY <2>3, <4>1
        <4>5. f[i] = g \o P[i]
          BY <2>10, <3>2, <4>4
        <4>6. At(bytes, at + 1, g) /\ At(bytes, at + 1 + Len(g), P[i])
          <5>1. at + 1 \in Nat
            BY SMT
          <5>. QED BY <2>8, <2>9, <4>5, <5>1, AtConcat
        <4>7. r[i - 1] = [elements |-> SubSeq(list, 1, i - 1), next |-> at + 1 + Len(g)]
          BY <4>3, <4>4, <4>6 DEF Good
        <4>8. Len(f[i]) = Len(g) + Len(P[i]) /\ Len(g) \in Nat /\ Len(P[i]) \in Nat
          BY <2>9, <4>5, ConcatProperties, LenProperties
        <4>9. at + 1 + Len(g) \in Nat \ {0} /\ at + 1 + Len(g) + Len(P[i]) = at + 1 + Len(f[i])
          <5>1. \A x, y, z \in Nat : x = y + z => /\ at + 1 + y \in Nat \ {0}
                                                  /\ at + 1 + y + z = at + 1 + x
            BY SMT
          <5>2. Len(f[i]) \in Nat
            BY <2>3, <2>7
          <5>. QED BY <4>8, <5>1, <5>2
        <4>. QED BY <4>6, <4>7, <4>9
      <3>. QED BY <3>1, <3>2
    <2>13. PICK q \in Nat \ {0} : /\ r[i - 1] = [elements |-> SubSeq(list, 1, i - 1), next |-> q]
                                  /\ At(bytes, q, P[i]) /\ q + Len(P[i]) = at + 1 + Len(f[i])
      BY <2>12
    <2>14. r[i] = [elements |-> Append(SubSeq(list, 1, i - 1), list[i]),
                   next |-> q + Len(P[i])]
      <3>1. r[i] = ReadPlayer(bytes, [elements |-> SubSeq(list, 1, i - 1), next |-> q])
        BY <1>9, <2>7, <2>13
      <3>2. PICK p \in Player : p = list[i]
        BY <2>9
      <3>3. At(bytes, q, SerialisePlayer(p)) /\ SerialisePlayer(p) = P[i]
        BY <2>9, <2>13, <3>2
      <3>4. PICK l : l = SubSeq(list, 1, i - 1)
        OBVIOUS
      <3>5. ReadPlayer(bytes, [elements |-> l, next |-> q])
               = [elements |-> Append(l, p), next |-> q + Len(SerialisePlayer(p))]
        BY <3>3, PlayerRead
      <3>. QED BY <3>1, <3>2, <3>3, <3>4, <3>5
    <2>15. Good(i)
      BY <2>11, <2>13, <2>14 DEF Good
    <2>. QED BY <2>7, <2>15
  <1>. QED BY <1>10, <1>11

\* The parts of a state's bytes: the score, the food, the boosts and the players.
StateParts(state, hs, fs, bs, ps) ==
    /\ hs = <<state.highScore>> /\ Len(hs) = 1 /\ hs[1] = state.highScore
    /\ fs = Counted(state.food) /\ bs = Counted(state.speedBoosts)
    /\ ps = Counted(PlayersWritten(state.players))
    /\ hs \o fs \in Seq(Nat) /\ (hs \o fs) \o bs \in Seq(Nat)
    /\ SerialiseState(state) = ((hs \o fs) \o bs) \o ps
    /\ SerialiseState(state) \in Seq(Nat)
    /\ Len(hs \o fs) = 1 + Len(fs)
    /\ Len((hs \o fs) \o bs) = 1 + Len(fs) + Len(bs)
    /\ Len(SerialiseState(state)) = 1 + Len(fs) + Len(bs) + Len(ps)

LEMMA StateBytes ==
    ASSUME NEW state \in GameState
    PROVE  \E hs, fs, bs, ps \in Seq(Nat) : StateParts(state, hs, fs, bs, ps)
  <1>1. /\ state.highScore \in Nat /\ state.food \in Seq(Position)
        /\ state.speedBoosts \in Seq(Position) /\ state.players \in Seq(Player)
    BY DEF GameState
  <1>2. PICK hs \in Seq(Nat) : hs = <<state.highScore>>
    <2>1. <<state.highScore>> \in Seq(Nat)
      BY <1>1, SMT
    <2>. QED BY <2>1
  <1>3. Len(hs) = 1 /\ hs[1] = state.highScore
    BY <1>2
  <1>4. PICK fs \in Seq(Nat) : fs = Counted(state.food)
    BY <1>1, CountedPositions
  <1>5. PICK bs \in Seq(Nat) : bs = Counted(state.speedBoosts)
    BY <1>1, CountedPositions
  <1>6. PICK ps \in Seq(Nat) : ps = Counted(PlayersWritten(state.players))
    BY <1>1, PlayersBytes
  <1>7. hs \o fs \in Seq(Nat) /\ Len(hs \o fs) = 1 + Len(fs)
    <2>1. hs \o fs \in Seq(Nat) /\ Len(hs \o fs) = Len(hs) + Len(fs)
      BY ConcatProperties
    <2>. QED BY <1>3, <2>1
  <1>8. (hs \o fs) \o bs \in Seq(Nat) /\ Len((hs \o fs) \o bs) = 1 + Len(fs) + Len(bs)
    <2>1. /\ (hs \o fs) \o bs \in Seq(Nat)
          /\ Len((hs \o fs) \o bs) = Len(hs \o fs) + Len(bs)
      BY <1>7, ConcatProperties
    <2>. QED BY <1>7, <2>1
  <1>9. /\ ((hs \o fs) \o bs) \o ps \in Seq(Nat)
        /\ Len(((hs \o fs) \o bs) \o ps) = 1 + Len(fs) + Len(bs) + Len(ps)
    <2>1. /\ ((hs \o fs) \o bs) \o ps \in Seq(Nat)
          /\ Len(((hs \o fs) \o bs) \o ps) = Len((hs \o fs) \o bs) + Len(ps)
      BY <1>8, ConcatProperties
    <2>. QED BY <1>8, <2>1
  <1>10. SerialiseState(state) = ((hs \o fs) \o bs) \o ps
    BY <1>2, <1>4, <1>5, <1>6 DEF SerialiseState, PlayersWritten
  <1>11. /\ SerialiseState(state) \in Seq(Nat)
         /\ Len(SerialiseState(state)) = 1 + Len(fs) + Len(bs) + Len(ps)
    BY <1>9, <1>10
  <1>12. StateParts(state, hs, fs, bs, ps)
    BY <1>2, <1>3, <1>4, <1>5, <1>6, <1>7, <1>8, <1>10, <1>11, Zenon DEF StateParts
  <1>. QED BY <1>12

LEMMA MessageBytes ==
    ASSUME NEW msg \in ServerMessage
    PROVE  \E h, b \in Seq(Nat) :
              /\ h = <<msg.type, msg.clientId, msg.stamp>> /\ Len(h) = 3
              /\ h[1] = msg.type /\ h[2] = msg.clientId /\ h[3] = msg.stamp
              /\ b = IF msg.type = GAME_STATE THEN SerialiseState(msg.body) ELSE << >>
              /\ Serialise(msg) = h \o b /\ Serialise(msg) \in Seq(Nat)
              /\ Len(Serialise(msg)) = 3 + Len(b)
  <1>1. /\ msg.type \in {SERVER_WELCOME, GAME_STATE} /\ msg.type \in Nat
        /\ msg.clientId \in Nat /\ msg.stamp \in Nat
        /\ msg.type = GAME_STATE => msg.body \in GameState
        /\ msg.type # GAME_STATE => msg.body = << >>
    BY DEF ServerMessage, SERVER_WELCOME, GAME_STATE
  <1>2. PICK h \in Seq(Nat) : h = <<msg.type, msg.clientId, msg.stamp>>
    <2>1. <<msg.type, msg.clientId, msg.stamp>> \in Seq(Nat)
      BY <1>1, SMT
    <2>. QED BY <2>1
  <1>3. Len(h) = 3 /\ h[1] = msg.type /\ h[2] = msg.clientId /\ h[3] = msg.stamp
    BY <1>2
  <1>4. PICK b \in Seq(Nat) : b = IF msg.type = GAME_STATE THEN SerialiseState(msg.body) ELSE << >>
    <2>1. CASE msg.type = GAME_STATE
      BY <1>1, <2>1, StateBytes DEF StateParts
    <2>2. CASE msg.type # GAME_STATE
      BY <2>2, EmptySeq
    <2>. QED BY <2>1, <2>2
  <1>5. Serialise(msg) = h \o b
    BY <1>1, <1>2, <1>4 DEF Serialise
  <1>6. h \o b \in Seq(Nat) /\ Len(h \o b) = 3 + Len(b)
    <2>1. h \o b \in Seq(Nat) /\ Len(h \o b) = Len(h) + Len(b)
      BY ConcatProperties
    <2>. QED BY <1>3, <2>1
  <1>7. Serialise(msg) \in Seq(Nat) /\ Len(Serialise(msg)) = 3 + Len(b)
    BY <1>5, <1>6
  <1>. QED BY <1>2, <1>3, <1>4, <1>5, <1>7, Zenon

\* deserialise() undoes serialise(), for every message that a server sends, however many
\* players, segments and pieces of food it tells of (Protocol.h).
THEOREM DecodesWhatWasEncoded ==
    \A msg \in ServerMessage : Deserialise(Serialise(msg)) = msg
  <1> TAKE msg \in ServerMessage
  <1>1. PICK h, b \in Seq(Nat) :
              /\ h = <<msg.type, msg.clientId, msg.stamp>> /\ Len(h) = 3
              /\ h[1] = msg.type /\ h[2] = msg.clientId /\ h[3] = msg.stamp
              /\ b = IF msg.type = GAME_STATE THEN SerialiseState(msg.body) ELSE << >>
              /\ Serialise(msg) = h \o b /\ Serialise(msg) \in Seq(Nat)
              /\ Len(Serialise(msg)) = 3 + Len(b)
    BY MessageBytes
  <1>2. PICK bytes \in Seq(Nat) : bytes = Serialise(msg)
    BY <1>1
  <1>3. Len(b) \in Nat /\ Len(bytes) = 3 + Len(b)
    BY <1>1, <1>2, LenProperties
  <1>4. At(bytes, 1, h) /\ At(bytes, 4, b)
    <2>1. At(bytes, 1, h \o b)
      BY <1>1, <1>2, <1>3, SMT DEF At
    <2>2. 1 \in Nat /\ 1 + 3 = 4
      BY SMT
    <2>3. At(bytes, 1, h) /\ At(bytes, 1 + Len(h), b)
      BY <2>1, <2>2, AtConcat
    <2>. QED BY <1>1, <2>2, <2>3
  <1>5. bytes[1] = msg.type /\ bytes[2] = msg.clientId /\ bytes[3] = msg.stamp
    <2>1. \A k \in 1..3 : bytes[1 + k - 1] = h[k]
      BY <1>1, <1>4, Zenon DEF At
    <2>2. bytes[1] = h[1] /\ bytes[2] = h[2] /\ bytes[3] = h[3]
      <3>1. \A k \in 1..3 : 1 + k - 1 = k
        BY SMT
      <3>2. 1 \in 1..3 /\ 2 \in 1..3 /\ 3 \in 1..3
        BY SMT
      <3>. QED BY <2>1, <3>1, <3>2, Zenon
    <2>. QED BY <1>1, <2>2, Zenon
  <1>6. ~(Len(bytes) < HEADER_PACKED_SIZE)
    BY <1>3, SMT DEF HEADER_PACKED_SIZE
  <1>7. CASE msg.type # GAME_STATE
    <2>1. msg = [type |-> SERVER_WELCOME, clientId |-> msg.clientId, stamp |-> msg.stamp,
                 body |-> << >>]
      BY <1>7 DEF ServerMessage
    <2>2. Len(bytes) = 3 /\ bytes[1] = SERVER_WELCOME /\ SERVER_WELCOME # GAME_STATE
      <3>1. Len(b) = 0
        BY <1>1, <1>7, EmptySeq
      <3>. QED BY <1>3, <1>5, <2>1, <3>1 DEF SERVER_WELCOME, GAME_STATE
    <2>3. /\ SERVER_WELCOME \in DOMAIN BodySize /\ BodySize[SERVER_WELCOME] = 0
      BY DEF BodySize, SERVER_WELCOME, SERVER_CONFIG, CLIENT_JOIN, CLIENT_DISCONNECT, CLIENT_INPUT
    <2>4. SubSeq(bytes, HEADER_PACKED_SIZE + 1, Len(bytes)) = << >>
      <3>1. HEADER_PACKED_SIZE + 1 \in Int /\ Len(bytes) \in Int /\ Len(bytes) < HEADER_PACKED_SIZE + 1
        BY <2>2, SMT DEF HEADER_PACKED_SIZE
      <3>. QED BY <3>1, SubSeqEmpty
    <2>5. Len(bytes) = HEADER_PACKED_SIZE + BodySize[bytes[1]]
      BY <2>2, <2>3, SMT DEF HEADER_PACKED_SIZE
    <2>6. Deserialise(bytes) = [type |-> bytes[1], clientId |-> bytes[2], stamp |-> bytes[3],
                                body |-> << >>]
      BY <1>6, <2>2, <2>3, <2>4, <2>5, Zenon DEF Deserialise
    <2>. QED BY <1>2, <1>5, <2>1, <2>2, <2>6
  <1>8. CASE msg.type = GAME_STATE
    <2>1. PICK state \in GameState : state = msg.body
      BY <1>8 DEF ServerMessage, SERVER_WELCOME, GAME_STATE
    <2>2. msg = [type |-> GAME_STATE, clientId |-> msg.clientId, stamp |-> msg.stamp, body |-> state]
      BY <1>8, <2>1 DEF ServerMessage
    <2>parts. PICK hs, fs, bs, ps \in Seq(Nat) : StateParts(state, hs, fs, bs, ps)
      BY StateBytes
    <2>3. /\ hs = <<state.highScore>> /\ Len(hs) = 1 /\ hs[1] = state.highScore
          /\ fs = Counted(state.food) /\ bs = Counted(state.speedBoosts)
          /\ ps = Counted(PlayersWritten(state.players))
          /\ hs \o fs \in Seq(Nat) /\ (hs \o fs) \o bs \in Seq(Nat)
          /\ SerialiseState(state) = ((hs \o fs) \o bs) \o ps
          /\ SerialiseState(state) \in Seq(Nat)
          /\ Len(hs \o fs) = 1 + Len(fs)
          /\ Len((hs \o fs) \o bs) = 1 + Len(fs) + Len(bs)
          /\ Len(SerialiseState(state)) = 1 + Len(fs) + Len(bs) + Len(ps)
      BY <2>parts DEF StateParts
    <2>4. /\ state.highScore \in Nat /\ state.food \in Seq(Position)
          /\ state.speedBoosts \in Seq(Position) /\ state.players \in Seq(Player)
          /\ state = [highScore |-> state.highScore, food |-> state.food,
                      speedBoosts |-> state.speedBoosts, players |-> state.players]
      BY DEF GameState
    <2>5. Len(fs) \in Nat /\ Len(bs) \in Nat /\ Len(ps) \in Nat
      BY LenProperties
    <2>6. b = ((hs \o fs) \o bs) \o ps /\ Len(b) = 1 + Len(fs) + Len(bs) + Len(ps)
      BY <1>1, <1>8, <2>1, <2>3
    <2>7. At(bytes, 4, (hs \o fs) \o bs) /\ At(bytes, 4 + (1 + Len(fs) + Len(bs)), ps)
      <3>1. 4 \in Nat
        BY SMT
      <3>2. /\ At(bytes, 4, (hs \o fs) \o bs)
            /\ At(bytes, 4 + Len((hs \o fs) \o bs), ps)
        BY <1>4, <2>3, <2>6, <3>1, AtConcat
      <3>. QED BY <2>3, <3>2
    <2>8. At(bytes, 4, hs \o fs) /\ At(bytes, 4 + (1 + Len(fs)), bs)
      <3>1. 4 \in Nat
        BY SMT
      <3>2. At(bytes, 4, hs \o fs) /\ At(bytes, 4 + Len(hs \o fs), bs)
        BY <2>3, <2>7, <3>1, AtConcat
      <3>. QED BY <2>3, <3>2
    <2>9. At(bytes, 4, hs) /\ At(bytes, 5, fs)
      <3>1. 4 \in Nat /\ 4 + 1 = 5
        BY SMT
      <3>2. At(bytes, 4, hs) /\ At(bytes, 4 + Len(hs), fs)
        BY <2>8, <3>1, AtConcat
      <3>. QED BY <2>3, <3>1, <3>2
    <2>10. bytes[4] = state.highScore
      BY <2>3, <2>9, SMT DEF At
    <2>11. Vector(bytes, 5, 2) = [elements |-> state.food, next |-> 5 + Len(fs)]
      <3>1. 5 \in Nat \ {0}
        BY SMT
      <3>. QED BY <2>3, <2>4, <2>9, <3>1, VectorRead
    <2>12. Vector(bytes, 5 + Len(fs), 2)
              = [elements |-> state.speedBoosts, next |-> 5 + Len(fs) + Len(bs)]
      <3>1. 5 + Len(fs) \in Nat \ {0} /\ 4 + (1 + Len(fs)) = 5 + Len(fs)
        BY <2>5, SMT
      <3>2. At(bytes, 5 + Len(fs), Counted(state.speedBoosts))
        BY <2>3, <2>8, <3>1
      <3>. QED BY <2>3, <2>4, <3>1, <3>2, VectorRead
    <2>13. Players(bytes, 5 + Len(fs) + Len(bs))
              = [elements |-> state.players, next |-> 5 + Len(fs) + Len(bs) + Len(ps)]
      <3>1. /\ 5 + Len(fs) + Len(bs) \in Nat \ {0}
            /\ 4 + (1 + Len(fs) + Len(bs)) = 5 + Len(fs) + Len(bs)
        BY <2>5, SMT
      <3>2. At(bytes, 5 + Len(fs) + Len(bs), Counted(PlayersWritten(state.players)))
        BY <2>3, <2>7, <3>1
      <3>. QED BY <2>3, <2>4, <3>1, <3>2, PlayersRead
    <2>14. HEADER_PACKED_SIZE + 2 = 5 /\ HEADER_PACKED_SIZE + 1 = 4
      BY SMT DEF HEADER_PACKED_SIZE
    <2>15. ~(5 + Len(fs) + Len(bs) + Len(ps) > Len(bytes) + 1)
      BY <1>3, <2>5, <2>6, SMT
    <2>16. DeserialiseState(bytes)
              = [type |-> GAME_STATE, clientId |-> bytes[2], stamp |-> bytes[3],
                 body |-> [highScore |-> bytes[4], food |-> state.food,
                           speedBoosts |-> state.speedBoosts, players |-> state.players]]
      <3>1. PICK food, boosts, list :
                /\ food = Vector(bytes, 5, 2)
                /\ boosts = Vector(bytes, food.next, 2)
                /\ list = Players(bytes, boosts.next)
        OBVIOUS
      <3>2. food.elements = state.food /\ food.next = 5 + Len(fs)
        BY <2>11, <3>1
      <3>3. boosts.elements = state.speedBoosts /\ boosts.next = 5 + Len(fs) + Len(bs)
        BY <2>12, <3>1, <3>2
      <3>4. list.elements = state.players /\ ~(list.next > Len(bytes) + 1)
        BY <2>13, <2>15, <3>1, <3>3
      <3>. QED BY <2>14, <3>1, <3>2, <3>3, <3>4, Zenon DEF DeserialiseState
    <2>17. Deserialise(bytes) = DeserialiseState(bytes)
      BY <1>5, <1>6, <1>8 DEF Deserialise
    <2>. QED BY <1>2, <1>5, <2>2, <2>4, <2>10, <2>16, <2>17
  <1>. QED BY <1>7, <1>8

-----------------------------------------------------------------------------
(* Frames.                                                                 *)

LEMMA Encoded ==
    ASSUME NEW msg \in Messages
    PROVE  /\ Serialise(msg) \in Seq(Nat) /\ Len(Serialise(msg)) \in Nat
           /\ Deserialise(Serialise(msg)) = msg /\ IsExpected(msg)
  <1>1. msg \in ServerMessage
    BY FramingAssumption
  <1>2. Serialise(msg) \in Seq(Nat)
    BY <1>1, MessageBytes
  <1>3. IsExpected(msg)
    BY <1>1 DEF IsExpected, ServerMessage, Throws
  <1>. QED BY <1>1, <1>2, <1>3, LenProperties, DecodesWhatWasEncoded

LEMMA Digits ==
    ASSUME NEW n \in Nat, NEW base \in Nat \ {0}
    PROVE  n % base \in Nat /\ n \div base \in Nat /\ (n % base) + base * (n \div base) = n
  BY SMT

LEMMA LengthDigits ==
    ASSUME NEW n \in Nat
    PROVE  (n % LengthBase) + LengthBase * (n \div LengthBase) = n
  BY FramingAssumption, Digits

LEMMA FrameBytes ==
    ASSUME NEW msg \in Messages
    PROVE  /\ Frame(msg) \in Seq(Nat) /\ Len(Frame(msg)) = 2 + Len(Serialise(msg))
           /\ Frame(msg)[1] + LengthBase * Frame(msg)[2] = Len(Serialise(msg))
           /\ \A k \in 1..Len(Serialise(msg)) : Frame(msg)[2 + k] = Serialise(msg)[k]
  <1>1. PICK bytes \in Seq(Nat) : bytes = Serialise(msg)
    BY Encoded
  <1>2. PICK n \in Nat : n = Len(bytes)
    BY LenProperties
  <1>3. PICK h : h = <<n % LengthBase, n \div LengthBase>>
    OBVIOUS
  <1>4. h \in Seq(Nat) /\ Len(h) = 2 /\ h[1] = n % LengthBase /\ h[2] = n \div LengthBase
    <2>1. n % LengthBase \in Nat /\ n \div LengthBase \in Nat
      BY FramingAssumption, Digits
    <2>. QED BY <1>3, <2>1
  <1>5. Frame(msg) = h \o bytes
    BY <1>1, <1>2, <1>3, Zenon DEF Frame
  <1>6. /\ h \o bytes \in Seq(Nat) /\ Len(h \o bytes) = Len(h) + Len(bytes)
        /\ \A i \in 1..Len(h) + Len(bytes) :
              (h \o bytes)[i] = IF i <= Len(h) THEN h[i] ELSE bytes[i - Len(h)]
    BY <1>4, ConcatProperties
  <1>7. PICK f : f = Frame(msg)
    OBVIOUS
  <1>8. /\ f \in Seq(Nat) /\ Len(f) = 2 + n
        /\ \A i \in 1..2 + n : f[i] = IF i <= 2 THEN h[i] ELSE bytes[i - 2]
    BY <1>2, <1>4, <1>5, <1>6, <1>7
  <1>9. /\ 1 \in 1..2 + n /\ 1 <= 2 /\ 2 \in 1..2 + n /\ 2 <= 2
        /\ \A k \in 1..n : 2 + k \in 1..2 + n /\ ~(2 + k <= 2) /\ 2 + k - 2 = k
    BY SMT
  <1>10. f[1] = n % LengthBase /\ f[2] = n \div LengthBase
    BY <1>4, <1>8, <1>9
  <1>11. f[1] + LengthBase * f[2] = n
    BY <1>10, LengthDigits
  <1>12. \A k \in 1..n : f[2 + k] = bytes[k]
    BY <1>8, <1>9
  <1>. QED BY <1>1, <1>2, <1>7, <1>8, <1>11, <1>12

-----------------------------------------------------------------------------
(* ParseReceivedPacket is defined by recursion from the end of the buffer. *)

NextAt(buffer, i) == i + LENGTH_SIZE + LengthAt(buffer, i)

CutAt(buffer, f, i) ==
    IF IsTooBig(buffer, i) \/ ~HasFrame(buffer, i)
      THEN [frames |-> << >>, rest |-> i]
      ELSE [frames |-> <<SubSeq(buffer, i + LENGTH_SIZE, NextAt(buffer, i) - 1)>>
                          \o f[NextAt(buffer, i)].frames,
            rest   |-> f[NextAt(buffer, i)].rest]

IsCut(f, buffer, k) == f = [i \in k..Len(buffer) + 1 |-> CutAt(buffer, f, i)]

LEMMA NextInside ==
    ASSUME NEW buffer \in Seq(Nat), NEW i \in 1..Len(buffer) + 1, HasFrame(buffer, i)
    PROVE  /\ LengthAt(buffer, i) \in Nat /\ NextAt(buffer, i) \in i + 1..Len(buffer) + 1
           /\ NextAt(buffer, i) = i + 2 + LengthAt(buffer, i)
  <1>1. Len(buffer) \in Nat /\ i \in Nat
    BY LenProperties
  <1>2. /\ Len(buffer) - i + 1 >= 2 /\ Len(buffer) - i + 1 >= 2 + LengthAt(buffer, i)
    BY DEF HasFrame, HasLength, BytesFrom, LENGTH_SIZE
  <1>3. i \in 1..Len(buffer) /\ i + 1 \in 1..Len(buffer)
    BY <1>1, <1>2, SMT
  <1>4. buffer[i] \in Nat /\ buffer[i + 1] \in Nat /\ LengthBase \in Nat
    BY <1>3, ElementOfSeq, FramingAssumption
  <1>5. \A x, y, z \in Nat : x + y * z \in Nat
    BY SMT
  <1>6. LengthAt(buffer, i) \in Nat
    BY <1>4, <1>5 DEF LengthAt
  <1>7. NextAt(buffer, i) = i + 2 + LengthAt(buffer, i)
    BY DEF NextAt, LENGTH_SIZE
  <1>. QED BY <1>1, <1>2, <1>6, <1>7, SMT

LEMMA CutExists ==
    ASSUME NEW buffer \in Seq(Nat), NEW k \in 1..Len(buffer) + 1
    PROVE  \E f : IsCut(f, buffer, k)
  <1> DEFINE N == Len(buffer) + 1
             bad == {j \in Nat : j < N /\ \A f : ~IsCut(f, buffer, N - j)}
  <1>1. N \in Nat /\ N = Len(buffer) + 1
    BY LenProperties
  <1> HIDE DEF N
  <1>2. SUFFICES bad = {}
    <2>1. N - k \in Nat /\ N - k < N /\ N - (N - k) = k
      BY <1>1, SMT
    <2>. QED BY <2>1, bad = {}
  <1>3. SUFFICES ASSUME bad # {}
                 PROVE  FALSE
    OBVIOUS
  <1>4. PICK j \in bad : \A l \in bad : j <= l
    <2>1. bad \subseteq Nat
      OBVIOUS
    <2> HIDE DEF bad
    <2>. QED BY <1>3, <2>1, LeastNumber
  <1>5. j \in Nat /\ j < N
    OBVIOUS
  <1> DEFINE m == N - j
  <1>6. m \in Nat /\ 1 <= m /\ m <= N
    BY <1>1, <1>5, SMT
  <1>7. \E f : f = [i \in m + 1..N |-> CutAt(buffer, f, i)]
    <2>1. CASE j = 0
      <3>1. m + 1..N = {}
        BY <1>1, <1>6, <2>1, SMT
      <3>. QED BY <3>1
    <2>2. CASE j # 0
      <3>1. j - 1 \in Nat /\ ~(j <= j - 1) /\ j - 1 < N /\ N - (j - 1) = m + 1
        BY <1>1, <1>5, <2>2, SMT
      <3>2. j - 1 \notin bad
        <4> HIDE DEF bad
        <4>. QED BY <1>4, <3>1, Zenon
      <3>3. \E f : IsCut(f, buffer, N - (j - 1))
        BY <3>1, <3>2, Zenon
      <3>4. \E f : IsCut(f, buffer, m + 1)
        <4> HIDE DEF m
        <4>. QED BY <3>1, <3>3
      <3>. QED BY <1>1, <3>4 DEF IsCut
    <2>. QED BY <2>1, <2>2
  <1> HIDE DEF bad, m
  <1>8. PICK f : f = [i \in m + 1..N |-> CutAt(buffer, f, i)]
    BY <1>7
  <1> DEFINE g == [i \in m..N |-> IF i = m THEN CutAt(buffer, f, m) ELSE f[i]]
  <1>9. ASSUME NEW i \in m..N
        PROVE  g[i] = CutAt(buffer, g, i)
    <2>1. g[i] = CutAt(buffer, f, i)
      <3>1. CASE i = m
        BY <3>1
      <3>2. CASE i # m
        <4>1. i \in m + 1..N
          BY <1>1, <1>6, <3>2, SMT
        <4>. QED BY <1>8, <3>2, <4>1
      <3>. QED BY <3>1, <3>2
    <2>2. ASSUME HasFrame(buffer, i)
          PROVE  f[NextAt(buffer, i)] = g[NextAt(buffer, i)]
      <3>1. i \in 1..Len(buffer) + 1
        BY <1>1, <1>6, SMT
      <3>2. NextAt(buffer, i) \in i + 1..N
        BY <1>1, <2>2, <3>1, NextInside
      <3>3. NextAt(buffer, i) \in m..N /\ NextAt(buffer, i) # m
        BY <1>1, <1>6, <3>2, SMT
      <3>. QED BY <3>3
    <2> HIDE DEF g
    <2>. QED BY <2>1, <2>2, Zenon DEF CutAt
  <1>10. IsCut(g, buffer, m)
    BY <1>1, <1>9 DEF IsCut
  <1>11. ~IsCut(g, buffer, m)
    BY <1>4 DEF bad, m
  <1>. QED BY <1>10, <1>11

LEMMA CutUnfolds ==
    ASSUME NEW buffer \in Seq(Nat)
    PROVE  \E f : IsCut(f, buffer, 1) /\ ParseReceivedPacket(buffer) = f[1]
  <1>1. \E f : IsCut(f, buffer, 1)
    <2>1. 1 \in 1..Len(buffer) + 1
      BY LenProperties
    <2>. QED BY <2>1, CutExists
  <1>2. PICK f : f = CHOOSE g : IsCut(g, buffer, 1)
    OBVIOUS
  <1>3. IsCut(f, buffer, 1)
    BY <1>1, <1>2, Zenon
  <1>4. ParseReceivedPacket(buffer) = f[1]
    BY <1>2 DEF ParseReceivedPacket, IsCut, CutAt, NextAt
  <1>. QED BY <1>3, <1>4

LEMMA CutTyped ==
    ASSUME NEW buffer \in Seq(Nat), NEW f, IsCut(f, buffer, 1)
    PROVE  \A i \in 1..Len(buffer) + 1 :
              /\ f[i].frames \in Seq(Seq(Nat)) /\ f[i].rest \in 1..Len(buffer) + 1
              /\ IsTooBig(buffer, f[i].rest) \/ ~HasFrame(buffer, f[i].rest)
  <1> DEFINE N == Len(buffer) + 1
             Good(i) == /\ f[i].frames \in Seq(Seq(Nat)) /\ f[i].rest \in 1..N
                        /\ IsTooBig(buffer, f[i].rest) \/ ~HasFrame(buffer, f[i].rest)
             bad == {j \in Nat : j < N /\ ~Good(N - j)}
  <1>1. N \in Nat /\ N = Len(buffer) + 1
    BY LenProperties
  <1> HIDE DEF N, Good
  <1>2. SUFFICES bad = {}
    <2>1. ASSUME NEW i \in 1..N
          PROVE  Good(i)
      <3>1. N - i \in Nat /\ N - i < N /\ N - (N - i) = i
        BY <1>1, SMT
      <3>2. Good(N - (N - i))
        BY <3>1, bad = {}
      <3>. QED BY <3>1, <3>2
    <2>. QED BY <1>1, <2>1 DEF Good
  <1>3. SUFFICES ASSUME bad # {}
                 PROVE  FALSE
    OBVIOUS
  <1>4. PICK j \in bad : \A l \in bad : j <= l
    <2>1. bad \subseteq Nat
      OBVIOUS
    <2> HIDE DEF bad
    <2>. QED BY <1>3, <2>1, LeastNumber
  <1>5. j \in Nat /\ j < N /\ ~Good(N - j)
    OBVIOUS
  <1> HIDE DEF bad
  <1>6. PICK i \in 1..N : i = N - j
    <2>1. N - j \in 1..N
      BY <1>1, <1>5, SMT
    <2>. QED BY <2>1
  <1>7. f[i] = CutAt(buffer, f, i)
    BY <1>1, Zenon DEF IsCut
  <1>8. i \in 1..Len(buffer) + 1
    BY <1>1
  <1>9. CASE IsTooBig(buffer, i) \/ ~HasFrame(buffer, i)
    <2>1. f[i] = [frames |-> << >>, rest |-> i]
      BY <1>7, <1>9 DEF CutAt
    <2>2. f[i].frames = << >> /\ f[i].rest = i
      BY <2>1
    <2>3. Good(i)
      BY <1>9, <2>2, EmptySeq DEF Good
    <2>. QED BY <1>5, <1>6, <2>3
  <1>10. CASE ~(IsTooBig(buffer, i) \/ ~HasFrame(buffer, i))
    <2>1. PICK n \in i + 1..N : n = NextAt(buffer, i)
      BY <1>1, <1>8, <1>10, NextInside
    <2>2. /\ f[i].frames = <<SubSeq(buffer, i + LENGTH_SIZE, n - 1)>> \o f[n].frames
          /\ f[i].rest = f[n].rest
      BY <1>7, <1>10, <2>1 DEF CutAt
    <2>3. N - n \in Nat /\ N - n < N /\ N - (N - n) = n /\ ~(j <= N - n)
      BY <1>1, <1>5, <1>6, SMT
    <2>4. N - n \notin bad
      BY <1>4, <2>3, Zenon
    <2>5. Good(n)
      <3>1. Good(N - (N - n))
        BY <2>3, <2>4 DEF bad
      <3>. QED BY <2>3, <3>1
    <2>6. SubSeq(buffer, i + LENGTH_SIZE, n - 1) \in Seq(Nat)
      <3>1. \A k \in i + LENGTH_SIZE..n - 1 : k \in 1..Len(buffer)
        BY <1>1, SMT DEF LENGTH_SIZE
      <3>2. \A k \in i + LENGTH_SIZE..n - 1 : buffer[k] \in Nat
        BY <3>1, ElementOfSeq
      <3>3. i + LENGTH_SIZE \in Int /\ n - 1 \in Int
        BY SMT DEF LENGTH_SIZE
      <3>. QED BY <3>2, <3>3, SubSeqProperties
    <2>7. PICK S : S = Seq(Nat)
      OBVIOUS
    <2>8. PICK x \in S : x = SubSeq(buffer, i + LENGTH_SIZE, n - 1)
      BY <2>6, <2>7
    <2>9. <<x>> \in Seq(S) /\ f[n].frames \in Seq(S)
      BY <2>5, <2>7 DEF Good
    <2>10. <<x>> \o f[n].frames \in Seq(S)
      BY <2>9, ConcatProperties
    <2>11. Good(i)
      BY <2>2, <2>5, <2>7, <2>8, <2>10 DEF Good
    <2>. QED BY <1>5, <1>6, <2>11
  <1>. QED BY <1>9, <1>10

\* The buffer ends within the frame of a message.
BreaksOff(buffer, at, msg) ==
    /\ at <= Len(buffer) + 1 /\ Len(buffer) + 1 < at + Len(Frame(msg))
    /\ \A k \in 1..Len(buffer) + 1 - at : buffer[at + k - 1] = Frame(msg)[k]

LEMMA NothingToCut ==
    ASSUME NEW buffer \in Seq(Nat), NEW at \in Nat \ {0}, NEW msg \in Messages,
           BreaksOff(buffer, at, msg)
    PROVE  /\ ~HasFrame(buffer, at)
           /\ IsTooBig(buffer, at) => Len(Serialise(msg)) > MaxMessageSize
  <1>1. SUFFICES ASSUME HasLength(buffer, at)
                 PROVE  LengthAt(buffer, at) = Len(Serialise(msg))
    <2>1. /\ Len(Frame(msg)) = 2 + Len(Serialise(msg)) /\ Len(Serialise(msg)) \in Nat
          /\ Len(buffer) \in Nat
      BY FrameBytes, Encoded, LenProperties
    <2>2. Len(buffer) + 1 < at + Len(Frame(msg))
      BY DEF BreaksOff
    <2>3. HasFrame(buffer, at) => FALSE
      <3>1. HasFrame(buffer, at) => Len(buffer) - at + 1 >= 2 + Len(Serialise(msg))
        BY HasLength(buffer, at) => LengthAt(buffer, at) = Len(Serialise(msg))
           DEF HasFrame, BytesFrom, LENGTH_SIZE
      <3>2. ~(Len(buffer) - at + 1 >= 2 + Len(Serialise(msg)))
        BY <2>1, <2>2, SMT
      <3>. QED BY <3>1, <3>2
    <2>. QED BY <2>3 DEF IsTooBig
  <1>2. Len(buffer) \in Nat /\ Len(buffer) - at + 1 >= 2
    <2>1. Len(buffer) \in Nat
      BY LenProperties
    <2>2. Len(buffer) - at + 1 >= 2
      BY <1>1 DEF HasLength, BytesFrom, LENGTH_SIZE
    <2>. QED BY <2>1, <2>2
  <1>3. 1 \in 1..Len(buffer) + 1 - at /\ 2 \in 1..Len(buffer) + 1 - at
    BY <1>2, SMT
  <1>4. buffer[at + 1 - 1] = Frame(msg)[1] /\ buffer[at + 2 - 1] = Frame(msg)[2]
    BY <1>3 DEF BreaksOff
  <1>5. at + 1 - 1 = at /\ at + 2 - 1 = at + 1
    BY SMT
  <1>. QED BY <1>4, <1>5, FrameBytes DEF LengthAt

LEMMA WholeFrame ==
    ASSUME NEW buffer \in Seq(Nat), NEW at \in Nat \ {0}, NEW msg \in Messages,
           At(buffer, at, Frame(msg))
    PROVE  /\ HasFrame(buffer, at) /\ NextAt(buffer, at) = at + Len(Frame(msg))
           /\ at \in 1..Len(buffer) + 1 /\ at + Len(Frame(msg)) \in 1..Len(buffer) + 1
           /\ IsTooBig(buffer, at) <=> Len(Serialise(msg)) > MaxMessageSize
           /\ SubSeq(buffer, at + LENGTH_SIZE, NextAt(buffer, at) - 1) = Serialise(msg)
  <1>1. PICK s \in Seq(Nat) : s = Serialise(msg)
    BY Encoded
  <1>2. PICK fr \in Seq(Nat) : fr = Frame(msg)
    BY FrameBytes
  <1>3. /\ Len(s) \in Nat /\ Len(fr) = 2 + Len(s) /\ Len(buffer) \in Nat
        /\ fr[1] + LengthBase * fr[2] = Len(s)
        /\ \A k \in 1..Len(s) : fr[2 + k] = s[k]
    BY <1>1, <1>2, FrameBytes, LenProperties
  <1>4. at + (2 + Len(s)) <= Len(buffer) + 1
    BY <1>2, <1>3 DEF At
  <1>5. \A k \in 1..2 + Len(s) : buffer[at + k - 1] = fr[k]
    BY <1>2, <1>3 DEF At
  <1>6. LengthAt(buffer, at) = Len(s)
    <2>1. /\ 1 \in 1..2 + Len(s) /\ 2 \in 1..2 + Len(s)
          /\ at + 1 - 1 = at /\ at + 2 - 1 = at + 1
      BY <1>3, SMT
    <2>2. buffer[at + 1 - 1] = fr[1] /\ buffer[at + 2 - 1] = fr[2]
      BY <1>5, <2>1
    <2>. QED BY <1>3, <2>1, <2>2 DEF LengthAt
  <1>7. Len(buffer) - at + 1 >= 2 /\ Len(buffer) - at + 1 >= 2 + Len(s)
    BY <1>3, <1>4, SMT
  <1>8. HasLength(buffer, at) /\ HasFrame(buffer, at)
    BY <1>6, <1>7 DEF HasFrame, HasLength, BytesFrom, LENGTH_SIZE
  <1>9. IsTooBig(buffer, at) <=> Len(s) > MaxMessageSize
    BY <1>6, <1>8 DEF IsTooBig
  <1>10. NextAt(buffer, at) = at + 2 + Len(s) /\ at + LENGTH_SIZE = at + 2
    BY <1>6 DEF NextAt, LENGTH_SIZE
  <1>11. at + 2 + Len(s) = at + Len(fr) /\ at + 2 + Len(s) - 1 = at + 1 + Len(s)
         /\ at \in 1..Len(buffer) + 1 /\ at + Len(fr) \in 1..Len(buffer) + 1
    BY <1>3, <1>4, SMT
  <1>12. SubSeq(buffer, at + 2, at + 1 + Len(s)) = s
    <2>1. at + 2 \in Int /\ at + 1 + Len(s) \in Int /\ (at + 1 + Len(s)) - (at + 2) + 1 = Len(s)
          /\ (at + 2 <= at + 1 + Len(s) <=> Len(s) # 0)
      BY <1>3, SMT
    <2>2. \A k \in at + 2..at + 1 + Len(s) : k \in 1..Len(buffer)
      BY <1>3, <1>4, SMT
    <2>3. \A k \in at + 2..at + 1 + Len(s) : buffer[k] \in Nat
      BY <2>2, ElementOfSeq
    <2>4. PICK t : t = SubSeq(buffer, at + 2, at + 1 + Len(s))
      OBVIOUS
    <2>5. /\ t \in Seq(Nat) /\ Len(t) = Len(s)
          /\ \A k \in 1..Len(s) : t[k] = buffer[(at + 2) + k - 1]
      BY <1>3, <2>1, <2>3, <2>4, SubSeqProperties
    <2>6. ASSUME NEW k \in 1..Len(s)
          PROVE  t[k] = s[k]
      <3>1. 2 + k \in 1..2 + Len(s) /\ at + (2 + k) - 1 = (at + 2) + k - 1
        BY <1>3, SMT
      <3>2. buffer[at + (2 + k) - 1] = fr[2 + k]
        BY <1>5, <3>1
      <3>. QED BY <1>3, <2>5, <3>1, <3>2
    <2>. QED BY <2>4, <2>5, <2>6, SeqEqual
  <1>13. NextAt(buffer, at) = at + Len(fr) /\ NextAt(buffer, at) - 1 = at + 1 + Len(s)
    BY <1>10, <1>11
  <1>14. SubSeq(buffer, at + LENGTH_SIZE, NextAt(buffer, at) - 1) = s
    BY <1>10, <1>12, <1>13
  <1>. QED BY <1>1, <1>2, <1>8, <1>9, <1>11, <1>13, <1>14

\* What is cut from a position on is one frame and what is cut from the next one on.
OneCutOff(f, at, next, bytes) ==
    /\ f[at].rest = f[next].rest
    /\ Len(f[at].frames) = 1 + Len(f[next].frames)
    /\ f[at].frames[1] = bytes
    /\ \A i \in 1..Len(f[next].frames) : f[at].frames[1 + i] = f[next].frames[i]

LEMMA CutOne ==
    ASSUME NEW buffer \in Seq(Nat), NEW f, IsCut(f, buffer, 1), NEW at \in Nat \ {0},
           NEW msg \in Messages, At(buffer, at, Frame(msg)),
           Len(Serialise(msg)) <= MaxMessageSize
    PROVE  /\ at + Len(Frame(msg)) \in 1..Len(buffer) + 1
           /\ OneCutOff(f, at, at + Len(Frame(msg)), Serialise(msg))
  <1>1. PICK n \in 1..Len(buffer) + 1 : n = at + Len(Frame(msg))
    BY WholeFrame
  <1>2. at \in 1..Len(buffer) + 1 /\ HasFrame(buffer, at) /\ NextAt(buffer, at) = n
    BY <1>1, WholeFrame
  <1>3. ~IsTooBig(buffer, at)
    <2>1. ~(Len(Serialise(msg)) > MaxMessageSize)
      BY Encoded, FramingAssumption, SMT
    <2>. QED BY <2>1, WholeFrame
  <1>4. SubSeq(buffer, at + LENGTH_SIZE, n - 1) = Serialise(msg)
    BY <1>2, WholeFrame
  <1>5. f[at] = CutAt(buffer, f, at)
    BY <1>2, Zenon DEF IsCut
  <1>6. /\ f[at].frames = <<Serialise(msg)>> \o f[n].frames
        /\ f[at].rest = f[n].rest
    <2>1. f[at] = [frames |-> <<SubSeq(buffer, at + LENGTH_SIZE, NextAt(buffer, at) - 1)>>
                                \o f[NextAt(buffer, at)].frames,
                   rest   |-> f[NextAt(buffer, at)].rest]
      BY <1>2, <1>3, <1>5, Zenon DEF CutAt
    <2>2. f[at] = [frames |-> <<Serialise(msg)>> \o f[n].frames, rest |-> f[n].rest]
      BY <1>2, <1>4, <2>1, Zenon
    <2>. QED BY <2>2
  <1>7. PICK S : S = Seq(Nat)
    OBVIOUS
  <1>8. PICK x \in S : x = Serialise(msg)
    BY <1>7, Encoded
  <1>9. PICK g \in Seq(S) : g = f[n].frames
    BY <1>7, CutTyped
  <1>10. PICK w \in Seq(S) : w = <<x>>
    <2>1. <<x>> \in Seq(S)
      OBVIOUS
    <2>. QED BY <2>1
  <1>11. Len(w) = 1 /\ w[1] = x
    BY <1>10
  <1>12. /\ Len(w \o g) = Len(w) + Len(g)
         /\ \A i \in 1..Len(w) + Len(g) : (w \o g)[i] = IF i <= Len(w) THEN w[i] ELSE g[i - Len(w)]
    BY ConcatProperties
  <1>13. PICK h : h = f[at].frames
    OBVIOUS
  <1>14. /\ Len(h) = 1 + Len(g)
         /\ \A i \in 1..1 + Len(g) : h[i] = IF i <= 1 THEN w[i] ELSE g[i - 1]
    BY <1>6, <1>8, <1>9, <1>10, <1>11, <1>12, <1>13
  <1>15. Len(g) \in Nat
    BY LenProperties
  <1>16. /\ 1 \in 1..1 + Len(g) /\ 1 <= 1
         /\ \A i \in 1..Len(g) : 1 + i \in 1..1 + Len(g) /\ ~(1 + i <= 1) /\ 1 + i - 1 = i
    BY <1>15, SMT
  <1>17. h[1] = x /\ \A i \in 1..Len(g) : h[1 + i] = g[i]
    BY <1>11, <1>14, <1>16
  <1>18. OneCutOff(f, at, n, Serialise(msg))
    BY <1>6, <1>8, <1>9, <1>13, <1>14, <1>17 DEF OneCutOff
  <1>. QED BY <1>1, <1>18

\* The frames of the messages behind number r up to number q are in a buffer from its
\* first byte on, where p says, and none is too big.
AreWhole(buffer, sent, p, r, q) ==
    /\ p \in [r + 1..Len(sent) + 1 -> Nat \ {0}] /\ p[r + 1] = 1
    /\ \A i \in r + 1..q : /\ p[i + 1] = p[i] + Len(Frame(sent[i]))
                           /\ At(buffer, p[i], Frame(sent[i]))
                           /\ Len(Serialise(sent[i])) <= MaxMessageSize

\* They are all cut.
LEMMA CutMany ==
    ASSUME NEW sent \in Seq(Messages), NEW r \in Nat, NEW q \in Nat, r <= q, q <= Len(sent),
           NEW buffer \in Seq(Nat), NEW f, IsCut(f, buffer, 1),
           NEW p, AreWhole(buffer, sent, p, r, q)
    PROVE  /\ p[q + 1] \in 1..Len(buffer) + 1
           /\ f[1].rest = f[p[q + 1]].rest
           /\ Len(f[1].frames) = (q - r) + Len(f[p[q + 1]].frames)
           /\ \A i \in r + 1..q : f[1].frames[i - r] = Serialise(sent[i])
  <1> DEFINE Behind(k) == f[p[k + 1]].frames
             Good(k) == /\ p[k + 1] \in 1..Len(buffer) + 1
                        /\ f[1].rest = f[p[k + 1]].rest
                        /\ Len(f[1].frames) = (k - r) + Len(Behind(k))
                        /\ \A i \in r + 1..k : f[1].frames[i - r] = Serialise(sent[i])
                        /\ \A i \in 1..Len(Behind(k)) : f[1].frames[(k - r) + i] = Behind(k)[i]
             bad == {k \in r..q : ~Good(k)}
  <1> HIDE DEF Good
  <1>1. SUFFICES bad = {}
    <2>1. q \in r..q
      BY SMT
    <2>2. Good(q)
      BY <2>1, bad = {}
    <2>. QED BY <2>2 DEF Good
  <1>2. SUFFICES ASSUME bad # {}
                 PROVE  FALSE
    OBVIOUS
  <1>3. PICK k \in bad : \A l \in bad : k <= l
    <2>1. bad \subseteq Nat
      BY SMT
    <2> HIDE DEF bad
    <2>. QED BY <1>2, <2>1, LeastNumber
  <1>4. k \in r..q /\ ~Good(k)
    OBVIOUS
  <1> HIDE DEF bad
  <1>5. CASE k = r
    <2>1. /\ r + 1..r = {} /\ r - r = 0 /\ 1 \in 1..Len(buffer) + 1
          /\ \A n \in Nat : 0 + n = n
      BY LenProperties, SMT
    <2>2. f[1].frames \in Seq(Seq(Nat)) /\ Len(f[1].frames) \in Nat
      BY <2>1, CutTyped, LenProperties
    <2>3. Good(r)
      BY <2>1, <2>2 DEF Good, AreWhole
    <2>. QED BY <1>4, <1>5, <2>3
  <1>6. CASE k # r
    <2>1. /\ k - 1 \in r..q /\ ~(k <= k - 1) /\ k - 1 + 1 = k /\ k \in r + 1..q
          /\ k \in 1..Len(sent) /\ k \in r + 1..Len(sent) + 1
      BY <1>4, <1>6, LenProperties, SMT
    <2>2. k - 1 \notin bad
      BY <1>3, <2>1, Zenon
    <2>3. Good(k - 1)
      BY <2>1, <2>2, Zenon DEF bad
    <2>4. PICK at \in Nat \ {0} : at = p[k]
      BY <2>1 DEF AreWhole
    <2>5. PICK g : g = f[at].frames
      OBVIOUS
    <2>6. PICK h : h = f[1].frames
      OBVIOUS
    <2>7. PICK j : j = k - 1
      OBVIOUS
    <2>8. /\ f[1].rest = f[at].rest
          /\ Len(h) = (j - r) + Len(g)
          /\ \A i \in r + 1..j : h[i - r] = Serialise(sent[i])
          /\ \A i \in 1..Len(g) : h[(j - r) + i] = g[i]
      BY <2>1, <2>3, <2>4, <2>5, <2>6, <2>7 DEF Good
    <2>9. PICK msg \in Messages : msg = sent[k]
      BY <2>1, ElementOfSeq
    <2>10. /\ p[k + 1] = at + Len(Frame(msg)) /\ At(buffer, at, Frame(msg))
           /\ Len(Serialise(msg)) <= MaxMessageSize
      BY <2>1, <2>4, <2>9 DEF AreWhole
    <2>11. PICK n \in 1..Len(buffer) + 1 :
              /\ n = at + Len(Frame(msg)) /\ f[at].rest = f[n].rest
              /\ Len(g) = 1 + Len(f[n].frames)
              /\ g[1] = Serialise(msg)
              /\ \A i \in 1..Len(f[n].frames) : g[1 + i] = f[n].frames[i]
      <3>1. /\ at + Len(Frame(msg)) \in 1..Len(buffer) + 1
            /\ OneCutOff(f, at, at + Len(Frame(msg)), Serialise(msg))
        BY <2>10, CutOne
      <3>2. PICK n \in 1..Len(buffer) + 1 : n = at + Len(Frame(msg))
        BY <3>1
      <3>. QED BY <2>5, <3>1, <3>2 DEF OneCutOff
    <2>12. PICK e : e = f[n].frames
      OBVIOUS
    <2>13. PICK m \in Nat : m = Len(e)
      BY <2>12, CutTyped, LenProperties
    <2>14. /\ Len(g) = 1 + m /\ \A i \in 1..m : g[1 + i] = e[i]
      BY <2>11, <2>12, <2>13
    <2>15. Len(h) = (k - r) + m
      <3>1. (j - r) + (1 + m) = (k - r) + m
        BY <1>4, <2>7, SMT
      <3>. QED BY <2>8, <2>14, <3>1
    <2>16. ASSUME NEW i \in r + 1..k
           PROVE  h[i - r] = Serialise(sent[i])
      <3>1. CASE i = k
        <4>1. 1 \in 1..1 + m /\ (j - r) + 1 = k - r
          BY <1>4, <2>7, SMT
        <4>2. h[(j - r) + 1] = g[1]
          BY <2>8, <2>14, <4>1
        <4>. QED BY <2>9, <2>11, <3>1, <4>1, <4>2
      <3>2. CASE i # k
        <4>1. i \in r + 1..j
          BY <1>4, <2>7, <3>2, SMT
        <4>. QED BY <2>8, <4>1
      <3>. QED BY <3>1, <3>2
    <2>17. ASSUME NEW i \in 1..m
           PROVE  h[(k - r) + i] = e[i]
      <3>1. 1 + i \in 1..1 + m /\ (j - r) + (1 + i) = (k - r) + i
        BY <1>4, <2>7, SMT
      <3>2. h[(j - r) + (1 + i)] = g[1 + i]
        BY <2>8, <2>14, <3>1
      <3>. QED BY <2>14, <3>1, <3>2
    <2>18. p[k + 1] = n /\ f[1].rest = f[n].rest
      BY <2>8, <2>10, <2>11
    <2>19. Good(k)
      BY <2>6, <2>12, <2>13, <2>15, <2>16, <2>17, <2>18 DEF Good
    <2>. QED BY <1>4, <2>19
  <1>. QED BY <1>5, <1>6

-----------------------------------------------------------------------------
(* What has been sent, as a function of the frames sent.                   *)

SentFrame == [msg : Messages, isWhole : BOOLEAN]

\* The first n frames are whole and the next, if there is one, is not.
WholeUpTo(fs, n) ==
    /\ \A i \in 1..n : fs[i].isWhole
    /\ n = Len(fs) \/ ~fs[n + 1].isWhole

WholeCount(fs) == CHOOSE n \in 0..Len(fs) : WholeUpTo(fs, n)

SentOf(fs) == [i \in 1..WholeCount(fs) |-> fs[i].msg]

LEMMA SentIsSentOf == Sent = SentOf(frames) /\ Sent' = SentOf(frames')
  BY DEF Sent, SentOf, WholeCount, WholeUpTo

LEMMA SomeWhole ==
    ASSUME NEW fs \in Seq(SentFrame)
    PROVE  \E n \in 0..Len(fs) : WholeUpTo(fs, n)
  <1> DEFINE torn == {i \in 1..Len(fs) : ~fs[i].isWhole}
  <1>1. Len(fs) \in Nat
    BY LenProperties
  <1>2. CASE torn = {}
    <2>1. WholeUpTo(fs, Len(fs))
      BY <1>2 DEF WholeUpTo
    <2>2. Len(fs) \in 0..Len(fs)
      BY <1>1, SMT
    <2>. QED BY <2>1, <2>2
  <1>3. CASE torn # {}
    <2>1. PICK m \in torn : \A n \in torn : m <= n
      <3>1. torn \subseteq Nat
        BY SMT
      <3> HIDE DEF torn
      <3>. QED BY <1>3, <3>1, LeastNumber
    <2>2. m \in 1..Len(fs) /\ ~fs[m].isWhole
      OBVIOUS
    <2>3. ASSUME NEW i \in 1..m - 1
          PROVE  fs[i].isWhole
      <3>1. i \in 1..Len(fs) /\ ~(m <= i)
        BY <1>1, <2>2, SMT
      <3>. QED BY <2>1, <3>1
    <2>4. m - 1 \in 0..Len(fs) /\ m - 1 + 1 = m
      BY <1>1, <2>2, SMT
    <2>5. WholeUpTo(fs, m - 1)
      BY <2>2, <2>3, <2>4 DEF WholeUpTo
    <2>. QED BY <2>4, <2>5
  <1>. QED BY <1>2, <1>3

LEMMA WholeCountIs ==
    ASSUME NEW fs \in Seq(SentFrame), NEW n \in 0..Len(fs), WholeUpTo(fs, n)
    PROVE  WholeCount(fs) = n
  <1>1. WholeCount(fs) \in 0..Len(fs) /\ WholeUpTo(fs, WholeCount(fs))
    BY Zenon DEF WholeCount
  <1>2. PICK w \in 0..Len(fs) : w = WholeCount(fs)
    BY <1>1
  <1>3. ASSUME NEW x \in 0..Len(fs), NEW y \in 0..Len(fs), WholeUpTo(fs, x), WholeUpTo(fs, y), x < y
        PROVE  FALSE
    <2>1. x + 1 \in 1..y /\ x # Len(fs)
      BY <1>3, LenProperties, SMT
    <2>. QED BY <1>3, <2>1 DEF WholeUpTo
  <1>4. ~(w < n) /\ ~(n < w)
    BY <1>1, <1>2, <1>3
  <1>5. w = n
    BY <1>4, LenProperties, SMT
  <1>. QED BY <1>2, <1>5

LEMMA SentOfIs ==
    ASSUME NEW fs \in Seq(SentFrame)
    PROVE  /\ SentOf(fs) \in Seq(Messages) /\ Len(SentOf(fs)) \in 0..Len(fs)
           /\ Len(SentOf(fs)) = WholeCount(fs) /\ WholeUpTo(fs, Len(SentOf(fs)))
           /\ \A i \in 1..Len(SentOf(fs)) : SentOf(fs)[i] = fs[i].msg
  <1>1. PICK w \in 0..Len(fs) : w = WholeCount(fs) /\ WholeUpTo(fs, w)
    <2>1. WholeCount(fs) \in 0..Len(fs) /\ WholeUpTo(fs, WholeCount(fs))
      BY SomeWhole, Zenon DEF WholeCount
    <2>. QED BY <2>1
  <1>2. w \in Nat /\ \A i \in 1..w : i \in 1..Len(fs)
    BY LenProperties, SMT
  <1>3. \A i \in 1..w : fs[i].msg \in Messages
    <2>1. \A i \in 1..w : fs[i] \in SentFrame
      BY <1>2, ElementOfSeq
    <2>. QED BY <2>1 DEF SentFrame
  <1>4. PICK s : s = [i \in 1..w |-> fs[i].msg]
    OBVIOUS
  <1>5. s \in [1..w -> Messages] /\ \A i \in 1..w : s[i] = fs[i].msg
    BY <1>3, <1>4
  <1>6. s \in Seq(Messages) /\ Len(s) = w
    BY <1>2, <1>5, SMT
  <1>7. s = SentOf(fs)
    BY <1>1, <1>4 DEF SentOf
  <1>. QED BY <1>1, <1>5, <1>6, <1>7

\* Another frame adds a message only if it is whole and no frame is torn before it.
LEMMA SentOfAppend ==
    ASSUME NEW fs \in Seq(SentFrame), NEW e \in SentFrame
    PROVE  /\ Append(fs, e) \in Seq(SentFrame) /\ Len(Append(fs, e)) = Len(fs) + 1
           /\ Append(fs, e)[Len(fs) + 1] = e
           /\ \A i \in 1..Len(fs) : Append(fs, e)[i] = fs[i]
           /\ SentOf(Append(fs, e)) = IF Len(SentOf(fs)) = Len(fs) /\ e.isWhole
                                        THEN Append(SentOf(fs), e.msg)
                                        ELSE SentOf(fs)
  <1>1. PICK gs \in Seq(SentFrame) : gs = Append(fs, e)
    BY AppendProperties
  <1>2. /\ Len(gs) = Len(fs) + 1 /\ gs[Len(fs) + 1] = e
        /\ \A i \in 1..Len(fs) : gs[i] = fs[i]
    BY <1>1, AppendProperties
  <1>3. PICK w \in 0..Len(fs) : w = WholeCount(fs)
    BY SentOfIs
  <1>4. /\ SentOf(fs) \in Seq(Messages) /\ Len(SentOf(fs)) = w /\ WholeUpTo(fs, w)
        /\ \A i \in 1..w : SentOf(fs)[i] = fs[i].msg
    BY <1>3, SentOfIs
  <1>5. Len(fs) \in Nat
    BY LenProperties
  <1>6. CASE w = Len(fs) /\ e.isWhole
    <2>1. \A i \in 1..Len(fs) + 1 : i \in 1..Len(fs) \/ i = Len(fs) + 1
      BY <1>5, SMT
    <2>2. WholeUpTo(gs, Len(fs) + 1)
      BY <1>2, <1>4, <1>6, <2>1 DEF WholeUpTo
    <2>3. Len(fs) + 1 \in 0..Len(gs)
      BY <1>2, <1>5, SMT
    <2>4. WholeCount(gs) = Len(fs) + 1
      BY <2>2, <2>3, WholeCountIs
    <2>5. PICK s \in Seq(Messages) : s = SentOf(gs)
      BY SentOfIs
    <2>6. Len(s) = Len(fs) + 1 /\ \A i \in 1..Len(fs) + 1 : s[i] = gs[i].msg
      BY <2>4, <2>5, SentOfIs
    <2>7. PICK old \in Seq(Messages) : old = SentOf(fs)
      BY <1>4
    <2>8. PICK msg \in Messages : msg = e.msg
      BY DEF SentFrame
    <2>9. PICK t \in Seq(Messages) : t = Append(old, msg)
      BY AppendProperties
    <2>10. Len(t) = Len(old) + 1 /\ t[Len(old) + 1] = msg /\ \A i \in 1..Len(old) : t[i] = old[i]
      BY <2>9, AppendProperties
    <2>11. Len(old) = Len(fs)
      BY <1>4, <1>6, <2>7
    <2>12. ASSUME NEW i \in 1..Len(fs) + 1
           PROVE  s[i] = t[i]
      <3>1. CASE i \in 1..Len(fs)
        BY <1>2, <1>4, <1>6, <2>6, <2>7, <2>10, <2>11, <3>1
      <3>2. CASE i = Len(fs) + 1
        BY <1>2, <2>6, <2>8, <2>10, <2>11, <3>2
      <3>. QED BY <2>1, <3>1, <3>2
    <2>13. s = t
      BY <2>6, <2>10, <2>11, <2>12, SeqEqual
    <2>. QED BY <1>1, <1>2, <1>4, <1>6, <2>5, <2>7, <2>8, <2>9, <2>13
  <1>7. CASE ~(w = Len(fs) /\ e.isWhole)
    <2>1. WholeUpTo(gs, w)
      <3>1. \A i \in 1..w : i \in 1..Len(fs)
        BY <1>5, SMT
      <3>2. \A i \in 1..w : gs[i].isWhole
        BY <1>2, <1>4, <3>1 DEF WholeUpTo
      <3>3. ~gs[w + 1].isWhole
        <4>1. CASE w = Len(fs)
          BY <1>2, <1>7, <4>1
        <4>2. CASE w # Len(fs)
          <5>1. w + 1 \in 1..Len(fs)
            BY <1>5, <4>2, SMT
          <5>. QED BY <1>2, <1>4, <4>2, <5>1 DEF WholeUpTo
        <4>. QED BY <4>1, <4>2
      <3>. QED BY <3>2, <3>3 DEF WholeUpTo
    <2>2. w \in 0..Len(gs)
      BY <1>2, <1>5, SMT
    <2>3. WholeCount(gs) = w
      BY <2>1, <2>2, WholeCountIs
    <2>4. \A i \in 1..w : gs[i].msg = fs[i].msg
      <3>1. \A i \in 1..w : i \in 1..Len(fs)
        BY <1>5, SMT
      <3>. QED BY <1>2, <3>1
    <2>5. SentOf(gs) = SentOf(fs)
      BY <1>3, <2>3, <2>4 DEF SentOf
    <2>. QED BY <1>1, <1>2, <1>4, <1>7, <2>5
  <1>. QED BY <1>6, <1>7

-----------------------------------------------------------------------------
(* How what was sent lies in the bytes that the client has not cut yet.    *)

\* The frames of the messages behind number r follow each other from the first byte on;
\* p[i] is where the i-th begins, and p[Len(sent) + 1] where they end.
Marks(bytes, sent, r, p) ==
    /\ p \in [r + 1..Len(sent) + 1 -> Nat \ {0}]
    /\ p[r + 1] = 1 /\ p[Len(sent) + 1] <= Len(bytes) + 1
    /\ \A i \in r + 1..Len(sent) : /\ p[i + 1] = p[i] + Len(Frame(sent[i]))
                                   /\ At(bytes, p[i], Frame(sent[i]))

\* Behind them there is nothing, or the beginning of a torn frame, or anything.
Trailing(bytes, fs, at) ==
    LET w == Len(SentOf(fs))
    IN \/ Len(fs) > w + 1
       \/ Len(fs) = w /\ at = Len(bytes) + 1
       \/ Len(fs) = w + 1 /\ BreaksOff(bytes, at, fs[w + 1].msg)

LaidOut(bytes, fs, r) ==
    \E p : Marks(bytes, SentOf(fs), r, p) /\ Trailing(bytes, fs, p[Len(SentOf(fs)) + 1])

\* More bytes behind do not move the frames.
LEMMA AtLonger ==
    ASSUME NEW bytes \in Seq(Nat), NEW more \in Seq(Nat), NEW at \in Nat \ {0},
           NEW part \in Seq(Nat), At(bytes, at, part)
    PROVE  At(bytes \o more, at, part)
  <1>1. PICK b \in Seq(Nat) : b = bytes \o more
    BY ConcatProperties
  <1>2. /\ Len(b) = Len(bytes) + Len(more)
        /\ \A i \in 1..Len(bytes) + Len(more) :
              b[i] = IF i <= Len(bytes) THEN bytes[i] ELSE more[i - Len(bytes)]
    BY <1>1, ConcatProperties
  <1>3. Len(bytes) \in Nat /\ Len(more) \in Nat /\ Len(part) \in Nat
    BY LenProperties
  <1>4. at + Len(part) <= Len(bytes) + 1 /\ \A k \in 1..Len(part) : bytes[at + k - 1] = part[k]
    BY DEF At
  <1>5. \A k \in 1..Len(part) : at + k - 1 \in 1..Len(bytes) + Len(more) /\ at + k - 1 <= Len(bytes)
    BY <1>3, <1>4, SMT
  <1>6. \A k \in 1..Len(part) : b[at + k - 1] = part[k]
    BY <1>2, <1>4, <1>5
  <1>7. at + Len(part) <= Len(b) + 1
    BY <1>2, <1>3, <1>4, SMT
  <1>. QED BY <1>1, <1>6, <1>7 DEF At

\* Nor do fewer, if they are enough.
LEMMA AtShorter ==
    ASSUME NEW bytes \in Seq(Nat), NEW buffer \in Seq(Nat), Len(buffer) <= Len(bytes),
           \A i \in 1..Len(buffer) : buffer[i] = bytes[i],
           NEW at \in Nat \ {0}, NEW part \in Seq(Nat), At(bytes, at, part)
    PROVE  at + Len(part) <= Len(buffer) + 1 => At(buffer, at, part)
  <1> SUFFICES ASSUME at + Len(part) <= Len(buffer) + 1
               PROVE  At(buffer, at, part)
    OBVIOUS
  <1>1. Len(bytes) \in Nat /\ Len(buffer) \in Nat /\ Len(part) \in Nat
    BY LenProperties
  <1>2. \A k \in 1..Len(part) : at + k - 1 \in 1..Len(buffer)
    BY <1>1, SMT
  <1>3. \A k \in 1..Len(part) : bytes[at + k - 1] = part[k]
    BY DEF At
  <1>. QED BY <1>2, <1>3 DEF At

\* The lengths when k of a frame's n bytes are put behind y bytes and make z.
PutBehind(y, n, k, z) ==
    /\ z + 1 \in Nat \ {0}
    /\ \A x \in Nat \ {0} : x <= y + 1 => x <= z + 1
    /\ \A i \in 1..k : /\ y + 1 + i - 1 \in 1..y + k /\ ~(y + 1 + i - 1 <= y)
                      /\ y + 1 + i - 1 - y = i
    /\ k = n => z + 1 = (y + 1) + n /\ (y + 1) + n <= z + 1
    /\ k # n => y + 1 <= z + 1 /\ z + 1 < y + 1 + n /\ z + 1 - (y + 1) = k

LEMMA SendLengths ==
    ASSUME NEW y \in Nat, NEW n \in Nat, NEW k \in 1..n, NEW z, z = y + k
    PROVE  PutBehind(y, n, k, z)
  BY DEF PutBehind

\* One more frame is sent, whole or in part.
LEMMA LaidOutSend ==
    ASSUME NEW bytes \in Seq(Nat), NEW fs \in Seq(SentFrame), NEW r \in Nat,
           r <= Len(SentOf(fs)), LaidOut(bytes, fs, r),
           NEW msg \in Messages, NEW k \in 1..Len(Frame(msg))
    PROVE  LaidOut(bytes \o SubSeq(Frame(msg), 1, k),
                   Append(fs, [msg |-> msg, isWhole |-> k = Len(Frame(msg))]), r)
  <1>1. PICK e \in SentFrame : /\ e = [msg |-> msg, isWhole |-> k = Len(Frame(msg))]
                               /\ e.msg = msg /\ (e.isWhole <=> k = Len(Frame(msg)))
    <2>1. PICK flag \in BOOLEAN : flag = (k = Len(Frame(msg)))
      OBVIOUS
    <2>2. [msg |-> msg, isWhole |-> flag] \in SentFrame
      BY DEF SentFrame
    <2>. QED BY <2>1, <2>2
  <1>2. PICK gs \in Seq(SentFrame) : gs = Append(fs, e)
    BY SentOfAppend
  <1>3. PICK sent \in Seq(Messages) : sent = SentOf(fs)
    BY SentOfIs
  <1>4. PICK w \in Nat : w = Len(sent)
    BY LenProperties
  <1>5. /\ Len(gs) = Len(fs) + 1 /\ gs[Len(fs) + 1] = e /\ \A i \in 1..Len(fs) : gs[i] = fs[i]
        /\ SentOf(gs) = IF w = Len(fs) /\ e.isWhole THEN Append(sent, msg) ELSE sent
        /\ w \in 0..Len(fs) /\ Len(fs) \in Nat
    BY <1>1, <1>2, <1>3, <1>4, SentOfAppend, SentOfIs, LenProperties
  <1>6. PICK fr \in Seq(Nat) : fr = Frame(msg)
    BY FrameBytes
  <1>7. Len(fr) \in Nat /\ k \in 1..Len(fr) /\ k \in Nat
    BY <1>6, LenProperties
  <1>8. PICK more \in Seq(Nat) : more = SubSeq(fr, 1, k)
    <2>1. \A i \in 1..k : i \in 1..Len(fr)
      BY <1>7, SMT
    <2>2. \A i \in 1..k : fr[i] \in Nat
      BY <2>1, ElementOfSeq
    <2>3. SubSeq(fr, 1, k) \in Seq(Nat)
      BY <1>7, <2>2, SubSeqProperties
    <2>. QED BY <2>3
  <1>9. Len(more) = k /\ \A i \in 1..k : more[i] = fr[i]
    <2>1. \A i \in 1..k : i \in 1..Len(fr)
      BY <1>7, SMT
    <2>2. \A i \in 1..k : fr[i] \in Nat
      BY <2>1, ElementOfSeq
    <2>3. 1 \in Int /\ k \in Int /\ 1 <= k /\ k - 1 + 1 = k /\ \A i \in 1..k : 1 + i - 1 = i
      BY <1>7, SMT
    <2>. QED BY <1>8, <2>2, <2>3, SubSeqProperties
  <1>10. PICK b \in Seq(Nat) : b = bytes \o more
    BY ConcatProperties
  <1>11. /\ Len(b) = Len(bytes) + k /\ Len(bytes) \in Nat
         /\ \A i \in 1..Len(bytes) + k : b[i] = IF i <= Len(bytes) THEN bytes[i] ELSE more[i - Len(bytes)]
    <2>1. Len(more) = k
      BY <1>9
    <2>2. Len(b) = Len(bytes) + Len(more)
      BY <1>10, ConcatProperties
    <2>3. \A i \in 1..Len(bytes) + Len(more) :
             b[i] = IF i <= Len(bytes) THEN bytes[i] ELSE more[i - Len(bytes)]
      BY <1>10, ConcatProperties
    <2>4. Len(bytes) \in Nat
      BY LenProperties
    <2>. QED BY <2>1, <2>2, <2>3, <2>4, Zenon
  <1>lens. PutBehind(Len(bytes), Len(fr), k, Len(b))
    <2>1. /\ Len(b) = Len(bytes) + k /\ Len(bytes) \in Nat
          /\ Len(fr) \in Nat /\ k \in 1..Len(fr)
      BY <1>7, <1>11, Zenon
    <2>. QED BY <2>1, SendLengths, ZenonT(30)
  <1>12. SUFFICES LaidOut(b, gs, r)
    BY <1>1, <1>2, <1>6, <1>8, <1>10
  <1>13. PICK p : Marks(bytes, sent, r, p) /\ Trailing(bytes, fs, p[w + 1])
    BY <1>3, <1>4 DEF LaidOut
  <1>14. /\ p \in [r + 1..w + 1 -> Nat \ {0}] /\ r <= w /\ w + 1 \in r + 1..w + 1
         /\ p[w + 1] \in Nat \ {0}
         /\ p[r + 1] = 1 /\ p[w + 1] <= Len(bytes) + 1
    <2>1. r <= w /\ w + 1 \in r + 1..w + 1
      BY <1>3, <1>4, SMT
    <2>2. p \in [r + 1..w + 1 -> Nat \ {0}] /\ p[r + 1] = 1 /\ p[w + 1] <= Len(bytes) + 1
      BY <1>4, <1>13 DEF Marks
    <2>. QED BY <2>1, <2>2
  <1>15. ASSUME NEW i \in r + 1..w
         PROVE  /\ p[i] \in Nat \ {0} /\ p[i + 1] = p[i] + Len(Frame(sent[i]))
                /\ At(b, p[i], Frame(sent[i]))
    <2>1. i \in r + 1..w + 1 /\ i \in 1..Len(sent)
      BY <1>4, SMT
    <2>2. p[i] \in Nat \ {0}
      BY <1>14, <2>1
    <2>3. p[i + 1] = p[i] + Len(Frame(sent[i])) /\ At(bytes, p[i], Frame(sent[i]))
      BY <1>4, <1>13 DEF Marks
    <2>4. Frame(sent[i]) \in Seq(Nat)
      BY <2>1, ElementOfSeq, FrameBytes
    <2>. QED BY <1>10, <2>2, <2>3, <2>4, AtLonger
  <1>16. p[w + 1] <= Len(b) + 1
    <2>1. p[w + 1] \in Nat \ {0} /\ p[w + 1] <= Len(bytes) + 1
      BY <1>14
    <2>. QED BY <1>lens, <2>1, ZenonT(30) DEF PutBehind
  <1>17. CASE w # Len(fs)
    <2>1. SentOf(gs) = sent /\ Len(gs) > w + 1
      BY <1>5, <1>17, SMT
    <2>2. Marks(b, sent, r, p)
      BY <1>4, <1>14, <1>15, <1>16 DEF Marks
    <2>3. Trailing(b, gs, p[w + 1])
      BY <1>4, <2>1 DEF Trailing
    <2>. QED BY <1>4, <2>1, <2>2, <2>3 DEF LaidOut
  <1>18. CASE w = Len(fs)
    <2>1. p[w + 1] = Len(bytes) + 1
      <3>1. Len(SentOf(fs)) = w /\ ~(Len(fs) > w + 1) /\ ~(Len(fs) = w + 1)
        BY <1>3, <1>4, <1>18, SMT
      <3>. QED BY <1>13, <3>1 DEF Trailing
    <2>2. \A i \in 1..k : Len(bytes) + 1 + i - 1 \in 1..Len(bytes) + k
                          /\ ~(Len(bytes) + 1 + i - 1 <= Len(bytes))
                          /\ Len(bytes) + 1 + i - 1 - Len(bytes) = i
      BY <1>lens, ZenonT(30) DEF PutBehind
    <2>3. ASSUME NEW i \in 1..k
          PROVE  b[Len(bytes) + 1 + i - 1] = fr[i]
      <3>1. PICK x : x = Len(bytes) + 1 + i - 1
        OBVIOUS
      <3>2. x \in 1..Len(bytes) + k /\ ~(x <= Len(bytes)) /\ x - Len(bytes) = i
        BY <2>2, <3>1
      <3>3. b[x] = more[i]
        BY <1>11, <3>2
      <3>. QED BY <1>9, <3>1, <3>3
    <2>4. CASE k = Len(fr)
      <3>1. e.isWhole /\ SentOf(gs) = Append(sent, msg)
        <4>1. e.isWhole
          BY <1>1, <1>6, <2>4
        <4>. QED BY <1>5, <1>18, <4>1
      <3>2. PICK s \in Seq(Messages) : s = Append(sent, msg)
        BY AppendProperties
      <3>3. Len(s) = w + 1 /\ s[w + 1] = msg /\ \A i \in 1..w : s[i] = sent[i]
        BY <1>4, <3>2, AppendProperties
      <3> DEFINE g == [i \in r + 1..w + 2 |-> IF i = w + 2 THEN Len(b) + 1 ELSE p[i]]
      <3>4. /\ \A i \in r + 1..w + 2 : i = w + 2 \/ i \in r + 1..w + 1
            /\ \A i \in r + 1..w + 1 : i # w + 2 /\ i \in r + 1..w + 2 /\ (i = w + 1 \/ i \in r + 1..w)
            /\ \A i \in r + 1..w : i + 1 \in r + 1..w + 1
            /\ w + 2 \in r + 1..w + 2 /\ r + 1 \in r + 1..w + 1 /\ (w + 1) + 1 = w + 2
            /\ \A i \in r + 1..w : i \in 1..w
        BY <1>14, SMT
      <3>5. /\ g[w + 2] = Len(b) + 1 /\ \A i \in r + 1..w + 1 : g[i] = p[i]
        BY <3>4
      <3>6. Len(b) + 1 \in Nat \ {0}
        BY <1>lens, ZenonT(30) DEF PutBehind
      <3>7. g \in [r + 1..(w + 1) + 1 -> Nat \ {0}]
        BY <1>14, <3>4, <3>6
      <3> HIDE DEF g
      <3>8. At(b, Len(bytes) + 1, fr) /\ Len(b) + 1 = (Len(bytes) + 1) + Len(fr)
        <4>1. Len(b) + 1 = (Len(bytes) + 1) + Len(fr)
          BY <1>lens, <2>4, ZenonT(30) DEF PutBehind
        <4>2. \A i \in 1..Len(fr) : b[Len(bytes) + 1 + i - 1] = fr[i]
          BY <2>3, <2>4
        <4>3. (Len(bytes) + 1) + Len(fr) <= Len(b) + 1
          BY <1>lens, <2>4, ZenonT(30) DEF PutBehind
        <4>. QED BY <4>1, <4>2, <4>3 DEF At
      <3>9. ASSUME NEW i \in r + 1..w + 1
            PROVE  g[i + 1] = g[i] + Len(Frame(s[i])) /\ At(b, g[i], Frame(s[i]))
        <4>1. CASE i = w + 1
          BY <1>6, <2>1, <3>3, <3>4, <3>5, <3>8, <4>1
        <4>2. CASE i # w + 1
          <5>1. i \in r + 1..w /\ i \in 1..w /\ i + 1 \in r + 1..w + 1
            BY <3>4, <4>2
          <5>. QED BY <1>15, <3>3, <3>5, <5>1
        <4>. QED BY <4>1, <4>2
      <3>10. g[r + 1] = 1 /\ g[(w + 1) + 1] <= Len(b) + 1
        <4>1. g[r + 1] = p[r + 1]
          BY <3>4, <3>5
        <4>2. p[r + 1] = 1
          BY <1>14
        <4>3. g[(w + 1) + 1] = Len(b) + 1
          BY <3>4, <3>5
        <4>4. Len(b) + 1 <= Len(b) + 1
          BY <3>6, SMT
        <4>. QED BY <4>1, <4>2, <4>3, <4>4
      <3>11. Marks(b, s, r, g)
        BY <3>3, <3>7, <3>9, <3>10 DEF Marks
      <3>12. Trailing(b, gs, g[Len(s) + 1])
        BY <1>5, <1>18, <3>1, <3>2, <3>3, <3>4, <3>5 DEF Trailing
      <3>. QED BY <3>1, <3>2, <3>11, <3>12 DEF LaidOut
    <2>5. CASE k # Len(fr)
      <3>1. ~e.isWhole /\ SentOf(gs) = sent
        <4>1. ~e.isWhole
          BY <1>1, <1>6, <2>5
        <4>. QED BY <1>5, <4>1
      <3>2. Marks(b, sent, r, p)
        BY <1>4, <1>14, <1>15, <1>16 DEF Marks
      <3>3. /\ Len(bytes) + 1 <= Len(b) + 1 /\ Len(b) + 1 < Len(bytes) + 1 + Len(fr)
            /\ Len(b) + 1 - (Len(bytes) + 1) = k
        BY <1>lens, <2>5, ZenonT(30) DEF PutBehind
      <3>4. BreaksOff(b, Len(bytes) + 1, msg)
        BY <1>6, <2>3, <3>3 DEF BreaksOff
      <3>5. gs[w + 1].msg = msg /\ Len(gs) = w + 1
        BY <1>1, <1>5, <1>18
      <3>6. Trailing(b, gs, p[w + 1])
        BY <1>4, <2>1, <3>1, <3>4, <3>5 DEF Trailing
      <3>. QED BY <1>4, <3>1, <3>2, <3>6 DEF LaidOut
    <2>. QED BY <2>4, <2>5
  <1>. QED BY <1>17, <1>18

LEMMA MarksGrow ==
    ASSUME NEW sent \in Seq(Messages), NEW r \in Nat, r <= Len(sent), NEW bytes,
           NEW p, Marks(bytes, sent, r, p), NEW q \in r..Len(sent)
    PROVE  \A i \in q + 1..Len(sent) + 1 : p[q + 1] <= p[i]
  <1> DEFINE w == Len(sent)
             bad == {i \in q + 1..w + 1 : ~(p[q + 1] <= p[i])}
  <1>1. w \in Nat /\ w = Len(sent)
    BY LenProperties
  <1> HIDE DEF w
  <1>2. /\ p \in [r + 1..w + 1 -> Nat \ {0}]
        /\ \A i \in r + 1..w : p[i + 1] = p[i] + Len(Frame(sent[i]))
    BY <1>1 DEF Marks
  <1>3. SUFFICES ASSUME bad # {}
                 PROVE  FALSE
    BY <1>1
  <1>4. PICK k \in bad : \A l \in bad : k <= l
    <2>1. bad \subseteq Nat
      BY <1>1, SMT
    <2> HIDE DEF bad
    <2>. QED BY <1>3, <2>1, LeastNumber
  <1>5. k \in q + 1..w + 1 /\ ~(p[q + 1] <= p[k])
    OBVIOUS
  <1>6. /\ k \in r + 1..w + 1 /\ q + 1 \in r + 1..w + 1
    BY <1>1, <1>5, SMT
  <1>7. p[k] \in Nat /\ p[q + 1] \in Nat
    BY <1>2, <1>6
  <1>8. k # q + 1
    BY <1>5, <1>7, SMT
  <1>9. /\ k - 1 \in q + 1..w + 1 /\ k - 1 \in r + 1..w /\ ~(k <= k - 1) /\ k - 1 + 1 = k
        /\ k - 1 \in 1..w /\ k - 1 \in r + 1..w + 1
    BY <1>1, <1>5, <1>8, SMT
  <1>10. p[q + 1] <= p[k - 1]
    <2>1. k - 1 \notin bad
      <3> HIDE DEF bad
      <3>. QED BY <1>4, <1>9, Zenon
    <2>. QED BY <1>9, <2>1
  <1>11. PICK n \in Nat : n = Len(Frame(sent[k - 1]))
    BY <1>1, <1>9, ElementOfSeq, FrameBytes, LenProperties
  <1>12. p[k] = p[k - 1] + n /\ p[k - 1] \in Nat
    BY <1>2, <1>9, <1>11
  <1>. QED BY <1>5, <1>7, <1>10, <1>12, SMT

\* One byte string is another one from a position on.
RestOf(c, b, at) ==
    /\ Len(c) = Len(b) - at + 1
    /\ \A k \in 1..Len(c) : c[k] = b[at + k - 1]

LEMMA AtBehind ==
    ASSUME NEW b \in Seq(Nat), NEW c \in Seq(Nat), NEW at \in Nat \ {0}, RestOf(c, b, at),
           NEW x \in Nat \ {0}, at <= x, NEW part \in Seq(Nat), At(b, x, part)
    PROVE  At(c, x - at + 1, part)
  <1>1. Len(b) \in Nat /\ Len(c) \in Nat /\ Len(part) \in Nat
    BY LenProperties
  <1>2. Len(c) = Len(b) - at + 1 /\ \A k \in 1..Len(c) : c[k] = b[at + k - 1]
    BY DEF RestOf
  <1>3. x + Len(part) <= Len(b) + 1 /\ \A k \in 1..Len(part) : b[x + k - 1] = part[k]
    BY DEF At
  <1>6. Len(c) = Len(b) - at + 1 /\ x + Len(part) <= Len(b) + 1
    BY <1>2, <1>3
  <1>4. x - at + 1 + Len(part) <= Len(c) + 1
    BY <1>1, <1>6, SMT
  <1>5. ASSUME NEW k \in 1..Len(part)
        PROVE  c[x - at + 1 + k - 1] = part[k]
    <2>1. PICK j : j = x - at + 1 + k - 1
      OBVIOUS
    <2>2. j \in 1..Len(c) /\ at + j - 1 = x + k - 1
      BY <1>1, <1>6, <2>1, SMT
    <2>3. c[j] = b[x + k - 1]
      BY <1>2, <2>2
    <2>. QED BY <1>3, <2>1, <2>3
  <1>. QED BY <1>4, <1>5 DEF At

LEMMA BreaksOffBehind ==
    ASSUME NEW b \in Seq(Nat), NEW c \in Seq(Nat), NEW at \in Nat \ {0}, RestOf(c, b, at),
           NEW x \in Nat \ {0}, at <= x, NEW msg \in Messages, BreaksOff(b, x, msg)
    PROVE  BreaksOff(c, x - at + 1, msg)
  <1>1. PICK fr \in Seq(Nat) : fr = Frame(msg)
    BY FrameBytes
  <1>2. Len(b) \in Nat /\ Len(c) \in Nat /\ Len(fr) \in Nat
    BY LenProperties
  <1>3. Len(c) = Len(b) - at + 1 /\ \A k \in 1..Len(c) : c[k] = b[at + k - 1]
    BY DEF RestOf
  <1>4. /\ x <= Len(b) + 1 /\ Len(b) + 1 < x + Len(fr)
        /\ \A k \in 1..Len(b) + 1 - x : b[x + k - 1] = fr[k]
    BY <1>1 DEF BreaksOff
  <1>7. Len(c) = Len(b) - at + 1 /\ x <= Len(b) + 1 /\ Len(b) + 1 < x + Len(fr)
    BY <1>3, <1>4
  <1>5. x - at + 1 <= Len(c) + 1 /\ Len(c) + 1 < x - at + 1 + Len(fr)
    BY <1>2, <1>7, SMT
  <1>6. ASSUME NEW k \in 1..Len(c) + 1 - (x - at + 1)
        PROVE  c[x - at + 1 + k - 1] = fr[k]
    <2>1. PICK j : j = x - at + 1 + k - 1
      OBVIOUS
    <2>2. j \in 1..Len(c) /\ at + j - 1 = x + k - 1 /\ k \in 1..Len(b) + 1 - x
      BY <1>2, <1>7, <2>1, SMT
    <2>3. c[j] = b[x + k - 1]
      BY <1>3, <2>2
    <2>. QED BY <1>4, <2>1, <2>2, <2>3
  <1>. QED BY <1>1, <1>5, <1>6 DEF BreaksOff

\* Cutting frames off leaves the others where they are.
LEMMA LaidOutBehind ==
    ASSUME NEW fs \in Seq(SentFrame), NEW r \in Nat, r <= Len(SentOf(fs)),
           NEW q \in r..Len(SentOf(fs)),
           NEW b \in Seq(Nat), NEW c \in Seq(Nat),
           NEW p, Marks(b, SentOf(fs), r, p), Trailing(b, fs, p[Len(SentOf(fs)) + 1]),
           RestOf(c, b, p[q + 1])
    PROVE  LaidOut(c, fs, q)
  <1>1. PICK sent \in Seq(Messages) : sent = SentOf(fs)
    BY SentOfIs
  <1>2. PICK w \in Nat : w = Len(sent)
    BY LenProperties
  <1>3. /\ p \in [r + 1..w + 1 -> Nat \ {0}] /\ p[w + 1] <= Len(b) + 1
        /\ \A i \in r + 1..w : /\ p[i + 1] = p[i] + Len(Frame(sent[i]))
                               /\ At(b, p[i], Frame(sent[i]))
    BY <1>1, <1>2 DEF Marks
  <1>4. /\ q + 1 \in r + 1..w + 1 /\ w + 1 \in r + 1..w + 1 /\ q \in Nat /\ r <= w
        /\ w + 1 \in q + 1..w + 1 /\ q + 1 \in q + 1..w + 1
        /\ \A i \in q + 1..w + 1 : i \in r + 1..w + 1
        /\ \A i \in q + 1..w : i \in r + 1..w /\ i + 1 \in q + 1..w + 1 /\ i \in q + 1..w + 1
                               /\ i \in 1..w
    BY <1>1, <1>2, SMT
  <1>5. PICK at \in Nat \ {0} : at = p[q + 1]
    BY <1>3, <1>4
  <1>6. \A i \in q + 1..w + 1 : p[i] \in Nat \ {0} /\ at <= p[i]
    BY <1>1, <1>2, <1>3, <1>4, <1>5, MarksGrow
  <1>7. RestOf(c, b, at) /\ Len(c) = Len(b) - at + 1 /\ Len(b) \in Nat /\ Len(c) \in Nat
    BY <1>5, LenProperties DEF RestOf
  <1> DEFINE g == [i \in q + 1..w + 1 |-> p[i] - at + 1]
  <1>8. \A i \in q + 1..w + 1 : g[i] = p[i] - at + 1 /\ g[i] \in Nat \ {0}
    <2>1. \A x \in Nat \ {0} : at <= x => x - at + 1 \in Nat \ {0}
      BY SMT
    <2>. QED BY <1>6, <2>1
  <1>9. g \in [q + 1..w + 1 -> Nat \ {0}]
    BY <1>8
  <1> HIDE DEF g
  <1>10. g[q + 1] = 1 /\ g[w + 1] <= Len(c) + 1
    <2>1. g[q + 1] = at - at + 1 /\ g[w + 1] = p[w + 1] - at + 1 /\ p[w + 1] \in Nat
      BY <1>4, <1>5, <1>6, <1>8
    <2>2. p[w + 1] <= Len(b) + 1
      BY <1>3
    <2>3. Len(c) = Len(b) - at + 1 /\ Len(b) \in Nat /\ Len(c) \in Nat
      BY <1>7
    <2>. QED BY <2>1, <2>2, <2>3, SMT
  <1>11. ASSUME NEW i \in q + 1..w
         PROVE  g[i + 1] = g[i] + Len(Frame(sent[i])) /\ At(c, g[i], Frame(sent[i]))
    <2>1. PICK fr \in Seq(Nat) : fr = Frame(sent[i])
      BY <1>2, <1>4, ElementOfSeq, FrameBytes
    <2>2. PICK x \in Nat \ {0} : x = p[i] /\ at <= x /\ g[i] = x - at + 1
      BY <1>4, <1>6, <1>8
    <2>3. p[i + 1] = x + Len(fr) /\ g[i + 1] = p[i + 1] - at + 1 /\ At(b, x, fr)
      BY <1>3, <1>4, <1>8, <2>1, <2>2
    <2>4. At(c, x - at + 1, fr)
      BY <1>7, <2>2, <2>3, AtBehind
    <2>5. Len(fr) \in Nat
      BY LenProperties
    <2>6. x + Len(fr) - at + 1 = x - at + 1 + Len(fr)
      BY <2>5, SMT
    <2>. QED BY <2>1, <2>2, <2>3, <2>4, <2>6
  <1>12. Marks(c, sent, q, g)
    BY <1>2, <1>9, <1>10, <1>11 DEF Marks
  <1>13. PICK x \in Nat \ {0} : x = p[w + 1] /\ at <= x /\ g[w + 1] = x - at + 1
    BY <1>4, <1>6, <1>8
  <1>14. Trailing(b, fs, x) /\ Len(SentOf(fs)) = w
    BY <1>1, <1>2, <1>13
  <1>15. Trailing(c, fs, x - at + 1)
    <2>1. CASE Len(fs) > w + 1
      BY <1>14, <2>1 DEF Trailing
    <2>2. CASE Len(fs) = w /\ x = Len(b) + 1
      <3>1. x - at + 1 = Len(c) + 1
        BY <1>7, <2>2, SMT
      <3>. QED BY <1>14, <2>2, <3>1 DEF Trailing
    <2>3. CASE Len(fs) = w + 1 /\ BreaksOff(b, x, fs[w + 1].msg)
      <3>1. w + 1 \in 1..Len(fs)
        BY <2>3, SMT
      <3>2. fs[w + 1] \in SentFrame
        BY <3>1, ElementOfSeq
      <3>3. fs[w + 1].msg \in Messages
        BY <3>2 DEF SentFrame
      <3>4. BreaksOff(c, x - at + 1, fs[w + 1].msg)
        BY <1>7, <1>13, <2>3, <3>3, BreaksOffBehind
      <3>. QED BY <1>14, <2>3, <3>4 DEF Trailing
    <2>. QED BY <1>14, <2>1, <2>2, <2>3 DEF Trailing
  <1>. QED BY <1>1, <1>2, <1>12, <1>13, <1>15 DEF LaidOut

TooBigSent(fs) == \E i \in 1..Len(fs) : Len(Serialise(fs[i].msg)) > MaxMessageSize

\* Cutting stops at a position where the frame is not there yet, or too big.
Stops(buffer, fs, at) ==
    /\ IsTooBig(buffer, at) \/ ~HasFrame(buffer, at)
    /\ IsTooBig(buffer, at) => TooBigSent(fs)

\* The frames of the messages up to number q are cut, and no others, unless the stream
\* behind the last message is garbled.
CutUpTo(f, buffer, fs, r, p, q) ==
    LET sent == SentOf(fs)
        at == p[q + 1]
    IN /\ at \in 1..Len(buffer) + 1
       /\ f[1].rest = f[at].rest
       /\ Len(f[1].frames) = (q - r) + Len(f[at].frames)
       /\ \A i \in r + 1..q : f[1].frames[i - r] = Serialise(sent[i])
       /\ \/ Stops(buffer, fs, at)
          \/ q = Len(sent) /\ Len(fs) > Len(sent) + 1

LEMMA SentIsFrame ==
    ASSUME NEW fs \in Seq(SentFrame), NEW i \in 1..Len(SentOf(fs)),
           Len(Serialise(SentOf(fs)[i])) > MaxMessageSize
    PROVE  TooBigSent(fs)
  <1>1. i \in 1..Len(fs)
    BY SentOfIs, LenProperties, SMT
  <1>2. SentOf(fs)[i] = fs[i].msg
    BY SentOfIs
  <1>. QED BY <1>1, <1>2 DEF TooBigSent

LEMMA InsideBoth ==
    ASSUME NEW at \in Nat \ {0}, NEW m \in Nat, NEW n \in Nat, m + 1 - at <= n
    PROVE  \A k \in 1..m + 1 - at : k \in 1..n /\ at + k - 1 \in 1..m
  BY SMT

LEMMA TrailingStops ==
    ASSUME NEW fs \in Seq(SentFrame), NEW b \in Seq(Nat), NEW buffer \in Seq(Nat),
           Len(buffer) <= Len(b), \A i \in 1..Len(buffer) : buffer[i] = b[i],
           NEW at \in 1..Len(buffer) + 1, Trailing(b, fs, at)
    PROVE  Stops(buffer, fs, at) \/ Len(fs) > Len(SentOf(fs)) + 1
  <1>1. PICK w \in Nat : w = Len(SentOf(fs))
    BY SentOfIs, LenProperties
  <1>2. Len(b) \in Nat /\ Len(buffer) \in Nat
    BY LenProperties
  <1>3. CASE at = Len(b) + 1
    <2>1. ~(Len(buffer) - at + 1 >= 2)
      BY <1>2, <1>3, SMT
    <2>2. ~HasLength(buffer, at)
      BY <2>1 DEF HasLength, BytesFrom, LENGTH_SIZE
    <2>. QED BY <2>2 DEF Stops, HasFrame, IsTooBig
  <1>4. CASE Len(fs) = w + 1 /\ BreaksOff(b, at, fs[w + 1].msg)
    <2>1. w + 1 \in 1..Len(fs)
      BY <1>4, SMT
    <2>2. fs[w + 1] \in SentFrame
      BY <2>1, ElementOfSeq
    <2>3. PICK msg \in Messages : msg = fs[w + 1].msg
      BY <2>2 DEF SentFrame
    <2>4. PICK n \in Nat : n = Len(Frame(msg))
      BY FrameBytes, LenProperties
    <2>5. /\ Len(b) + 1 < at + n
          /\ \A k \in 1..Len(b) + 1 - at : b[at + k - 1] = Frame(msg)[k]
      BY <1>4, <2>3, <2>4 DEF BreaksOff
    <2>6. at <= Len(buffer) + 1 /\ Len(buffer) + 1 < at + n
      BY <1>2, <2>5, SMT
    <2>7. \A k \in 1..Len(buffer) + 1 - at : k \in 1..Len(b) + 1 - at /\ at + k - 1 \in 1..Len(buffer)
      <3>1. /\ at \in Nat \ {0} /\ Len(b) + 1 - at \in Nat
            /\ Len(buffer) + 1 - at <= Len(b) + 1 - at
        BY <1>2, SMT
      <3>. QED BY <1>2, <3>1, InsideBoth
    <2>8. \A k \in 1..Len(buffer) + 1 - at : buffer[at + k - 1] = Frame(msg)[k]
      BY <2>5, <2>7
    <2>9. BreaksOff(buffer, at, msg)
      BY <2>4, <2>6, <2>8 DEF BreaksOff
    <2>10. at \in Nat \ {0}
      BY <1>2, SMT
    <2>11. ~HasFrame(buffer, at) /\ (IsTooBig(buffer, at) => Len(Serialise(msg)) > MaxMessageSize)
      BY <2>9, <2>10, NothingToCut
    <2>. QED BY <2>1, <2>3, <2>11 DEF Stops, TooBigSent
  <1>. QED BY <1>1, <1>3, <1>4 DEF Trailing

\* A message whose frame is not all there, or too big, stops the cutting.
LEMMA MessageStops ==
    ASSUME NEW fs \in Seq(SentFrame), NEW b \in Seq(Nat), NEW buffer \in Seq(Nat),
           Len(buffer) <= Len(b), \A i \in 1..Len(buffer) : buffer[i] = b[i],
           NEW at \in 1..Len(buffer) + 1, NEW i \in 1..Len(SentOf(fs)),
           At(b, at, Frame(SentOf(fs)[i])),
           \/ ~(at + Len(Frame(SentOf(fs)[i])) <= Len(buffer) + 1)
           \/ Len(Serialise(SentOf(fs)[i])) > MaxMessageSize
    PROVE  Stops(buffer, fs, at)
  <1>1. Len(b) \in Nat /\ Len(buffer) \in Nat /\ at \in Nat \ {0}
    BY LenProperties, SMT
  <1>2. PICK msg \in Messages : msg = SentOf(fs)[i]
    BY SentOfIs, ElementOfSeq
  <1>3. PICK fr \in Seq(Nat) : fr = Frame(msg)
    BY FrameBytes
  <1>4. Len(fr) \in Nat
    BY LenProperties
  <1>5. CASE at + Len(fr) <= Len(buffer) + 1
    <2>1. At(buffer, at, fr)
      BY <1>1, <1>2, <1>3, <1>5, AtShorter
    <2>2. Len(Serialise(msg)) > MaxMessageSize
      BY <1>2, <1>3, <1>5
    <2>3. IsTooBig(buffer, at)
      BY <1>1, <1>3, <2>1, <2>2, WholeFrame
    <2>. QED BY <1>2, <2>2, <2>3, SentIsFrame DEF Stops
  <1>6. CASE ~(at + Len(fr) <= Len(buffer) + 1)
    <2>1. at <= Len(buffer) + 1 /\ Len(buffer) + 1 < at + Len(fr)
      BY <1>1, <1>4, <1>6, SMT
    <2>2. \A k \in 1..Len(fr) : b[at + k - 1] = fr[k]
      BY <1>2, <1>3 DEF At
    <2>3. \A k \in 1..Len(buffer) + 1 - at : k \in 1..Len(fr) /\ at + k - 1 \in 1..Len(buffer)
      <3>1. Len(buffer) + 1 - at <= Len(fr)
        BY <1>1, <1>4, <2>1, SMT
      <3>. QED BY <1>1, <1>4, <3>1, InsideBoth
    <2>4. \A k \in 1..Len(buffer) + 1 - at : buffer[at + k - 1] = fr[k]
      BY <2>2, <2>3
    <2>5. BreaksOff(buffer, at, msg)
      BY <1>3, <2>1, <2>4 DEF BreaksOff
    <2>6. ~HasFrame(buffer, at) /\ (IsTooBig(buffer, at) => Len(Serialise(msg)) > MaxMessageSize)
      BY <1>1, <2>5, NothingToCut
    <2>. QED BY <1>2, <2>6, SentIsFrame DEF Stops
  <1>. QED BY <1>5, <1>6

LEMMA CutSome ==
    ASSUME NEW fs \in Seq(SentFrame), NEW r \in Nat, r <= Len(SentOf(fs)),
           NEW b \in Seq(Nat), NEW buffer \in Seq(Nat),
           Len(buffer) <= Len(b), \A i \in 1..Len(buffer) : buffer[i] = b[i],
           NEW p, Marks(b, SentOf(fs), r, p), Trailing(b, fs, p[Len(SentOf(fs)) + 1]),
           NEW f, IsCut(f, buffer, 1)
    PROVE  \E q \in r..Len(SentOf(fs)) : CutUpTo(f, buffer, fs, r, p, q)
  <1>1. PICK sent \in Seq(Messages) : sent = SentOf(fs)
    BY SentOfIs
  <1>2. PICK w \in Nat : w = Len(sent)
    BY LenProperties
  <1>3. r <= w /\ Len(SentOf(fs)) = w /\ Len(buffer) \in Nat /\ Len(b) \in Nat
    BY <1>1, <1>2, LenProperties
  <1>4. /\ p \in [r + 1..w + 1 -> Nat \ {0}] /\ p[r + 1] = 1
        /\ \A i \in r + 1..w : /\ p[i + 1] = p[i] + Len(Frame(sent[i]))
                               /\ At(b, p[i], Frame(sent[i]))
    BY <1>1, <1>2 DEF Marks
  <1> DEFINE stops == {i \in r + 1..w : \/ ~(p[i + 1] <= Len(buffer) + 1)
                                        \/ Len(Serialise(sent[i])) > MaxMessageSize}
  <1>5. PICK q \in r..w : /\ q = w \/ q + 1 \in stops
                          /\ \A i \in r + 1..q : i \notin stops
    <2>1. CASE stops = {}
      <3>1. w \in r..w
        BY <1>3, SMT
      <3> HIDE DEF stops
      <3>. QED BY <2>1, <3>1
    <2>2. CASE stops # {}
      <3>1. stops \subseteq r + 1..w /\ stops \subseteq Nat
        BY SMT
      <3> HIDE DEF stops
      <3>2. PICK k \in stops : \A l \in stops : k <= l
        BY <2>2, <3>1, LeastNumber
      <3>3. k - 1 \in r..w /\ k - 1 + 1 = k /\ \A i \in r + 1..k - 1 : ~(k <= i)
        BY <1>3, <3>1, SMT
      <3>4. \A i \in r + 1..k - 1 : i \notin stops
        BY <3>2, <3>3
      <3>. QED BY <3>2, <3>3, <3>4
    <2>. QED BY <2>1, <2>2
  <1>6. \A i \in r + 1..q : i \in r + 1..w /\ i \in 1..w /\ i \in r + 1..w + 1
    BY <1>3, SMT
  <1>7. ASSUME NEW i \in r + 1..q
        PROVE  /\ p[i + 1] = p[i] + Len(Frame(sent[i])) /\ At(buffer, p[i], Frame(sent[i]))
               /\ Len(Serialise(sent[i])) <= MaxMessageSize
    <2>1. PICK msg \in Messages : msg = sent[i]
      BY <1>2, <1>6, ElementOfSeq
    <2>2. PICK fr \in Seq(Nat) : fr = Frame(msg)
      BY FrameBytes
    <2>3. p[i] \in Nat \ {0} /\ p[i + 1] = p[i] + Len(fr) /\ At(b, p[i], fr)
      BY <1>4, <1>6, <2>1, <2>2
    <2>4. p[i + 1] <= Len(buffer) + 1 /\ ~(Len(Serialise(msg)) > MaxMessageSize)
      BY <1>5, <1>6, <2>1
    <2>5. At(buffer, p[i], fr)
      BY <2>3, <2>4, AtShorter
    <2>6. Len(Serialise(msg)) <= MaxMessageSize
      BY <2>4, Encoded, FramingAssumption, SMT
    <2>. QED BY <2>1, <2>2, <2>3, <2>5, <2>6
  <1> HIDE DEF stops
  <1>8. q \in Nat /\ r <= q /\ q <= Len(sent) /\ q + 1 \in r + 1..w + 1 /\ q \in r..w
    BY <1>2, <1>3, SMT
  <1>9. /\ p[q + 1] \in 1..Len(buffer) + 1
        /\ f[1].rest = f[p[q + 1]].rest
        /\ Len(f[1].frames) = (q - r) + Len(f[p[q + 1]].frames)
        /\ \A i \in r + 1..q : f[1].frames[i - r] = Serialise(sent[i])
    <2>1. p \in [r + 1..Len(sent) + 1 -> Nat \ {0}] /\ p[r + 1] = 1
      BY <1>2, <1>4
    <2>2. \A i \in r + 1..q : /\ p[i + 1] = p[i] + Len(Frame(sent[i]))
                               /\ At(buffer, p[i], Frame(sent[i]))
                               /\ Len(Serialise(sent[i])) <= MaxMessageSize
      BY <1>7
    <2>3. AreWhole(buffer, sent, p, r, q)
      BY <2>1, <2>2 DEF AreWhole
    <2>. QED BY <1>8, <2>3, CutMany
  <1>10. PICK at \in 1..Len(buffer) + 1 : at = p[q + 1]
    BY <1>9
  <1>11. Stops(buffer, fs, at) \/ (q = w /\ Len(fs) > w + 1)
    <2>1. CASE q = w
      BY <1>1, <1>2, <1>10, <2>1, TrailingStops
    <2>2. CASE q # w
      <3>1. q + 1 \in stops /\ q + 1 \in r + 1..w /\ q + 1 \in 1..w
        BY <1>3, <1>5, <2>2, SMT
      <3>2. /\ p[(q + 1) + 1] = at + Len(Frame(sent[q + 1]))
            /\ At(b, at, Frame(sent[q + 1]))
        BY <1>4, <1>10, <3>1
      <3>3. \/ ~(at + Len(Frame(sent[q + 1])) <= Len(buffer) + 1)
            \/ Len(Serialise(sent[q + 1])) > MaxMessageSize
        BY <3>1, <3>2 DEF stops
      <3>. QED BY <1>1, <1>3, <3>1, <3>2, <3>3, MessageStops
    <2>. QED BY <2>1, <2>2
  <1>. QED BY <1>1, <1>2, <1>3, <1>8, <1>9, <1>10, <1>11 DEF CutUpTo

-----------------------------------------------------------------------------
(* What becomes of a buffer.                                               *)

Decodable == {Deserialise(bytes) : bytes \in Seq(Nat)}

\* The outcome for a buffer of which the frames g are cut and which goes on at a position.
IsOutcome(out, buffer, g, at) ==
    /\ g \in Seq(Seq(Nat)) /\ at \in 1..Len(buffer) + 1
    /\ IsTooBig(buffer, at) \/ ~HasFrame(buffer, at)
    /\ out.rest = SubSeq(buffer, at, Len(buffer))
    /\ out.fails <=> \/ IsTooBig(buffer, at)
                     \/ \E i \in 1..Len(g) : ~IsExpected(Deserialise(g[i]))
    /\ out.fails => out.messages = << >>
    /\ ~out.fails => /\ out.messages \in Seq(Decodable) /\ Len(out.messages) = Len(g)
                     /\ \A i \in 1..Len(g) : out.messages[i] = Deserialise(g[i])

LEMMA OutcomeIs ==
    ASSUME NEW buffer \in Seq(Nat)
    PROVE  \E f : /\ IsCut(f, buffer, 1)
                  /\ IsOutcome(Outcome(buffer), buffer, f[1].frames, f[1].rest)
  <1>1. PICK f : IsCut(f, buffer, 1) /\ ParseReceivedPacket(buffer) = f[1]
    BY CutUnfolds
  <1>2. 1 \in 1..Len(buffer) + 1
    BY LenProperties
  <1>3. PICK S : S = Seq(Nat)
    OBVIOUS
  <1>4. PICK g \in Seq(S) : g = f[1].frames
    BY <1>1, <1>2, <1>3, CutTyped
  <1>5. PICK at \in 1..Len(buffer) + 1 :
           at = f[1].rest /\ (IsTooBig(buffer, at) \/ ~HasFrame(buffer, at))
    BY <1>1, <1>2, CutTyped
  <1>6. PICK n \in Nat : n = Len(g)
    BY LenProperties
  <1>7. PICK ms : ms = [i \in 1..n |-> Deserialise(g[i])]
    OBVIOUS
  <1>8. PICK D : D = Decodable
    OBVIOUS
  <1>9. ms \in [1..n -> D] /\ \A i \in 1..n : ms[i] = Deserialise(g[i])
    <2>1. \A i \in 1..n : g[i] \in S
      BY <1>6, ElementOfSeq
    <2>2. \A i \in 1..n : Deserialise(g[i]) \in D
      BY <1>3, <1>8, <2>1 DEF Decodable
    <2>. QED BY <1>7, <2>2
  <1>10. ms \in Seq(D) /\ Len(ms) = n
    BY <1>9, SMT
  <1>11. PICK fails \in BOOLEAN : fails <=> \/ IsTooBig(buffer, at)
                                            \/ \E i \in 1..n : ~IsExpected(ms[i])
    <2>1. (IsTooBig(buffer, at) \/ \E i \in 1..n : ~IsExpected(ms[i])) \in BOOLEAN
      OBVIOUS
    <2>. QED BY Zenon
  <1>12. PICK out : out = Outcome(buffer)
    OBVIOUS
  <1>13. out = [messages |-> IF fails THEN << >> ELSE ms,
                rest     |-> SubSeq(buffer, at, Len(buffer)),
                fails    |-> fails]
    <2>1. fails = (IsTooBig(buffer, at) \/ \E i \in 1..n : ~IsExpected(ms[i]))
      BY <1>11, Zenon
    <2>2. ParseReceivedPacket(buffer).frames = g /\ ParseReceivedPacket(buffer).rest = at
      BY <1>1, <1>4, <1>5
    <2>3. ms = [i \in 1..Len(ParseReceivedPacket(buffer).frames) |->
                  Deserialise(ParseReceivedPacket(buffer).frames[i])]
      BY <1>6, <1>7, <2>2
    <2>. QED BY <1>10, <1>12, <2>1, <2>2, <2>3, Zenon DEF Outcome
  <1>14. /\ out.rest = SubSeq(buffer, at, Len(buffer)) /\ out.fails = fails
         /\ out.messages = IF fails THEN << >> ELSE ms
    BY <1>13
  <1>15. out.fails <=> \/ IsTooBig(buffer, at)
                       \/ \E i \in 1..Len(g) : ~IsExpected(Deserialise(g[i]))
    BY <1>6, <1>9, <1>11, <1>14
  <1>16. ~out.fails => out.messages = ms
    BY <1>14
  <1>17. out.fails => out.messages = << >>
    BY <1>14
  <1>18. ~out.fails => /\ out.messages \in Seq(Decodable) /\ Len(out.messages) = Len(g)
                       /\ \A i \in 1..Len(g) : out.messages[i] = Deserialise(g[i])
    BY <1>6, <1>8, <1>9, <1>10, <1>16
  <1>19. IsOutcome(out, buffer, g, at)
    BY <1>3, <1>4, <1>5, <1>14, <1>15, <1>17, <1>18 DEF IsOutcome
  <1>. QED BY <1>1, <1>4, <1>5, <1>12, <1>19

\* The rest of a buffer, and what is still under way behind it.
LEMMA RestBehind ==
    ASSUME NEW buffer \in Seq(Nat), NEW more \in Seq(Nat), NEW at \in 1..Len(buffer) + 1
    PROVE  /\ SubSeq(buffer, at, Len(buffer)) \in Seq(Nat)
           /\ RestOf(SubSeq(buffer, at, Len(buffer)), buffer, at)
           /\ RestOf(SubSeq(buffer, at, Len(buffer)) \o more, buffer \o more, at)
  <1>1. PICK n \in Nat : n = Len(buffer)
    BY LenProperties
  <1>2. PICK k \in Nat : k = Len(more)
    BY LenProperties
  <1>3. PICK c : c = SubSeq(buffer, at, n)
    OBVIOUS
  <1>4. at \in Int /\ n \in Int /\ \A i \in at..n : i \in 1..Len(buffer)
    BY <1>1, SMT
  <1>5. \A i \in at..n : buffer[i] \in Nat
    BY <1>4, ElementOfSeq
  <1>6. c \in Seq(Nat) /\ Len(c) = n - at + 1 /\ \A i \in 1..n - at + 1 : c[i] = buffer[at + i - 1]
    <2>1. n - at + 1 = IF at <= n THEN n - at + 1 ELSE 0
      BY <1>1, SMT
    <2>. QED BY <1>3, <1>4, <1>5, <2>1, SubSeqProperties
  <1>7. RestOf(c, buffer, at)
    BY <1>1, <1>6 DEF RestOf
  <1>8. PICK b \in Seq(Nat) : b = buffer \o more
    BY ConcatProperties
  <1>9. /\ Len(b) = n + k
        /\ \A i \in 1..n + k : b[i] = IF i <= n THEN buffer[i] ELSE more[i - n]
    BY <1>1, <1>2, <1>8, ConcatProperties
  <1>10. PICK d \in Seq(Nat) : d = c \o more
    BY <1>6, ConcatProperties
  <1>11. PICK m \in Nat : m = n - at + 1
    <2>1. n - at + 1 \in Nat
      BY <1>1, SMT
    <2>. QED BY <2>1
  <1>12. /\ Len(d) = m + k
         /\ \A i \in 1..m + k : d[i] = IF i <= m THEN c[i] ELSE more[i - m]
    <2>1. /\ Len(c \o more) = Len(c) + Len(more)
          /\ \A i \in 1..Len(c) + Len(more) :
                (c \o more)[i] = IF i <= Len(c) THEN c[i] ELSE more[i - Len(c)]
      BY <1>6, ConcatProperties
    <2>2. Len(c) = m
      BY <1>6, <1>11
    <2>. QED BY <1>2, <1>10, <2>1, <2>2
  <1>13. Len(d) = Len(b) - at + 1
    BY <1>9, <1>11, <1>12, SMT
  <1>14. ASSUME NEW i \in 1..Len(d)
         PROVE  d[i] = b[at + i - 1]
    <2>1. i \in 1..m + k /\ at + i - 1 \in 1..n + k /\ (at + i - 1 <= n <=> i <= m)
          /\ at + i - 1 - n = i - m /\ (i <= m => i \in 1..m)
      BY <1>1, <1>2, <1>11, <1>12, SMT
    <2>2. CASE i <= m
      <3>1. PICK x : x = at + i - 1
        OBVIOUS
      <3>2. b[x] = buffer[x] /\ d[i] = c[i]
        BY <1>9, <1>12, <2>1, <2>2, <3>1
      <3>3. i \in 1..n - at + 1
        BY <1>11, <2>1, <2>2
      <3>4. c[i] = buffer[x]
        BY <1>6, <3>1, <3>3
      <3>. QED BY <3>1, <3>2, <3>4
    <2>3. CASE ~(i <= m)
      <3>1. PICK x : x = at + i - 1
        OBVIOUS
      <3>2. x \in 1..n + k /\ ~(x <= n) /\ x - n = i - m
        BY <2>1, <2>3, <3>1
      <3>3. b[x] = more[x - n]
        BY <1>9, <3>2
      <3>4. d[i] = more[i - m]
        BY <1>12, <2>1, <2>3
      <3>. QED BY <3>1, <3>2, <3>3, <3>4
    <2>. QED BY <2>2, <2>3
  <1>15. RestOf(d, b, at)
    BY <1>13, <1>14 DEF RestOf
  <1>. QED BY <1>1, <1>3, <1>6, <1>7, <1>8, <1>10, <1>15

\* Nothing can be cut from the rest.
LEMMA RestWaits ==
    ASSUME NEW buffer \in Seq(Nat), NEW at \in 1..Len(buffer) + 1,
           NEW c \in Seq(Nat), RestOf(c, buffer, at)
    PROVE  /\ HasFrame(c, 1) <=> HasFrame(buffer, at)
           /\ IsTooBig(c, 1) <=> IsTooBig(buffer, at)
  <1>1. Len(buffer) \in Nat /\ Len(c) \in Nat
    BY LenProperties
  <1>2. Len(c) = Len(buffer) - at + 1 /\ \A k \in 1..Len(c) : c[k] = buffer[at + k - 1]
    BY DEF RestOf
  <1>3. Len(c) - 1 + 1 = Len(buffer) - at + 1
    BY <1>1, <1>2, SMT
  <1>4. BytesFrom(c, 1) = BytesFrom(buffer, at)
    BY <1>3 DEF BytesFrom
  <1>5. HasLength(c, 1) <=> HasLength(buffer, at)
    BY <1>4 DEF HasLength
  <1>6. ASSUME HasLength(c, 1)
        PROVE  LengthAt(c, 1) = LengthAt(buffer, at)
    <2>1. Len(c) - 1 + 1 >= 2
      BY <1>6 DEF HasLength, BytesFrom, LENGTH_SIZE
    <2>2. 1 \in 1..Len(c) /\ 2 \in 1..Len(c) /\ at + 1 - 1 = at /\ at + 2 - 1 = at + 1 /\ 1 + 1 = 2
      BY <1>1, <2>1, SMT
    <2>3. c[1] = buffer[at] /\ c[1 + 1] = buffer[at + 1]
      BY <1>2, <2>2
    <2>. QED BY <2>3 DEF LengthAt
  <1>7. HasFrame(c, 1) <=> HasFrame(buffer, at)
    BY <1>4, <1>5, <1>6, Zenon DEF HasFrame
  <1>8. IsTooBig(c, 1) <=> IsTooBig(buffer, at)
    BY <1>5, <1>6, Zenon DEF IsTooBig
  <1>. QED BY <1>7, <1>8

IsGarbledIn(fs) == Len(fs) > Len(SentOf(fs)) + 1

\* What a client that has heard r messages hears next, and what it is left with.
Hears(fs, r, more, out) ==
    LET sent == SentOf(fs)
        n == r + Len(out.messages)
    IN /\ out.fails => TooBigSent(fs) \/ IsGarbledIn(fs)
       /\ ~out.fails =>
             /\ \A i \in 1..Len(out.messages) : r + i <= Len(sent) => out.messages[i] = sent[r + i]
             /\ n > Len(sent) => IsGarbledIn(fs)
             /\ n <= Len(sent) => LaidOut(out.rest \o more, fs, n)

LEMMA OutcomeHears ==
    ASSUME NEW fs \in Seq(SentFrame), NEW r \in Nat, r <= Len(SentOf(fs)),
           NEW buffer \in Seq(Nat), NEW more \in Seq(Nat), LaidOut(buffer \o more, fs, r)
    PROVE  Hears(fs, r, more, Outcome(buffer))
  <1>1. PICK sent \in Seq(Messages) : sent = SentOf(fs)
    BY SentOfIs
  <1>2. PICK w \in Nat : w = Len(sent)
    BY LenProperties
  <1>3. PICK b \in Seq(Nat) : b = buffer \o more
    BY ConcatProperties
  <1>4. Len(buffer) <= Len(b) /\ \A i \in 1..Len(buffer) : buffer[i] = b[i]
    <2>1. /\ Len(b) = Len(buffer) + Len(more)
          /\ \A i \in 1..Len(buffer) + Len(more) :
                b[i] = IF i <= Len(buffer) THEN buffer[i] ELSE more[i - Len(buffer)]
      BY <1>3, ConcatProperties
    <2>2. Len(buffer) \in Nat /\ Len(more) \in Nat
      BY LenProperties
    <2>3. /\ Len(buffer) <= Len(buffer) + Len(more)
          /\ \A i \in 1..Len(buffer) : i \in 1..Len(buffer) + Len(more) /\ i <= Len(buffer)
      BY <2>2, SMT
    <2>. QED BY <2>1, <2>3
  <1>5. PICK p : Marks(b, sent, r, p) /\ Trailing(b, fs, p[w + 1])
    BY <1>1, <1>2, <1>3 DEF LaidOut
  <1>6. PICK f : /\ IsCut(f, buffer, 1)
                 /\ IsOutcome(Outcome(buffer), buffer, f[1].frames, f[1].rest)
    BY OutcomeIs
  <1>7. PICK q \in r..w : CutUpTo(f, buffer, fs, r, p, q)
    BY <1>1, <1>2, <1>4, <1>5, <1>6, CutSome
  <1>8. PICK at \in 1..Len(buffer) + 1 : at = p[q + 1]
    BY <1>7 DEF CutUpTo
  <1>9. PICK g : g = f[1].frames
    OBVIOUS
  <1>10. PICK k \in Nat : k = Len(f[at].frames)
    BY <1>6, CutTyped, LenProperties
  <1>11. /\ f[1].rest = f[at].rest /\ Len(g) = (q - r) + k
         /\ \A i \in r + 1..q : g[i - r] = Serialise(sent[i])
         /\ Stops(buffer, fs, at) \/ (q = w /\ IsGarbledIn(fs))
    BY <1>1, <1>2, <1>7, <1>8, <1>9, <1>10 DEF CutUpTo, IsGarbledIn
  <1>12. PICK rest \in 1..Len(buffer) + 1 : rest = f[1].rest
    BY <1>6 DEF IsOutcome
  <1>13. PICK out : out = Outcome(buffer)
    OBVIOUS
  <1>14. /\ IsTooBig(buffer, rest) \/ ~HasFrame(buffer, rest)
         /\ out.rest = SubSeq(buffer, rest, Len(buffer))
         /\ out.fails <=> \/ IsTooBig(buffer, rest)
                          \/ \E i \in 1..Len(g) : ~IsExpected(Deserialise(g[i]))
         /\ ~out.fails => /\ Len(out.messages) = Len(g)
                          /\ \A i \in 1..Len(g) : out.messages[i] = Deserialise(g[i])
    BY <1>6, <1>9, <1>12, <1>13 DEF IsOutcome
  <1>15. ASSUME NEW i \in 1..q - r
         PROVE  Deserialise(g[i]) = sent[r + i] /\ IsExpected(Deserialise(g[i]))
    <2>1. r + i \in r + 1..q /\ r + i - r = i /\ r + i \in 1..w
      BY <1>2, SMT
    <2>2. PICK msg \in Messages : msg = sent[r + i]
      BY <1>2, <2>1, ElementOfSeq
    <2>3. g[r + i - r] = Serialise(msg)
      BY <1>11, <2>1, <2>2
    <2>. QED BY <2>1, <2>2, <2>3, Encoded
  <1>16. /\ r <= w /\ q \in r..w /\ q - r \in Nat /\ q \in Nat
    BY <1>1, <1>2, SMT
  <1>17. CASE Stops(buffer, fs, at)
    <2>1. f[at] = [frames |-> << >>, rest |-> at]
      <3>1. f[at] = CutAt(buffer, f, at)
        BY <1>6, Zenon DEF IsCut
      <3>. QED BY <1>17, <3>1 DEF CutAt, Stops
    <2>2. rest = at /\ k = 0
      BY <1>10, <1>11, <1>12, <2>1
    <2>3. Len(g) = q - r
      BY <1>11, <1>16, <2>2
    <2>4. \A i \in 1..Len(g) : IsExpected(Deserialise(g[i]))
      BY <1>15, <2>3
    <2>5. out.fails => TooBigSent(fs)
      BY <1>14, <1>17, <2>2, <2>4 DEF Stops
    <2>6. ASSUME ~out.fails
          PROVE  /\ r + Len(out.messages) = q
                 /\ \A i \in 1..Len(out.messages) : out.messages[i] = sent[r + i]
                 /\ LaidOut(out.rest \o more, fs, q)
      <3>1. Len(out.messages) = q - r /\ r + (q - r) = q
        BY <1>14, <1>16, <2>3, <2>6, SMT
      <3>2. \A i \in 1..q - r : out.messages[i] = sent[r + i]
        BY <1>14, <1>15, <2>3, <2>6
      <3>3. PICK c \in Seq(Nat) : c = out.rest \o more
        BY <1>14, RestBehind, ConcatProperties
      <3>4. RestOf(c, b, at)
        BY <1>3, <1>14, <2>2, <3>3, RestBehind
      <3>5. LaidOut(c, fs, q)
        BY <1>1, <1>2, <1>5, <1>8, <3>4, LaidOutBehind
      <3>. QED BY <3>1, <3>2, <3>3, <3>5
    <2>7. ~(q > w)
      BY <1>2, <1>16, SMT
    <2>8. Hears(fs, r, more, out)
      BY <1>1, <1>2, <2>5, <2>6, <2>7 DEF Hears
    <2>. QED BY <1>13, <2>8
  <1>18. CASE q = w /\ IsGarbledIn(fs)
    <2>1. ASSUME ~out.fails
          PROVE  /\ Len(out.messages) = (w - r) + k
                 /\ \A i \in 1..Len(out.messages) :
                       r + i <= w => out.messages[i] = sent[r + i]
      <3>1. Len(out.messages) = (w - r) + k
        BY <1>11, <1>14, <1>18, <2>1
      <3>2. ASSUME NEW i \in 1..Len(out.messages), r + i <= w
            PROVE  out.messages[i] = sent[r + i]
        <4>1. i \in 1..q - r
          BY <1>16, <1>18, <3>1, <3>2, SMT
        <4>2. i \in 1..Len(g)
          BY <1>14, <2>1
        <4>. QED BY <1>14, <1>15, <2>1, <4>1, <4>2
      <3>. QED BY <3>1, <3>2
    <2>2. ASSUME ~out.fails, r + Len(out.messages) <= w
          PROVE  LaidOut(out.rest \o more, fs, r + Len(out.messages))
      <3>1. r + Len(out.messages) = w
        <4>1. Len(out.messages) = (w - r) + k
          BY <2>1, <2>2
        <4>2. r + ((w - r) + k) <= w
          BY <2>2, <4>1
        <4>3. r + ((w - r) + k) = w
          BY <1>2, <1>10, <4>2, SMT
        <4>. QED BY <4>1, <4>3
      <3>2. PICK c \in Seq(Nat) : c = out.rest \o more
        BY <1>14, RestBehind, ConcatProperties
      <3> DEFINE one == [i \in w + 1..w + 1 |-> 1]
      <3>3. /\ w + 1 \in w + 1..w + 1 /\ 1 \in Nat \ {0} /\ 1 <= Len(c) + 1
            /\ w + 1..w = {}
        BY <1>2, LenProperties, SMT
      <3>4. one \in [w + 1..w + 1 -> Nat \ {0}] /\ one[w + 1] = 1
        BY <3>3
      <3> HIDE DEF one
      <3>5. Marks(c, sent, w, one)
        BY <1>2, <3>3, <3>4 DEF Marks
      <3>6. Trailing(c, fs, one[w + 1])
        BY <1>18 DEF Trailing, IsGarbledIn
      <3>. QED BY <1>1, <1>2, <3>1, <3>2, <3>5, <3>6 DEF LaidOut
    <2>3. Hears(fs, r, more, out)
      BY <1>1, <1>2, <1>18, <2>1, <2>2 DEF Hears
    <2>. QED BY <1>13, <2>3
  <1>. QED BY <1>11, <1>17, <1>18

\* A message that has arrived whole can be cut.
LEMMA NextIsThere ==
    ASSUME NEW fs \in Seq(SentFrame), NEW b \in Seq(Nat), NEW r \in Nat,
           r < Len(SentOf(fs)), LaidOut(b, fs, r)
    PROVE  HasFrame(b, 1)
  <1>1. PICK sent \in Seq(Messages) : sent = SentOf(fs)
    BY SentOfIs
  <1>2. PICK w \in Nat : w = Len(sent)
    BY LenProperties
  <1>3. PICK p : Marks(b, sent, r, p)
    BY <1>1 DEF LaidOut
  <1>4. r + 1 \in r + 1..w /\ r + 1 \in 1..w /\ 1 \in Nat \ {0}
    BY <1>1, <1>2, SMT
  <1>5. PICK msg \in Messages : msg = sent[r + 1]
    BY <1>2, <1>4, ElementOfSeq
  <1>6. At(b, 1, Frame(msg))
    BY <1>2, <1>3, <1>4, <1>5 DEF Marks
  <1>. QED BY <1>4, <1>6, WholeFrame

\* Another frame takes nothing back.
LEMMA SentGrows ==
    ASSUME NEW fs \in Seq(SentFrame), NEW e \in SentFrame
    PROVE  LET gs == Append(fs, e)
               old == SentOf(fs)
               new == SentOf(gs)
           IN /\ gs \in Seq(SentFrame) /\ Len(gs) = Len(fs) + 1
              /\ new \in Seq(Messages) /\ Len(old) <= Len(new)
              /\ \A i \in 1..Len(old) : new[i] = old[i]
              /\ IsGarbledIn(fs) => new = old /\ IsGarbledIn(gs)
              /\ TooBigSent(fs) => TooBigSent(gs)
              /\ new = old \/ new = Append(old, e.msg)
  <1>1. PICK old \in Seq(Messages) : old = SentOf(fs)
    BY SentOfIs
  <1>2. PICK gs \in Seq(SentFrame) : gs = Append(fs, e)
    BY SentOfAppend
  <1>3. /\ Len(gs) = Len(fs) + 1 /\ \A i \in 1..Len(fs) : gs[i] = fs[i]
        /\ SentOf(gs) = IF Len(old) = Len(fs) /\ e.isWhole THEN Append(old, e.msg) ELSE old
    BY <1>1, <1>2, SentOfAppend
  <1>4. PICK new \in Seq(Messages) : new = SentOf(gs)
    BY SentOfIs
  <1>5. PICK msg \in Messages : msg = e.msg
    BY DEF SentFrame
  <1>6. Len(old) \in Nat /\ Len(fs) \in Nat
    BY LenProperties
  <1>7. PICK more \in Seq(Messages) : more = Append(old, msg)
    BY AppendProperties
  <1>8. Len(more) = Len(old) + 1 /\ \A i \in 1..Len(old) : more[i] = old[i]
    BY <1>7, AppendProperties
  <1>9. new = old \/ (new = more /\ Len(old) = Len(fs))
    BY <1>3, <1>4, <1>5, <1>7
  <1>10. Len(old) <= Len(new) /\ \A i \in 1..Len(old) : new[i] = old[i]
    <2>1. Len(old) <= Len(old) /\ Len(old) <= Len(old) + 1
      BY <1>6, SMT
    <2>. QED BY <1>8, <1>9, <2>1
  <1>11. ASSUME IsGarbledIn(fs)
         PROVE  new = old /\ IsGarbledIn(gs)
    <2>1. Len(fs) > Len(old) + 1
      BY <1>1, <1>11 DEF IsGarbledIn
    <2>2. Len(old) # Len(fs) /\ Len(fs) + 1 > Len(old) + 1
      BY <1>6, <2>1, SMT
    <2>3. new = old
      BY <1>9, <2>2
    <2>. QED BY <1>3, <1>4, <2>2, <2>3 DEF IsGarbledIn
  <1>12. ASSUME TooBigSent(fs)
         PROVE  TooBigSent(gs)
    <2>1. PICK i \in 1..Len(fs) : Len(Serialise(fs[i].msg)) > MaxMessageSize
      BY <1>12 DEF TooBigSent
    <2>2. i \in 1..Len(gs)
      BY <1>3, <1>6, SMT
    <2>. QED BY <1>3, <2>1, <2>2 DEF TooBigSent
  <1>. QED BY <1>1, <1>2, <1>3, <1>4, <1>5, <1>7, <1>9, <1>10, <1>11, <1>12

\* What recv() takes from the stream, and what it leaves.
LEMMA TakeDrop ==
    ASSUME NEW s \in Seq(Nat), NEW n \in 0..Len(s)
    PROVE  /\ SubSeq(s, 1, n) \in Seq(Nat) /\ SubSeq(s, n + 1, Len(s)) \in Seq(Nat)
           /\ SubSeq(s, 1, n) \o SubSeq(s, n + 1, Len(s)) = s
  <1>1. PICK k \in Nat : k = Len(s)
    BY LenProperties
  <1>2. /\ 1 \in Int /\ n \in Int /\ n + 1 \in Int /\ k \in Int
        /\ \A i \in 1..n : i \in 1..Len(s)
        /\ \A i \in n + 1..k : i \in 1..Len(s)
        /\ 1 \in 1..Len(s) + 1 /\ n \in 1 - 1..Len(s) /\ k \in n..Len(s)
    BY <1>1, SMT
  <1>3. (\A i \in 1..n : s[i] \in Nat) /\ \A i \in n + 1..k : s[i] \in Nat
    BY <1>2, ElementOfSeq
  <1>4. SubSeq(s, 1, n) \in Seq(Nat)
    BY <1>2, <1>3, SubSeqProperties
  <1>5. SubSeq(s, n + 1, k) \in Seq(Nat)
    BY <1>2, <1>3, SubSeqProperties
  <1>6. SubSeq(s, 1, n) \o SubSeq(s, n + 1, k) = SubSeq(s, 1, k)
    BY <1>2, ConcatAdjacentSubSeq
  <1>7. SubSeq(s, 1, k) = s
    BY <1>1, SubSeqFull
  <1>. QED BY <1>1, <1>4, <1>5, <1>6, <1>7

\* Three byte strings are put together in either order.
Regroups(s, t, u) == (s \o t) \o u = s \o (t \o u)

LEMMA ConcatTwice ==
    ASSUME NEW s \in Seq(Nat), NEW t \in Seq(Nat), NEW u \in Seq(Nat)
    PROVE  Regroups(s, t, u)
  BY ConcatAssociative, SMTT(60) DEF Regroups

-----------------------------------------------------------------------------
(* The invariant.                                                          *)

Typed ==
    /\ frames \in Seq(SentFrame) /\ Len(frames) <= MaxFrames
    /\ connection \in {"open", "closed", "reset"}
    /\ stream \in Seq(Nat) /\ messageBuffer \in Seq(Nat)
    /\ received \in Seq(Decodable)
    /\ status \in {"running", "desynced", "disconnected", "left"}

\* A reset takes what was under way with it.
Gone == connection = "reset" => stream = << >>

\* The client has heard what was sent, and more only if the stream is garbled.
HeardSent(fs, heard) ==
    /\ \A i \in 1..Len(heard) : i <= Len(SentOf(fs)) => heard[i] = SentOf(fs)[i]
    /\ Len(heard) > Len(SentOf(fs)) => IsGarbledIn(fs)

\* It has cut from its buffer all it can.
Waits == status = "running" => ~HasFrame(messageBuffer, 1) /\ ~IsTooBig(messageBuffer, 1)

\* What it has not heard yet lies in its buffer and the stream, frame behind frame.
InStep ==
    status = "running" /\ connection # "reset" /\ Len(received) <= Len(SentOf(frames))
        => LaidOut(messageBuffer \o stream, frames, Len(received))

\* It has stopped for a reason.
Reasons ==
    /\ status = "desynced" => IsGarbledIn(frames) \/ TooBigSent(frames)
    /\ status = "disconnected" =>
          \/ connection = "closed" /\ Len(received) >= Len(SentOf(frames))
          \/ connection = "reset"

Inv ==
    /\ Typed
    /\ Gone
    /\ HeardSent(frames, received)
    /\ Waits
    /\ InStep
    /\ Reasons

LEMMA InitInv == Init => Inv
  <1> SUFFICES ASSUME Init
               PROVE  Inv
    OBVIOUS
  <1>1. /\ frames = << >> /\ connection = "open" /\ stream = << >>
        /\ messageBuffer = << >> /\ received = << >> /\ status = "running"
    BY DEF Init
  <1>2. \A S : << >> \in Seq(S) /\ Len(<< >>) = 0
    BY EmptySeq
  <1>3. Typed
    BY <1>1, <1>2, FramingAssumption, SMT DEF Typed
  <1>4. SentOf(frames) \in Seq(Messages) /\ Len(SentOf(frames)) = 0
    <2>1. frames \in Seq(SentFrame) /\ Len(frames) = 0
      BY <1>1, <1>2
    <2>2. SentOf(frames) \in Seq(Messages) /\ Len(SentOf(frames)) \in 0..0
      BY <2>1, SentOfIs
    <2>. QED BY <2>2, SMT
  <1>5. HeardSent(frames, received)
    <2>1. 1..0 = {} /\ ~(0 > 0)
      BY SMT
    <2>. QED BY <1>1, <1>2, <1>4, <2>1 DEF HeardSent
  <1>6. Waits
    <2>1. ~(0 - 1 + 1 >= 2)
      BY SMT
    <2>2. ~HasLength(messageBuffer, 1)
      BY <1>1, <1>2, <2>1 DEF HasLength, BytesFrom, LENGTH_SIZE
    <2>. QED BY <2>2 DEF Waits, HasFrame, IsTooBig
  <1>7. InStep
    <2>1. messageBuffer \o stream = << >>
      BY <1>1, <1>2, ConcatEmptySeq
    <2> DEFINE one == [i \in 0 + 1..0 + 1 |-> 1]
    <2>2. /\ 0 + 1 \in 0 + 1..0 + 1 /\ 1 \in Nat \ {0} /\ 1 <= 0 + 1 /\ 0 + 1..0 = {} /\ 1 = 0 + 1
      BY SMT
    <2>3. one \in [0 + 1..0 + 1 -> Nat \ {0}] /\ one[0 + 1] = 1
      BY <2>2
    <2> HIDE DEF one
    <2>4. Marks(<< >>, SentOf(frames), 0, one)
      BY <1>2, <1>4, <2>2, <2>3 DEF Marks
    <2>5. Trailing(<< >>, frames, one[0 + 1])
      BY <1>1, <1>2, <1>4, <2>2, <2>3 DEF Trailing
    <2>6. LaidOut(<< >>, frames, 0)
      BY <1>4, <2>4, <2>5 DEF LaidOut
    <2>. QED BY <1>1, <1>2, <2>1, <2>6 DEF InStep
  <1>. QED BY <1>1, <1>3, <1>5, <1>6, <1>7 DEF Inv, Gone, Reasons

LEMMA SendKeeps ==
    ASSUME Inv, NEW msg \in Messages, NEW k \in 1..Len(Frame(msg)), NetworkSend(msg, k)
    PROVE  Inv'
  <1>1. /\ Typed /\ Gone /\ HeardSent(frames, received) /\ Waits /\ InStep /\ Reasons
    BY DEF Inv
  <1>2. /\ connection = "open" /\ Len(frames) < MaxFrames
        /\ frames' = Append(frames, [msg |-> msg, isWhole |-> k = Len(Frame(msg))])
        /\ stream' = stream \o SubSeq(Frame(msg), 1, k)
        /\ connection' = connection /\ messageBuffer' = messageBuffer
        /\ received' = received /\ status' = status
    BY DEF NetworkSend, clientVars
  <1>3. PICK e \in SentFrame : e = [msg |-> msg, isWhole |-> k = Len(Frame(msg))] /\ e.msg = msg
    <2>1. PICK flag \in BOOLEAN : flag = (k = Len(Frame(msg)))
      OBVIOUS
    <2>2. [msg |-> msg, isWhole |-> flag] \in SentFrame
      BY DEF SentFrame
    <2>. QED BY <2>1, <2>2
  <1>4. PICK fs \in Seq(SentFrame) : fs = frames
    BY <1>1 DEF Typed
  <1>5. PICK gs \in Seq(SentFrame) : gs = Append(fs, e)
    BY SentOfAppend
  <1>6. frames' = gs
    BY <1>2, <1>3, <1>4, <1>5
  <1>7. PICK old \in Seq(Messages) : old = SentOf(fs)
    BY SentOfIs
  <1>8. PICK new \in Seq(Messages) : new = SentOf(gs)
    BY SentOfIs
  <1>9. /\ Len(gs) = Len(fs) + 1 /\ Len(old) <= Len(new)
        /\ \A i \in 1..Len(old) : new[i] = old[i]
        /\ IsGarbledIn(fs) => new = old /\ IsGarbledIn(gs)
        /\ TooBigSent(fs) => TooBigSent(gs)
    BY <1>5, <1>7, <1>8, SentGrows
  <1>10. PICK heard \in Seq(Decodable) : heard = received
    BY <1>1 DEF Typed
  <1>11. /\ Len(old) \in Nat /\ Len(new) \in Nat /\ Len(heard) \in Nat /\ Len(fs) \in Nat
    BY LenProperties
  <1>12. /\ \A i \in 1..Len(heard) : i <= Len(old) => heard[i] = old[i]
         /\ Len(heard) > Len(old) => IsGarbledIn(fs)
    BY <1>1, <1>4, <1>7, <1>10 DEF HeardSent
  <1>13. PICK more \in Seq(Nat) : more = SubSeq(Frame(msg), 1, k)
    <2>1. k \in 0..Len(Frame(msg))
      BY FrameBytes, LenProperties, SMT
    <2>. QED BY <2>1, FrameBytes, TakeDrop
  <1>14. Typed'
    <2>1. stream' \in Seq(Nat)
      BY <1>1, <1>2, <1>13, ConcatProperties DEF Typed
    <2>2. Len(gs) <= MaxFrames
      <3>1. Len(fs) < MaxFrames
        BY <1>2, <1>4
      <3>. QED BY <1>9, <1>11, <3>1, FramingAssumption, SMT
    <2>. QED BY <1>1, <1>2, <1>6, <2>1, <2>2 DEF Typed
  <1>15. Gone'
    BY <1>2 DEF Gone
  <1>16. HeardSent(gs, heard)
    <2>1. CASE Len(heard) > Len(old)
      BY <1>8, <1>9, <1>12, <2>1 DEF HeardSent
    <2>2. CASE ~(Len(heard) > Len(old))
      <3>1. ~(Len(heard) > Len(new)) /\ \A i \in 1..Len(heard) : i \in 1..Len(old) /\ i <= Len(old)
        BY <1>9, <1>11, <2>2, SMT
      <3>. QED BY <1>8, <1>9, <1>12, <3>1 DEF HeardSent
    <2>. QED BY <2>1, <2>2
  <1>17. Waits'
    <2>1. UNCHANGED <<messageBuffer, status>>
      BY <1>2
    <2>. QED BY <1>1, <2>1 DEF Waits, HasFrame, IsTooBig, HasLength, BytesFrom, LengthAt
  <1>18. InStep'
    <2> SUFFICES ASSUME status = "running", Len(heard) <= Len(new)
                 PROVE  LaidOut(messageBuffer \o stream', gs, Len(heard))
      BY <1>2, <1>6, <1>8, <1>10 DEF InStep
    <2>1. Len(heard) <= Len(old)
      BY <1>9, <1>11, <1>12, SMT
    <2>2. PICK mb \in Seq(Nat) : mb = messageBuffer
      BY <1>1 DEF Typed
    <2>3. PICK st \in Seq(Nat) : st = stream
      BY <1>1 DEF Typed
    <2>4. LaidOut(mb \o st, fs, Len(heard))
      BY <1>1, <1>2, <1>4, <1>7, <1>10, <2>1, <2>2, <2>3 DEF InStep
    <2>5. PICK b \in Seq(Nat) : b = mb \o st
      BY ConcatProperties
    <2>6. LaidOut(b \o more, gs, Len(heard))
      BY <1>3, <1>5, <1>7, <1>11, <1>13, <2>1, <2>4, <2>5, LaidOutSend
    <2>7. b \o more = mb \o (st \o more)
      <3>1. Regroups(mb, st, more)
        BY ConcatTwice, ZenonT(30)
      <3>. QED BY <2>5, <3>1 DEF Regroups
    <2>. QED BY <1>2, <1>13, <2>2, <2>3, <2>6, <2>7
  <1>19. Reasons'
    <2>1. Reasons
      BY <1>1
    <2>. QED BY <1>2, <1>4, <1>6, <1>9, <2>1 DEF Reasons
  <1>. QED BY <1>2, <1>6, <1>10, <1>14, <1>15, <1>16, <1>17, <1>18, <1>19 DEF Inv

LEMMA CloseKeeps ==
    ASSUME Inv, CloseConnection
    PROVE  Inv'
  <1>1. /\ Typed /\ Gone /\ HeardSent(frames, received) /\ Waits /\ InStep /\ Reasons
    BY DEF Inv
  <1>2. /\ connection = "open"
        /\ \/ connection' = "closed" /\ stream' = stream
           \/ connection' = "reset" /\ stream' = << >>
        /\ frames' = frames /\ messageBuffer' = messageBuffer
        /\ received' = received /\ status' = status
    BY DEF CloseConnection, clientVars
  <1>3. Typed' /\ Gone'
    BY <1>1, <1>2, EmptySeq DEF Typed, Gone
  <1>4. Waits'
    <2>1. UNCHANGED <<messageBuffer, status>>
      BY <1>2
    <2>. QED BY <1>1, <2>1 DEF Waits, HasFrame, IsTooBig, HasLength, BytesFrom, LengthAt
  <1>5. InStep' /\ Reasons'
    BY <1>1, <1>2 DEF InStep, Reasons
  <1>. QED BY <1>1, <1>2, <1>3, <1>4, <1>5 DEF Inv

\* A client that has taken everything from the stream has heard everything.
LEMMA AllHeard ==
    ASSUME Inv, status = "running", connection # "reset", stream = << >>
    PROVE  Len(received) >= Len(SentOf(frames))
  <1> SUFFICES ASSUME Len(received) < Len(SentOf(frames))
               PROVE  FALSE
    <2>1. frames \in Seq(SentFrame) /\ received \in Seq(Decodable)
      BY DEF Inv, Typed
    <2>2. Len(SentOf(frames)) \in Nat /\ Len(received) \in Nat
      BY <2>1, SentOfIs, LenProperties
    <2>. QED BY <2>2, SMT
  <1>1. /\ frames \in Seq(SentFrame) /\ messageBuffer \in Seq(Nat) /\ received \in Seq(Decodable)
    BY DEF Inv, Typed
  <1>2. PICK n \in Nat : n = Len(SentOf(frames))
    BY <1>1, SentOfIs, LenProperties
  <1>3. PICK r \in Nat : r = Len(received)
    BY <1>1, LenProperties
  <1>4. r < n /\ r <= n
    BY <1>2, <1>3, SMT
  <1>5. messageBuffer \o stream = messageBuffer
    BY <1>1, ConcatEmptySeq
  <1>6. LaidOut(messageBuffer, frames, r)
    BY <1>2, <1>3, <1>4, <1>5 DEF Inv, InStep
  <1>7. HasFrame(messageBuffer, 1)
    BY <1>1, <1>2, <1>4, <1>6, NextIsThere
  <1>. QED BY <1>7 DEF Inv, Waits

LEMMA EndKeeps ==
    ASSUME Inv, ReceiveEnd
    PROVE  Inv'
  <1>1. /\ Typed /\ Gone /\ HeardSent(frames, received) /\ Waits /\ InStep /\ Reasons
    BY DEF Inv
  <1>2. /\ status = "running" /\ connection # "open" /\ stream = << >>
        /\ status' = "disconnected" /\ stream' = stream
        /\ frames' = frames /\ connection' = connection /\ messageBuffer' = messageBuffer
        /\ received' = received
    BY DEF ReceiveEnd, serverVars
  <1>3. connection = "reset" \/ (connection = "closed" /\ Len(received) >= Len(SentOf(frames)))
    BY <1>1, <1>2, AllHeard DEF Typed
  <1>4. Typed' /\ Gone' /\ Waits' /\ InStep' /\ Reasons'
    BY <1>1, <1>2, <1>3 DEF Typed, Gone, Waits, InStep, Reasons
  <1>. QED BY <1>1, <1>2, <1>4 DEF Inv

LEMMA LeaveKeeps ==
    ASSUME Inv, Leave
    PROVE  Inv'
  <1>1. /\ Typed /\ Gone /\ HeardSent(frames, received) /\ Waits /\ InStep /\ Reasons
    BY DEF Inv
  <1>2. /\ status' = "left" /\ stream' = stream
        /\ frames' = frames /\ connection' = connection /\ messageBuffer' = messageBuffer
        /\ received' = received
    BY DEF Leave, serverVars
  <1>3. Typed' /\ Gone' /\ Waits' /\ InStep' /\ Reasons'
    BY <1>1, <1>2 DEF Typed, Gone, Waits, InStep, Reasons
  <1>. QED BY <1>1, <1>2, <1>3 DEF Inv

LEMMA ReceiveKeeps ==
    ASSUME Inv, NEW n \in 1..Len(stream), ReceiveFromServer(n)
    PROVE  Inv'
  <1>1. /\ Typed /\ Gone /\ HeardSent(frames, received) /\ Waits /\ InStep /\ Reasons
    BY DEF Inv
  <1>2. PICK fs \in Seq(SentFrame) : fs = frames
    BY <1>1 DEF Typed
  <1>3. PICK mb \in Seq(Nat) : mb = messageBuffer
    BY <1>1 DEF Typed
  <1>4. PICK st \in Seq(Nat) : st = stream
    BY <1>1 DEF Typed
  <1>5. PICK heard \in Seq(Decodable) : heard = received
    BY <1>1 DEF Typed
  <1>6. n \in 0..Len(st) /\ Len(st) # 0
    BY <1>4, LenProperties, SMT
  <1>7. PICK first \in Seq(Nat) : first = SubSeq(st, 1, n)
    BY <1>6, TakeDrop
  <1>8. PICK more \in Seq(Nat) : more = SubSeq(st, n + 1, Len(st)) /\ first \o more = st
    BY <1>6, <1>7, TakeDrop
  <1>9. PICK buffer \in Seq(Nat) : buffer = mb \o first
    BY ConcatProperties
  <1>10. buffer \o more = mb \o st
    <2>1. Regroups(mb, first, more)
      BY ConcatTwice, ZenonT(30)
    <2>. QED BY <1>8, <1>9, <2>1 DEF Regroups
  <1>11. PICK out : out = Outcome(buffer)
    OBVIOUS
  <1>12. /\ status = "running" /\ stream' = more
         /\ messageBuffer' = out.rest /\ received' = heard \o out.messages
         /\ status' = (IF out.fails THEN "desynced" ELSE status)
         /\ frames' = frames /\ connection' = connection
    BY <1>3, <1>4, <1>5, <1>7, <1>8, <1>9, <1>11 DEF ReceiveFromServer, serverVars
  <1>13. PICK g, at : IsOutcome(out, buffer, g, at)
    BY <1>11, OutcomeIs
  <1>14. PICK got \in Seq(Decodable) : /\ got = out.messages
                                       /\ out.fails => got = << >> /\ heard \o got = heard
    <2>1. CASE out.fails
      <3>1. out.messages = << >> /\ << >> \in Seq(Decodable)
        BY <1>13, <2>1, EmptySeq DEF IsOutcome
      <3>2. heard \o << >> = heard
        BY ConcatEmptySeq
      <3>. QED BY <3>1, <3>2
    <2>2. CASE ~out.fails
      BY <1>13, <2>2 DEF IsOutcome
    <2>. QED BY <2>1, <2>2
  <1>15. PICK rest \in Seq(Nat) : rest = out.rest /\ RestOf(rest, buffer, at)
    BY <1>13, RestBehind DEF IsOutcome
  <1>16. PICK both \in Seq(Decodable) : both = heard \o got
    BY ConcatProperties
  <1>17. /\ Len(both) = Len(heard) + Len(got) /\ Len(heard) \in Nat /\ Len(got) \in Nat
         /\ \A i \in 1..Len(heard) + Len(got) :
               both[i] = IF i <= Len(heard) THEN heard[i] ELSE got[i - Len(heard)]
    BY <1>16, ConcatProperties, LenProperties
  <1>18. PICK sent \in Seq(Messages) : sent = SentOf(fs)
    BY SentOfIs
  <1>19. /\ \A i \in 1..Len(heard) : i <= Len(sent) => heard[i] = sent[i]
         /\ Len(heard) > Len(sent) => IsGarbledIn(fs)
    BY <1>1, <1>2, <1>5, <1>18 DEF HeardSent
  <1>20. connection # "reset"
    BY <1>1, <1>4, <1>6, EmptySeq DEF Gone
  <1>21. Len(sent) \in Nat
    BY LenProperties
  <1>22. Len(heard) <= Len(sent) => Hears(fs, Len(heard), more, out)
    <2>1. Len(heard) <= Len(sent) => LaidOut(buffer \o more, fs, Len(heard))
      BY <1>1, <1>2, <1>3, <1>4, <1>5, <1>10, <1>12, <1>18, <1>20 DEF InStep
    <2>. QED BY <1>11, <1>17, <1>18, <2>1, OutcomeHears
  <1>23. Typed'
    <2>1. status' \in {"running", "desynced", "disconnected", "left"}
      BY <1>12
    <2>. QED BY <1>1, <1>12, <1>14, <1>15, <1>16, <2>1 DEF Typed
  <1>24. Gone'
    BY <1>12, <1>20 DEF Gone
  <1>25. HeardSent(fs, both)
    <2>1. CASE ~(Len(heard) <= Len(sent))
      <3>1. /\ Len(heard) > Len(sent) /\ Len(both) > Len(sent)
            /\ \A i \in 1..Len(both) : i <= Len(sent) =>
                  i \in 1..Len(heard) /\ i \in 1..Len(heard) + Len(got) /\ i <= Len(heard)
        BY <1>17, <1>21, <2>1, SMT
      <3>2. \A i \in 1..Len(both) : i <= Len(sent) => both[i] = sent[i]
        BY <1>17, <1>19, <3>1
      <3>. QED BY <1>18, <1>19, <3>1, <3>2 DEF HeardSent
    <2>2. CASE Len(heard) <= Len(sent) /\ out.fails
      <3>1. both = heard
        BY <1>14, <1>16, <2>2
      <3>. QED BY <1>18, <1>19, <3>1 DEF HeardSent
    <2>3. CASE Len(heard) <= Len(sent) /\ ~out.fails
      <3>1. /\ \A i \in 1..Len(got) : Len(heard) + i <= Len(sent) => got[i] = sent[Len(heard) + i]
            /\ Len(both) > Len(sent) => IsGarbledIn(fs)
        BY <1>14, <1>17, <1>18, <1>22, <2>3 DEF Hears
      <3>2. ASSUME NEW i \in 1..Len(both), i <= Len(sent)
            PROVE  both[i] = sent[i]
        <4>1. i \in 1..Len(heard) + Len(got)
          BY <1>17
        <4>2. CASE i <= Len(heard)
          <5>1. i \in 1..Len(heard)
            BY <1>17, <4>1, <4>2, SMT
          <5>. QED BY <1>17, <1>19, <3>2, <4>1, <4>2, <5>1
        <4>3. CASE ~(i <= Len(heard))
          <5>1. PICK j : j = i - Len(heard)
            OBVIOUS
          <5>2. j \in 1..Len(got) /\ Len(heard) + j = i
            BY <1>17, <4>1, <4>3, <5>1, SMT
          <5>3. both[i] = got[j]
            BY <1>17, <4>1, <4>3, <5>1
          <5>. QED BY <3>1, <3>2, <5>2, <5>3
        <4>. QED BY <4>2, <4>3
      <3>. QED BY <1>18, <3>1, <3>2 DEF HeardSent
    <2>. QED BY <2>1, <2>2, <2>3
  <1>26. Waits'
    <2> SUFFICES ASSUME ~out.fails
                 PROVE  ~HasFrame(rest, 1) /\ ~IsTooBig(rest, 1)
      BY <1>12, <1>15 DEF Waits, HasFrame, IsTooBig, HasLength, BytesFrom, LengthAt
    <2>1. ~IsTooBig(buffer, at) /\ ~HasFrame(buffer, at) /\ at \in 1..Len(buffer) + 1
      BY <1>13 DEF IsOutcome
    <2>. QED BY <1>15, <2>1, RestWaits
  <1>27. InStep'
    <2> SUFFICES ASSUME ~out.fails, Len(both) <= Len(sent)
                 PROVE  LaidOut(rest \o more, fs, Len(both))
      BY <1>2, <1>12, <1>14, <1>15, <1>16, <1>18 DEF InStep
    <2>1. Len(heard) <= Len(sent)
      BY <1>17, <1>21, SMT
    <2>. QED BY <1>14, <1>15, <1>17, <1>18, <1>22, <2>1 DEF Hears
  <1>28. Reasons'
    <2>1. out.fails => IsGarbledIn(fs) \/ TooBigSent(fs)
      <3>1. CASE Len(heard) <= Len(sent)
        BY <1>22, <3>1 DEF Hears
      <3>2. CASE ~(Len(heard) <= Len(sent))
        BY <1>17, <1>19, <1>21, <3>2, SMT
      <3>. QED BY <3>1, <3>2
    <2>. QED BY <1>2, <1>12, <2>1 DEF Reasons
  <1>29. received' = both /\ frames' = fs
    BY <1>2, <1>12, <1>14, <1>16
  <1>. QED BY <1>23, <1>24, <1>25, <1>26, <1>27, <1>28, <1>29 DEF Inv

LEMMA NextInv == Inv /\ [Next]_vars => Inv'
  <1> SUFFICES ASSUME Inv, [Next]_vars
               PROVE  Inv'
    OBVIOUS
  <1>1. CASE UNCHANGED vars
    <2>1. UNCHANGED <<frames, connection, stream, messageBuffer, received, status>>
      BY <1>1 DEF vars, serverVars, clientVars
    <2>. QED BY <2>1 DEF Inv, Typed, Gone, Waits, InStep, Reasons, HasFrame, IsTooBig, HasLength,
                         BytesFrom, LengthAt
  <1>2. CASE Next
    <2>1. ASSUME NEW msg \in Messages, NEW k \in 1..Len(Frame(msg)), NetworkSend(msg, k)
          PROVE  Inv'
      BY <2>1, SendKeeps
    <2>2. ASSUME NEW n \in 1..Len(stream), ReceiveFromServer(n)
          PROVE  Inv'
      BY <2>2, ReceiveKeeps
    <2>. QED BY <1>2, <2>1, <2>2, CloseKeeps, EndKeeps, LeaveKeeps DEF Next, Receive
  <1>. QED BY <1>1, <1>2

LEMMA InvAlways == Spec => []Inv
  BY InitInv, NextInv, PTL DEF Spec

LEMMA SentInModel ==
    /\ Sent = SentOf(frames)
    /\ IsGarbled <=> IsGarbledIn(frames)
  BY SentIsSentOf DEF IsGarbled, IsGarbledIn

\* TypeOK: a running client never has more in its buffer than one message that is not all
\* there, whatever the lengths in the stream and in whatever pieces it arrives.
THEOREM FramingTypeCorrect == Spec => []TypeOK
  <1>1. ASSUME Inv
        PROVE  TypeOK
    <2>1. Typed /\ Waits
      BY <1>1 DEF Inv
    <2>2. ASSUME status = "running"
          PROVE  Len(messageBuffer) < LENGTH_SIZE + MaxMessageSize
      <3>1. PICK mb \in Seq(Nat) : mb = messageBuffer
        BY <2>1 DEF Typed
      <3>2. PICK n \in Nat : n = Len(mb)
        BY LenProperties
      <3>3. ~HasFrame(mb, 1) /\ ~IsTooBig(mb, 1)
        BY <2>1, <2>2, <3>1 DEF Waits
      <3>4. MaxMessageSize \in Nat
        BY FramingAssumption
      <3>5. CASE n >= 2
        <4>1. 1 \in 1..n /\ 1 + 1 \in 1..n /\ n - 1 + 1 = n
          BY <3>5, SMT
        <4>2. HasLength(mb, 1) /\ BytesFrom(mb, 1) = n
          BY <3>2, <3>5, <4>1 DEF HasLength, BytesFrom, LENGTH_SIZE
        <4>3. mb[1] \in Nat /\ mb[1 + 1] \in Nat /\ LengthBase \in Nat
          BY <3>2, <4>1, ElementOfSeq, FramingAssumption
        <4>4. \A x, y, z \in Nat : x + y * z \in Nat
          BY SMT
        <4>5. PICK l \in Nat : l = LengthAt(mb, 1)
          BY <4>3, <4>4 DEF LengthAt
        <4>6. ~(n >= 2 + l) /\ ~(l > MaxMessageSize)
          BY <3>3, <4>2, <4>5 DEF HasFrame, IsTooBig, LENGTH_SIZE
        <4>7. n < 2 + MaxMessageSize
          BY <3>4, <4>6, SMT
        <4>. QED BY <3>1, <3>2, <4>7 DEF LENGTH_SIZE
      <3>6. CASE ~(n >= 2)
        <4>1. n < 2 + MaxMessageSize
          BY <3>4, <3>6, SMT
        <4>. QED BY <3>1, <3>2, <4>1 DEF LENGTH_SIZE
      <3>. QED BY <3>5, <3>6
    <2>. QED BY <2>1, <2>2 DEF TypeOK, Typed, SentFrame
  <1>. QED BY <1>1, InvAlways, PTL

\* StopsForAReason: the client throws only at frames that the server should not have sent,
\* and takes a connection for gone only when it is, after the last message.
THEOREM AlwaysStopsForAReason == Spec => []StopsForAReason
  <1>1. Inv => StopsForAReason
    BY SentInModel DEF Inv, Reasons, StopsForAReason, TooBigSent
  <1>. QED BY <1>1, InvAlways, PTL

LEMMA SentDecodable ==
    ASSUME NEW fs \in Seq(SentFrame)
    PROVE  SentOf(fs) \in Seq(Decodable)
  <1>1. Messages \subseteq Decodable
    BY Encoded DEF Decodable
  <1>. QED BY <1>1, SentOfIs, SeqMonotonic

\* NothingHeldBack: no message waits in the buffer for the next one to arrive.
THEOREM NothingEverHeldBack == Spec => []NothingHeldBack
  <1>1. ASSUME Inv
        PROVE  NothingHeldBack
    <2> SUFFICES ASSUME status = "running", stream = << >>, connection # "reset", ~IsGarbled
                 PROVE  received = Sent
      BY DEF NothingHeldBack
    <2>1. PICK heard \in Seq(Decodable) : heard = received
      BY <1>1 DEF Inv, Typed
    <2>2. PICK sent \in Seq(Decodable) : sent = SentOf(frames) /\ sent = Sent
      BY <1>1, SentDecodable, SentInModel DEF Inv, Typed
    <2>3. Len(heard) \in Nat /\ Len(sent) \in Nat
      BY LenProperties
    <2>4. Len(heard) >= Len(sent)
      BY <1>1, <2>1, <2>2, AllHeard
    <2>5. /\ ~(Len(heard) > Len(sent))
          /\ \A i \in 1..Len(heard) : i <= Len(sent) => heard[i] = sent[i]
      BY <1>1, <2>1, <2>2, SentInModel DEF Inv, HeardSent
    <2>6. Len(heard) = Len(sent) /\ \A i \in 1..Len(heard) : i <= Len(sent)
      BY <2>3, <2>4, <2>5, SMT
    <2>7. heard = sent
      BY <2>5, <2>6, SeqEqual
    <2>. QED BY <2>1, <2>2, <2>7
  <1>. QED BY <1>1, InvAlways, PTL

-----------------------------------------------------------------------------
(* The refinement.                                                         *)

Delivered(heard, sent) == SubSeq(heard, 1, Min({Len(heard), Len(sent)}))

Agree(heard, sent) == \A i \in 1..Len(heard) : i <= Len(sent) => heard[i] = sent[i]

LEMMA MinOfTwo ==
    ASSUME NEW a \in Nat, NEW b \in Nat
    PROVE  Min({a, b}) = IF a <= b THEN a ELSE b
  <1>1. PICK m \in {a, b} : m = (IF a <= b THEN a ELSE b) /\ \A y \in {a, b} : m <= y
    BY SMT
  <1>2. PICK n : n = Min({a, b})
    OBVIOUS
  <1>3. n \in {a, b} /\ \A y \in {a, b} : n <= y
    BY <1>1, <1>2, Zenon DEF Min
  <1>4. n = m
    BY <1>1, <1>3, SMT
  <1>. QED BY <1>1, <1>2, <1>4

LEMMA DeliveredIs ==
    ASSUME NEW heard \in Seq(Decodable), NEW sent \in Seq(Decodable), Agree(heard, sent)
    PROVE  \E n \in 0..Len(sent) :
              /\ n = IF Len(heard) <= Len(sent) THEN Len(heard) ELSE Len(sent)
              /\ Delivered(heard, sent) = SubSeq(sent, 1, n)
              /\ Len(Delivered(heard, sent)) = n
  <1>1. Len(heard) \in Nat /\ Len(sent) \in Nat
    BY LenProperties
  <1>2. PICK n \in Nat : n = IF Len(heard) <= Len(sent) THEN Len(heard) ELSE Len(sent)
    BY <1>1
  <1>3. /\ n \in 0..Len(sent) /\ 1 \in Int /\ n \in Int /\ (1 <= n => n - 1 + 1 = n)
        /\ (~(1 <= n) => n = 0) /\ n - 1 + 1 = n
        /\ \A i \in 1..n : i \in 1..Len(heard) /\ i \in 1..Len(sent) /\ i <= Len(sent)
                           /\ 1 + i - 1 = i
    BY <1>1, <1>2, SMT
  <1>4. PICK d : d = SubSeq(heard, 1, n)
    OBVIOUS
  <1>5. PICK s : s = SubSeq(sent, 1, n)
    OBVIOUS
  <1>6. \A i \in 1..n : heard[i] \in Decodable /\ sent[i] \in Decodable /\ heard[i] = sent[i]
    BY <1>3, ElementOfSeq DEF Agree
  <1>7. d \in Seq(Decodable) /\ Len(d) = n /\ \A i \in 1..n : d[i] = heard[i]
    BY <1>3, <1>4, <1>6, SubSeqProperties
  <1>8. s \in Seq(Decodable) /\ Len(s) = n /\ \A i \in 1..n : s[i] = sent[i]
    BY <1>3, <1>5, <1>6, SubSeqProperties
  <1>9. d = s
    BY <1>6, <1>7, <1>8, SeqEqual
  <1>10. Delivered(heard, sent) = d
    BY <1>1, <1>2, <1>4, MinOfTwo DEF Delivered
  <1>. QED BY <1>2, <1>3, <1>5, <1>7, <1>9, <1>10

\* What a call of recv() brings is delivered at once, if it is anything that was sent.
LEMMA DeliversMore ==
    ASSUME NEW heard \in Seq(Decodable), NEW both \in Seq(Decodable), NEW sent \in Seq(Decodable),
           Agree(heard, sent), Agree(both, sent), Len(heard) <= Len(both)
    PROVE  \/ Delivered(both, sent) = Delivered(heard, sent)
           \/ \E n \in Len(Delivered(heard, sent)) + 1..Len(sent) :
                 Delivered(both, sent) = SubSeq(sent, 1, n)
  <1>1. Len(heard) \in Nat /\ Len(sent) \in Nat /\ Len(both) \in Nat
    BY LenProperties
  <1>2. PICK j \in 0..Len(sent) :
              /\ j = IF Len(heard) <= Len(sent) THEN Len(heard) ELSE Len(sent)
              /\ Delivered(heard, sent) = SubSeq(sent, 1, j)
              /\ Len(Delivered(heard, sent)) = j
    BY DeliveredIs
  <1>3. PICK k \in 0..Len(sent) :
              /\ k = IF Len(both) <= Len(sent) THEN Len(both) ELSE Len(sent)
              /\ Delivered(both, sent) = SubSeq(sent, 1, k)
    BY DeliveredIs
  <1>4. j = k \/ k \in j + 1..Len(sent)
    BY <1>1, <1>2, <1>3, SMT
  <1>. QED BY <1>2, <1>3, <1>4

\* More that is sent is not delivered yet.
LEMMA DeliversNoMore ==
    ASSUME NEW heard \in Seq(Decodable), NEW sent \in Seq(Decodable), NEW msg \in Decodable,
           Len(heard) <= Len(sent)
    PROVE  Delivered(heard, Append(sent, msg)) = Delivered(heard, sent)
  <1>1. Len(heard) \in Nat /\ Len(sent) \in Nat
    BY LenProperties
  <1>2. Len(Append(sent, msg)) = Len(sent) + 1
    BY AppendProperties
  <1>3. Len(sent) + 1 \in Nat /\ Len(heard) <= Len(sent) + 1
    BY <1>1, SMT
  <1>4. Min({Len(heard), Len(sent)}) = Len(heard)
    BY <1>1, MinOfTwo
  <1>5. Min({Len(heard), Len(sent) + 1}) = Len(heard)
    BY <1>1, <1>3, MinOfTwo
  <1>. QED BY <1>2, <1>4, <1>5 DEF Delivered

\* The state of the channel.
LEMMA ChannelState ==
    /\ Heard!channelVars = <<Sent, Delivered(received, Sent), status = "running">>
    /\ Heard!channelVars' = <<Sent', Delivered(received', Sent'), status' = "running">>
  BY DEF Heard!channelVars, Delivered

\* The state of the invariant, as the channel sees it.
LEMMA Known ==
    ASSUME Inv
    PROVE  /\ Sent = SentOf(frames) /\ Sent \in Seq(Decodable) /\ received \in Seq(Decodable)
           /\ Agree(received, Sent) /\ (Len(received) > Len(Sent) => IsGarbledIn(frames))
           /\ Len(received) \in Nat /\ Len(Sent) \in Nat
  <1>1. frames \in Seq(SentFrame) /\ received \in Seq(Decodable) /\ HeardSent(frames, received)
    BY DEF Inv, Typed
  <1>2. Sent = SentOf(frames) /\ Sent \in Seq(Decodable)
    BY <1>1, SentInModel, SentDecodable
  <1>. QED BY <1>1, <1>2, LenProperties DEF HeardSent, Agree

LEMMA SendMaps ==
    ASSUME Inv, NEW msg \in Messages, NEW k \in 1..Len(Frame(msg)), NetworkSend(msg, k)
    PROVE  [Heard!Next]_(Heard!channelVars)
  <1>1. /\ frames' = Append(frames, [msg |-> msg, isWhole |-> k = Len(Frame(msg))])
        /\ received' = received /\ status' = status
    BY DEF NetworkSend, clientVars
  <1>2. PICK e \in SentFrame : e = [msg |-> msg, isWhole |-> k = Len(Frame(msg))] /\ e.msg = msg
    <2>1. PICK flag \in BOOLEAN : flag = (k = Len(Frame(msg)))
      OBVIOUS
    <2>2. [msg |-> msg, isWhole |-> flag] \in SentFrame
      BY DEF SentFrame
    <2>. QED BY <2>1, <2>2
  <1>3. PICK fs \in Seq(SentFrame) : fs = frames
    BY DEF Inv, Typed
  <1>4. PICK old \in Seq(Decodable) : old = Sent /\ old = SentOf(fs)
    BY <1>3, Known
  <1>5. PICK heard \in Seq(Decodable) : heard = received
    BY Known
  <1>6. PICK new : new = SentOf(Append(fs, e))
    OBVIOUS
  <1>7. /\ new = old \/ new = Append(old, msg)
        /\ IsGarbledIn(fs) => new = old
    BY <1>2, <1>4, <1>6, SentGrows
  <1>8. Sent' = new
    BY <1>1, <1>2, <1>3, <1>6, SentIsSentOf
  <1>9. CASE new = old
    <2>1. UNCHANGED Heard!channelVars
      BY <1>1, <1>4, <1>8, <1>9, ChannelState
    <2>. QED BY <2>1
  <1>10. CASE new = Append(old, msg) /\ new # old
    <2>1. ~IsGarbledIn(fs)
      BY <1>7, <1>10
    <2>2. Len(heard) <= Len(old)
      <3>1. ~(Len(heard) > Len(old)) /\ Len(heard) \in Nat /\ Len(old) \in Nat
        BY <1>3, <1>4, <1>5, <2>1, Known
      <3>. QED BY <3>1, SMT
    <2>3. msg \in Decodable
      BY Encoded DEF Decodable
    <2>4. Delivered(heard, new) = Delivered(heard, old)
      BY <1>10, <2>2, <2>3, DeliversNoMore
    <2>5. Heard!Send(msg)
      BY <1>1, <1>4, <1>5, <1>8, <1>10, <2>4 DEF Heard!Send, Delivered
    <2>. QED BY <2>5 DEF Heard!Next
  <1>. QED BY <1>7, <1>9, <1>10

LEMMA ReceiveMaps ==
    ASSUME Inv, Inv', NEW n \in 1..Len(stream), ReceiveFromServer(n)
    PROVE  [Heard!Next]_(Heard!channelVars)
  <1>1. PICK buffer : buffer = messageBuffer \o SubSeq(stream, 1, n)
    OBVIOUS
  <1>2. PICK out : out = Outcome(buffer)
    OBVIOUS
  <1>3. /\ status = "running" /\ received' = received \o out.messages
        /\ status' = (IF out.fails THEN "desynced" ELSE status)
        /\ frames' = frames
    BY <1>1, <1>2 DEF ReceiveFromServer, serverVars
  <1>4. PICK heard \in Seq(Decodable) : heard = received
    BY Known
  <1>5. PICK both \in Seq(Decodable) : both = received'
    BY DEF Inv, Typed
  <1>6. PICK sent \in Seq(Decodable) : sent = Sent
    BY Known
  <1>7. Sent' = sent
    BY <1>3, <1>6, SentIsSentOf
  <1>8. Agree(heard, sent)
    BY <1>4, <1>6, Known
  <1>9. Agree(both, sent)
    <2>1. HeardSent(frames, both)
      BY <1>3, <1>5 DEF Inv
    <2>2. Sent = SentOf(frames)
      BY Known
    <2>. QED BY <1>6, <2>1, <2>2 DEF HeardSent, Agree
  <1>10. PICK got \in Seq(Decodable) : got = out.messages /\ (out.fails => got = << >>)
    <2>1. buffer \in Seq(Nat)
      <3>1. messageBuffer \in Seq(Nat) /\ stream \in Seq(Nat)
        BY DEF Inv, Typed
      <3>2. n \in 0..Len(stream)
        BY <3>1, LenProperties, SMT
      <3>3. SubSeq(stream, 1, n) \in Seq(Nat)
        BY <3>1, <3>2, TakeDrop
      <3>. QED BY <1>1, <3>1, <3>3, ConcatProperties
    <2>2. PICK g, at : IsOutcome(out, buffer, g, at)
      BY <1>2, <2>1, OutcomeIs
    <2>. QED BY <2>2, EmptySeq DEF IsOutcome
  <1>11. both = heard \o got /\ Len(heard) <= Len(both)
    <2>1. both = heard \o got
      BY <1>3, <1>4, <1>5, <1>10
    <2>2. Len(heard \o got) = Len(heard) + Len(got)
      BY ConcatProperties
    <2>3. Len(heard) \in Nat /\ Len(got) \in Nat
      BY LenProperties
    <2>4. Len(heard) <= Len(heard) + Len(got)
      BY <2>3, SMT
    <2>. QED BY <2>1, <2>2, <2>4
  <1>12. CASE out.fails
    <2>1. both = heard
      BY <1>10, <1>11, <1>12, ConcatEmptySeq
    <2>2. status' = "desynced"
      BY <1>3, <1>12
    <2>3. Heard!GiveUp
      BY <1>4, <1>5, <1>6, <1>7, <2>1, <2>2 DEF Heard!GiveUp
    <2>. QED BY <2>3 DEF Heard!Next
  <1>13. CASE ~out.fails
    <2>1. status' = status
      BY <1>3, <1>13
    <2>2. CASE Delivered(both, sent) = Delivered(heard, sent)
      <3>1. UNCHANGED Heard!channelVars
        BY <1>4, <1>5, <1>6, <1>7, <2>1, <2>2, ChannelState
      <3>. QED BY <3>1
    <2>3. CASE \E k \in Len(Delivered(heard, sent)) + 1..Len(sent) :
                  Delivered(both, sent) = SubSeq(sent, 1, k)
      <3>1. Heard!Deliver
        BY <1>3, <1>4, <1>5, <1>6, <1>7, <2>1, <2>3 DEF Heard!Deliver, Delivered
      <3>. QED BY <3>1 DEF Heard!Next
    <2>. QED BY <1>8, <1>9, <1>11, <2>2, <2>3, DeliversMore
  <1>. QED BY <1>12, <1>13

LEMMA OthersMap ==
    ASSUME CloseConnection \/ ReceiveEnd \/ Leave \/ UNCHANGED vars
    PROVE  [Heard!Next]_(Heard!channelVars)
  <1>1. frames' = frames /\ received' = received
    BY DEF CloseConnection, ReceiveEnd, Leave, vars, serverVars, clientVars
  <1>2. Sent' = Sent
    BY <1>1, SentIsSentOf
  <1>3. CASE ReceiveEnd \/ Leave
    <2>1. status' # "running"
      BY <1>3 DEF ReceiveEnd, Leave
    <2>2. Heard!GiveUp
      BY <1>1, <1>2, <2>1 DEF Heard!GiveUp
    <2>. QED BY <2>2 DEF Heard!Next
  <1>4. CASE CloseConnection \/ UNCHANGED vars
    <2>1. status' = status
      BY <1>4 DEF CloseConnection, vars, clientVars
    <2>2. UNCHANGED Heard!channelVars
      BY <1>1, <1>2, <2>1, ChannelState
    <2>. QED BY <2>2
  <1>. QED BY <1>3, <1>4

LEMMA NextMaps == Inv /\ Inv' /\ [Next]_vars => [Heard!Next]_(Heard!channelVars)
  <1> SUFFICES ASSUME Inv, Inv', [Next]_vars
               PROVE  [Heard!Next]_(Heard!channelVars)
    OBVIOUS
  <1>1. ASSUME NEW msg \in Messages, NEW k \in 1..Len(Frame(msg)), NetworkSend(msg, k)
        PROVE  [Heard!Next]_(Heard!channelVars)
    BY <1>1, SendMaps
  <1>2. ASSUME NEW n \in 1..Len(stream), ReceiveFromServer(n)
        PROVE  [Heard!Next]_(Heard!channelVars)
    BY <1>2, ReceiveMaps
  <1>. QED BY <1>1, <1>2, OthersMap DEF Next, Receive

LEMMA InitMaps == Init => Heard!Init
  <1> SUFFICES ASSUME Init
               PROVE  Heard!Init
    OBVIOUS
  <1>1. received = << >> /\ frames = << >> /\ status = "running"
    BY DEF Init
  <1>2. Inv
    BY InitInv
  <1>3. PICK sent \in Seq(Messages) : sent = Sent
    <2>1. frames \in Seq(SentFrame)
      BY <1>2 DEF Inv, Typed
    <2>. QED BY <1>2, <2>1, Known, SentOfIs
  <1>4. Len(sent) = 0
    <2>1. frames \in Seq(SentFrame) /\ Len(frames) = 0
      BY <1>1, <1>2 DEF Inv, Typed
    <2>2. Len(SentOf(frames)) \in 0..0
      BY <2>1, SentOfIs
    <2>3. Len(SentOf(frames)) = 0
      BY <2>2, SMT
    <2>. QED BY <1>2, <1>3, <2>3, Known
  <1>5. sent = << >>
    BY <1>4, EmptySeq
  <1>6. Delivered(received, sent) = << >>
    <2>1. Len(received) = 0
      BY <1>1
    <2>2. Min({0, 0}) = 0
      BY MinOfTwo
    <2>3. SubSeq(received, 1, 0) = << >>
      BY SubSeqEmpty
    <2>. QED BY <1>4, <2>1, <2>2, <2>3 DEF Delivered
  <1>. QED BY <1>1, <1>3, <1>5, <1>6 DEF Heard!Init, Delivered

\* ImplementsChannel: whatever is sent, torn, closed or reset, and in whatever pieces recv()
\* returns it, the client is handed the messages that were sent before the first torn frame,
\* in order, each once and unchanged, until it gives the connection up.
THEOREM FramingImplementsChannel == Spec => ImplementsChannel
  BY InitMaps, NextMaps, InvAlways, PTL DEF Spec, ImplementsChannel, Heard!Spec
=============================================================================
