-------------------------- MODULE ServerLoopProofs --------------------------
(***************************************************************************)
(* The tables of NetworkServer agree at every step of the server's loop,   *)
(* and streams that break off are given up, for any number of connections, *)
(* descriptors, messages and events, with and without assertions, and      *)
(* whatever send() and epoll_wait() return; and what the network layer     *)
(* hands to the game arrives whole and in order, belongs to the client it  *)
(* is attributed to, and has departures last.  Its variables have their    *)
(* types, which for client ids takes counting connections.                 *)
(*                                                                         *)
(* TablesAgree is not inductive alone: a step that closes, reads from or   *)
(* writes to a descriptor keeps it only if that descriptor is open, so     *)
(* the invariant also says where the loop gets its descriptors from.       *)
(***************************************************************************)
EXTENDS ServerLoop, WellFoundedInduction, FiniteSetTheorems, SequenceTheorems, TLAPS

\* What epoll_wait has reported, and whom broadcast() has not reached yet, is open.
DescriptorsOpen ==
    /\ phase = "receive" => events \subseteq DOMAIN connOf \cup {ServerFd}
    /\ phase = "broadcast" => targets \subseteq DOMAIN connOf

TablesTyped ==
    /\ nextClientId \in Nat
    /\ DOMAIN connOf \subseteq ClientFds
    /\ \A fd \in DOMAIN fdToClientId : fdToClientId[fd] \in Nat

Inv == TablesTyped /\ TablesAgree /\ DescriptorsOpen

LEMMA LeastFd ==
    ASSUME NEW S, S \subseteq Nat, S # {}
    PROVE  \E m \in S : \A n \in S : m <= n
  <1>1. PICK m \in S : \A n \in S : ~(<<n, m>> \in OpToRel(<, Nat))
    BY NatLessThanWellFounded, WFMin
  <1>2. \A n \in S : ~(n < m)
    BY <1>1 DEF OpToRel
  <1>. QED BY <1>2

LEMMA LowestFreeFdFree ==
    ASSUME FreeFds # {}
    PROVE  LowestFreeFd \in FreeFds
  <1>1. FreeFds \subseteq Nat
    BY SocketsAssumption DEF FreeFds
  <1>2. \E m \in FreeFds : \A n \in FreeFds : m <= n
    BY <1>1, LeastFd
  <1>. QED BY <1>2 DEF LowestFreeFd

-----------------------------------------------------------------------------
(* The operations of NetworkServer.                                        *)

TablesOK == TablesTyped /\ TablesAgree

LEMMA RegisterKeeps ==
    ASSUME TablesOK, NEW fd, fd \in FreeFds, NEW c,
           connOf' = With(connOf, fd, c), RegisterClient(fd), UNCHANGED fdsToDisconnect
    PROVE  TablesOK' /\ DOMAIN connOf \subseteq DOMAIN connOf'
  <1>1. fd \in ClientFds /\ fd \notin DOMAIN connOf
    BY DEF FreeFds
  <1>2. DOMAIN connOf' = DOMAIN connOf \cup {fd}
    BY DEF With
  <1>3. /\ DOMAIN fdToClientId' = DOMAIN fdToClientId \cup {fd}
        /\ DOMAIN fdToBuffer' = DOMAIN fdToBuffer \cup {fd}
        /\ DOMAIN clientIdToFd' = DOMAIN clientIdToFd \cup {nextClientId}
        /\ nextClientId' = nextClientId + 1
    BY DEF RegisterClient, With
  <1>4. /\ fdToClientId'[fd] = nextClientId
        /\ \A g \in DOMAIN fdToClientId : g # fd => fdToClientId'[g] = fdToClientId[g]
    BY DEF RegisterClient, With
  <1>5. /\ clientIdToFd'[nextClientId] = fd
        /\ \A id \in DOMAIN clientIdToFd :
              id # nextClientId => clientIdToFd'[id] = clientIdToFd[id]
    BY DEF RegisterClient, With
  <1>6. nextClientId \notin DOMAIN clientIdToFd
    BY DEF TablesOK, TablesTyped, TablesAgree
  <1>7. TablesTyped'
    BY <1>1, <1>2, <1>3, <1>4 DEF TablesOK, TablesTyped, TablesAgree
  <1>8. \A g \in DOMAIN fdToClientId' :
           /\ fdToClientId'[g] \in DOMAIN clientIdToFd'
           /\ clientIdToFd'[fdToClientId'[g]] = g
           /\ fdToClientId'[g] < nextClientId'
    <2>1. TAKE g \in DOMAIN fdToClientId'
    <2>2. CASE g = fd
      BY <1>3, <1>4, <1>5, <2>2 DEF TablesOK, TablesTyped
    <2>3. CASE g # fd
      BY <1>3, <1>4, <1>5, <1>6, <2>3 DEF TablesOK, TablesTyped, TablesAgree
    <2>. QED BY <2>2, <2>3
  <1>9. \A id \in DOMAIN clientIdToFd' :
           /\ clientIdToFd'[id] \in DOMAIN fdToClientId'
           /\ fdToClientId'[clientIdToFd'[id]] = id
    BY <1>1, <1>3, <1>4, <1>5, <1>6 DEF TablesOK, TablesTyped, TablesAgree
  <1>10. TablesAgree'
    BY <1>2, <1>3, <1>8, <1>9 DEF TablesOK, TablesAgree
  <1>. QED BY <1>2, <1>7, <1>10 DEF TablesOK

LEMMA AcceptKeeps ==
    ASSUME TablesOK, AcceptNewClient
    PROVE  TablesOK' /\ DOMAIN connOf \subseteq DOMAIN connOf'
  <1>1. CASE FreeFds = {}
    BY <1>1 DEF AcceptNewClient, TablesOK, TablesTyped, TablesAgree
  <1>2. CASE FreeFds # {}
    <2>1. LowestFreeFd \in FreeFds
      BY <1>2, LowestFreeFdFree
    <2>2. /\ connOf' = With(connOf, LowestFreeFd, Head(backlog))
          /\ RegisterClient(LowestFreeFd)
          /\ UNCHANGED fdsToDisconnect
      BY <1>2 DEF AcceptNewClient
    <2>. QED BY <2>1, <2>2, RegisterKeeps
  <1>. QED BY <1>1, <1>2

LEMMA DisconnectKeeps ==
    ASSUME TablesOK, DrainDisconnects
    PROVE  TablesOK'
  <1> DEFINE gone == fdsToDisconnect
             goneIds == {fdToClientId[fd] : fd \in gone}
  <1>1. DrainedFds = gone
    BY DEF DrainedFds, TablesOK, TablesAgree
  <1>2. /\ connOf' = Without(connOf, gone)
        /\ clientIdToFd' = Without(clientIdToFd, goneIds)
        /\ fdToClientId' = Without(fdToClientId, gone)
        /\ fdToBuffer' = Without(fdToBuffer, gone)
        /\ fdsToDisconnect' = {}
        /\ nextClientId' = nextClientId
    BY <1>1 DEF DrainDisconnects, DisconnectClients, CloseFds
  <1>3. /\ DOMAIN connOf' = DOMAIN connOf \ gone
        /\ DOMAIN clientIdToFd' = DOMAIN clientIdToFd \ goneIds
        /\ DOMAIN fdToClientId' = DOMAIN fdToClientId \ gone
        /\ DOMAIN fdToBuffer' = DOMAIN fdToBuffer \ gone
    BY <1>2 DEF Without
  <1>4. /\ \A fd \in DOMAIN fdToClientId' : fdToClientId'[fd] = fdToClientId[fd]
        /\ \A id \in DOMAIN clientIdToFd' : clientIdToFd'[id] = clientIdToFd[id]
    BY <1>2 DEF Without
  <1>5. \A fd \in DOMAIN fdToClientId : fd \notin gone => fdToClientId[fd] \notin goneIds
    BY DEF TablesOK, TablesAgree
  <1>6. \A id \in DOMAIN clientIdToFd : id \notin goneIds => clientIdToFd[id] \notin gone
    BY DEF TablesOK, TablesAgree
  <1> HIDE DEF gone, goneIds
  <1>7. TablesTyped'
    BY <1>2, <1>3, <1>4 DEF TablesOK, TablesTyped
  <1>8. \A fd \in DOMAIN fdToClientId' :
           /\ fdToClientId'[fd] \in DOMAIN clientIdToFd'
           /\ clientIdToFd'[fdToClientId'[fd]] = fd
           /\ fdToClientId'[fd] < nextClientId'
    BY <1>2, <1>3, <1>4, <1>5 DEF TablesOK, TablesAgree
  <1>9. \A id \in DOMAIN clientIdToFd' :
           /\ clientIdToFd'[id] \in DOMAIN fdToClientId'
           /\ fdToClientId'[clientIdToFd'[id]] = id
    BY <1>2, <1>3, <1>4, <1>6 DEF TablesOK, TablesAgree
  <1>10. TablesAgree'
    BY <1>2, <1>3, <1>8, <1>9 DEF TablesOK, TablesAgree
  <1>. QED BY <1>7, <1>10 DEF TablesOK

\* A step that closes nothing may mark open descriptors for closing.
LEMMA MarkKeeps ==
    ASSUME TablesOK,
           UNCHANGED <<connOf, nextClientId, fdToClientId, clientIdToFd>>,
           DOMAIN fdToBuffer' = DOMAIN fdToBuffer,
           NEW fd, fd \in DOMAIN connOf,
           fdsToDisconnect' \subseteq fdsToDisconnect \cup {fd}
    PROVE  TablesOK'
  BY DEF TablesOK, TablesTyped, TablesAgree

LEMMA ReceiveDataKeeps ==
    ASSUME TablesOK, NEW fd, fd \in DOMAIN connOf, NEW k, ReceiveData(fd, k)
    PROVE  TablesOK' /\ UNCHANGED connOf
  <1>1. /\ UNCHANGED <<connOf, nextClientId, fdToClientId, clientIdToFd>>
        /\ DOMAIN fdToBuffer' = DOMAIN fdToBuffer
        /\ fdsToDisconnect' \subseteq fdsToDisconnect \cup {fd}
    BY DEF ReceiveData
  <1>. QED BY <1>1, MarkKeeps

LEMMA ReceiveEndKeeps ==
    ASSUME TablesOK, NEW fd, fd \in DOMAIN connOf, ReceiveEnd(fd)
    PROVE  TablesOK' /\ UNCHANGED connOf
  <1>1. /\ UNCHANGED <<connOf, nextClientId, fdToClientId, clientIdToFd>>
        /\ DOMAIN fdToBuffer' = DOMAIN fdToBuffer
        /\ fdsToDisconnect' \subseteq fdsToDisconnect \cup {fd}
    BY DEF ReceiveEnd, socketVars
  <1>. QED BY <1>1, MarkKeeps

LEMMA SendKeeps ==
    ASSUME TablesOK, NEW fd, fd \in DOMAIN connOf, NEW outcome, NetworkSend(fd, outcome)
    PROVE  TablesOK' /\ UNCHANGED connOf
  <1>1. /\ UNCHANGED <<connOf, nextClientId, fdToClientId, clientIdToFd>>
        /\ DOMAIN fdToBuffer' = DOMAIN fdToBuffer
        /\ fdsToDisconnect' \subseteq fdsToDisconnect \cup {fd}
    BY DEF NetworkSend
  <1>. QED BY <1>1, MarkKeeps

LEMMA QuietKeeps ==
    ASSUME TablesOK, UNCHANGED <<connOf, tableVars>>
    PROVE  TablesOK' /\ UNCHANGED connOf
  BY DEF TablesOK, TablesTyped, TablesAgree, tableVars

-----------------------------------------------------------------------------
(* The loop.                                                               *)

LEMMA InvInit == Init => Inv
  <1> SUFFICES ASSUME Init PROVE Inv
    OBVIOUS
  <1>1. /\ connOf = << >> /\ fdToClientId = << >> /\ clientIdToFd = << >>
        /\ fdToBuffer = << >> /\ fdsToDisconnect = {} /\ nextClientId = 1
        /\ phase = "poll"
    BY DEF Init, SocketsInit, NetworkInit
  <1>2. DOMAIN << >> = {}
    OBVIOUS
  <1>. QED BY <1>1, <1>2 DEF Inv, TablesTyped, TablesAgree, DescriptorsOpen

LEMMA ServerStepKeeps ==
    ASSUME Inv, ServerStep
    PROVE  Inv'
  <1>0. TablesOK /\ DescriptorsOpen
    BY DEF Inv, TablesOK
  <1> SUFFICES TablesOK' /\ DescriptorsOpen'
    BY DEF Inv, TablesOK
  <1>1. CASE AssertNoneToDisconnect \/ DeserialiseThrows \/ DispatchJoinThrows
    <2>1. UNCHANGED <<connOf, tableVars>> /\ phase' = "crashed"
      BY <1>1 DEF AssertNoneToDisconnect, DeserialiseThrows, DispatchJoinThrows, Crash,
                  socketVars
    <2>. QED BY <1>0, <2>1, QuietKeeps DEF DescriptorsOpen
  <1>2. CASE \E reported \in SUBSET ReadyFds : EpollWait(reported)
    <2>1. /\ UNCHANGED <<connOf, tableVars>>
          /\ phase' = "receive"
          /\ events' \subseteq ReadyFds
      BY <1>2 DEF EpollWait, socketVars
    <2>2. ReadyFds \subseteq DOMAIN connOf \cup {ServerFd}
      BY DEF ReadyFds
    <2>. QED BY <1>0, <2>1, <2>2, QuietKeeps DEF DescriptorsOpen
  <1>3. CASE Accept
    <2>1. AcceptNewClient /\ phase = "receive" /\ phase' = "receive" /\ events' \subseteq events
      BY <1>3 DEF Accept
    <2>. QED BY <1>0, <2>1, AcceptKeeps DEF DescriptorsOpen
  <1>4. CASE \E fd \in ClientFds : Receive(fd)
    <2>1. PICK fd \in ClientFds : Receive(fd)
      BY <1>4
    <2>2. /\ fd \in DOMAIN connOf
          /\ phase = "receive" /\ phase' = "receive" /\ events' \subseteq events
      BY <1>0, <2>1 DEF Receive, DescriptorsOpen
    <2>3. TablesOK' /\ UNCHANGED connOf
      <3>1. (\E k \in 1..Len(inbox[connOf[fd]]) : ReceiveData(fd, k)) \/ ReceiveEnd(fd)
        BY <2>1 DEF Receive
      <3>. QED BY <1>0, <2>2, <3>1, ReceiveDataKeeps, ReceiveEndKeeps
    <2>. QED BY <1>0, <2>2, <2>3 DEF DescriptorsOpen
  <1>5. CASE Drain
    <2>1. DrainDisconnects /\ phase' = "dispatch"
      BY <1>5 DEF Drain
    <2>. QED BY <1>0, <2>1, DisconnectKeeps DEF DescriptorsOpen
  <1>6. CASE \E outcome \in {"sent", "partial", "error"} : DispatchJoin(outcome)
    <2>1. PICK outcome \in {"sent", "partial", "error"} : DispatchJoin(outcome)
      BY <1>6
    <2> DEFINE fd == clientIdToFd[Head(batch).clientId]
    <2>2. fd \in DOMAIN connOf /\ NetworkSend(fd, outcome) /\ phase' = "dispatch"
      BY <1>0, <2>1 DEF DispatchJoin, Dispatching, TablesOK, TablesAgree
    <2> HIDE DEF fd
    <2>. QED BY <1>0, <2>2, SendKeeps DEF DescriptorsOpen
  <1>7. CASE DispatchInput \/ DispatchDisconnect
    <2>1. UNCHANGED <<connOf, tableVars>> /\ phase' = "dispatch"
      BY <1>7 DEF DispatchInput, DispatchDisconnect, Dispatching, socketVars
    <2>. QED BY <1>0, <2>1, QuietKeeps DEF DescriptorsOpen
  <1>8. CASE \E moved \in BOOLEAN, dead \in SUBSET players : PlayTick(moved, dead)
    <2>1. /\ UNCHANGED <<connOf, tableVars>>
          /\ phase' = "poll" \/ (phase' = "broadcast" /\ targets' = DOMAIN fdToClientId)
      BY <1>8 DEF PlayTick, socketVars
    <2>2. DOMAIN fdToClientId = DOMAIN connOf
      BY <1>0 DEF TablesOK, TablesAgree
    <2>. QED BY <1>0, <2>1, <2>2, QuietKeeps DEF DescriptorsOpen
  <1>9. CASE \E fd \in ClientFds, outcome \in {"sent", "partial", "error"} : BroadcastTo(fd, outcome)
    <2>1. PICK fd \in ClientFds, outcome \in {"sent", "partial", "error"} : BroadcastTo(fd, outcome)
      BY <1>9
    <2>2. /\ fd \in DOMAIN connOf /\ NetworkSend(fd, outcome)
          /\ phase = "broadcast" /\ phase' = "broadcast" /\ targets' \subseteq targets
      BY <1>0, <2>1 DEF BroadcastTo, DescriptorsOpen
    <2>. QED BY <1>0, <2>2, SendKeeps DEF DescriptorsOpen
  <1>10. CASE BroadcastDone
    <2>1. UNCHANGED <<connOf, tableVars>> /\ phase' = "poll"
      BY <1>10 DEF BroadcastDone, socketVars
    <2>. QED BY <1>0, <2>1, QuietKeeps DEF DescriptorsOpen
  <1>. QED BY <1>1, <1>2, <1>3, <1>4, <1>5, <1>6, <1>7, <1>8, <1>9, <1>10 DEF ServerStep

LEMMA InvNext == Inv /\ [Next]_vars => Inv'
  <1> SUFFICES ASSUME Inv, [Next]_vars PROVE Inv'
    OBVIOUS
  <1>1. CASE ServerStep
    BY <1>1, ServerStepKeeps
  <1>2. CASE PeerStep /\ UNCHANGED <<tableVars, loopVars>>
    <2>1. UNCHANGED connOf
      BY <1>2 DEF PeerStep, Connect, SendFrame, Close, Reset
    <2>. QED BY <1>2, <2>1, QuietKeeps DEF Inv, TablesOK, DescriptorsOpen, loopVars
  <1>3. CASE UNCHANGED vars
    BY <1>3, QuietKeeps DEF Inv, TablesOK, DescriptorsOpen, vars, socketVars, loopVars
  <1>. QED BY <1>1, <1>2, <1>3 DEF Next

-----------------------------------------------------------------------------
\* TablesAgree: whoever comes, goes, stalls or floods the server, the maps of
\* NetworkServer describe the same connections, and descriptors that the kernel hands
\* out again never meet an entry of their former owner.
THEOREM TablesAlwaysAgree == Spec => []TablesAgree
  <1>1. Inv => TablesAgree
    BY DEF Inv
  <1>. QED BY <1>1, InvInit, InvNext, PTL DEF Spec

-----------------------------------------------------------------------------
(* The connections behind the descriptors.  Each is new, waiting in the    *)
(* backlog, or held by one descriptor, and nothing has been sent to it     *)
(* before it is held.                                                      *)

Waiting == {backlog[i] : i \in 1..Len(backlog)}

ConnsTyped ==
    /\ peer \in [Conns -> {"new", "open", "closed", "reset"}]
    /\ stream \in [Conns -> {"clean", "torn", "corrupt"}]
    /\ backlog \in Seq(Conns)
    /\ \A fd \in DOMAIN connOf : connOf[fd] \in Conns

ConnsApart ==
    /\ \A fd, gd \in DOMAIN connOf : connOf[fd] = connOf[gd] => fd = gd
    /\ \A i, j \in 1..Len(backlog) : backlog[i] = backlog[j] => i = j
    /\ \A fd \in DOMAIN connOf : connOf[fd] \notin Waiting /\ peer[connOf[fd]] # "new"
    /\ \A c \in Waiting : peer[c] # "new" /\ stream[c] = "clean"
    /\ \A c \in Conns : peer[c] = "new" => stream[c] = "clean"

ConnsOK == ConnsTyped /\ ConnsApart

LEMMA WaitingType == ConnsOK => Waiting \subseteq Conns
  <1>1. ConnsOK => \A i \in 1..Len(backlog) : backlog[i] \in Conns
    BY SMT DEF ConnsOK, ConnsTyped
  <1>. QED BY <1>1 DEF Waiting

\* The backlog after accept() has taken its head.
LEMMA BacklogTail ==
    ASSUME ConnsOK, backlog # << >>
    PROVE  /\ Head(backlog) \in Waiting
           /\ Tail(backlog) \in Seq(Conns)
           /\ {Tail(backlog)[i] : i \in 1..Len(Tail(backlog))} = Waiting \ {Head(backlog)}
           /\ \A i, j \in 1..Len(Tail(backlog)) : Tail(backlog)[i] = Tail(backlog)[j] => i = j
  <1> DEFINE s == Tail(backlog)
  <1>1. backlog \in Seq(Conns)
    BY DEF ConnsOK, ConnsTyped
  <1>2. PICK n \in Nat : n = Len(s) /\ Len(backlog) = n + 1
    BY <1>1, SMT
  <1>3. s \in Seq(Conns) /\ Head(backlog) = backlog[1] /\ \A i \in 1..n : s[i] = backlog[i + 1]
    BY <1>1, <1>2, SMT
  <1> HIDE DEF s
  <1>4. \A i, j \in 1..(n + 1) : backlog[i] = backlog[j] => i = j
    BY <1>2 DEF ConnsOK, ConnsApart
  <1>5. 1 \in 1..(n + 1) /\ \A i \in 1..n : i + 1 \in 1..(n + 1) /\ i + 1 # 1
    BY SMT
  <1>6. \A i \in 1..(n + 1) : i # 1 => i - 1 \in 1..n /\ (i - 1) + 1 = i
    BY SMT
  <1>7. \A i, j \in 1..n : s[i] = s[j] => i = j
    <2>1. \A i, j \in 1..n : i + 1 = j + 1 => i = j
      BY SMT
    <2>. QED BY <1>3, <1>4, <1>5, <2>1
  <1>8. {s[i] : i \in 1..n} = {backlog[i] : i \in 1..(n + 1)} \ {backlog[1]}
    <2> DEFINE all == {backlog[i] : i \in 1..(n + 1)}
               rest == {s[i] : i \in 1..n}
    <2>1. ASSUME NEW i \in 1..n PROVE s[i] \in all \ {backlog[1]}
      BY <1>3, <1>4, <1>5
    <2>2. ASSUME NEW i \in 1..(n + 1), backlog[i] # backlog[1] PROVE backlog[i] \in rest
      <3>1. i - 1 \in 1..n /\ (i - 1) + 1 = i
        BY <1>6, <2>2
      <3>2. s[i - 1] = backlog[i]
        BY <1>3, <3>1
      <3>. QED BY <3>1, <3>2
    <2>. QED BY <2>1, <2>2
  <1>. QED BY <1>2, <1>3, <1>5, <1>7, <1>8 DEF Waiting, s

LEMMA ConnsQuiet ==
    ASSUME ConnsOK, UNCHANGED <<peer, backlog, connOf, stream>>
    PROVE  ConnsOK'
  BY DEF ConnsOK, ConnsTyped, ConnsApart, Waiting

LEMMA ConnsAccept ==
    ASSUME ConnsOK, AcceptNewClient
    PROVE  /\ ConnsOK' /\ UNCHANGED <<peer, stream>>
           /\ \A fd \in DOMAIN connOf' :
                \/ fd \in DOMAIN connOf /\ connOf'[fd] = connOf[fd]
                \/ fd \in FreeFds /\ stream[connOf'[fd]] = "clean"
  <1>1. CASE FreeFds = {}
    <2>1. UNCHANGED <<peer, backlog, connOf, stream>>
      BY <1>1 DEF AcceptNewClient
    <2>. QED BY <2>1, ConnsQuiet
  <1>2. CASE FreeFds # {}
    <2> DEFINE fd == LowestFreeFd
               c == Head(backlog)
    <2>1. /\ backlog # << >> /\ connOf' = With(connOf, fd, c) /\ backlog' = Tail(backlog)
          /\ UNCHANGED <<peer, stream>>
      BY <1>2 DEF AcceptNewClient
    <2>2. fd \in FreeFds /\ fd \notin DOMAIN connOf
      BY <1>2, LowestFreeFdFree DEF FreeFds
    <2>3. /\ c \in Waiting /\ backlog' \in Seq(Conns)
          /\ Waiting' = Waiting \ {c}
          /\ \A i, j \in 1..Len(backlog') : backlog'[i] = backlog'[j] => i = j
      BY <2>1, BacklogTail DEF Waiting
    <2>4. c \in Conns
      BY <2>3, WaitingType
    <2> HIDE DEF fd, c
    <2>5. /\ DOMAIN connOf' = DOMAIN connOf \cup {fd} /\ connOf'[fd] = c
          /\ \A gd \in DOMAIN connOf : gd # fd => connOf'[gd] = connOf[gd]
      BY <2>1 DEF With
    <2>6. ConnsTyped'
      BY <2>1, <2>3, <2>4, <2>5 DEF ConnsOK, ConnsTyped
    <2>7. ConnsApart'
      BY <2>1, <2>2, <2>3, <2>4, <2>5 DEF ConnsOK, ConnsApart
    <2>8. stream[c] = "clean"
      BY <2>3 DEF ConnsOK, ConnsApart
    <2>. QED BY <2>1, <2>2, <2>5, <2>6, <2>7, <2>8 DEF ConnsOK, fd
  <1>. QED BY <1>1, <1>2

\* A send only touches the stream of its descriptor's connection.
LEMMA ConnsSend ==
    ASSUME ConnsOK, NEW fd, fd \in DOMAIN connOf,
           NEW outcome \in {"sent", "partial", "error"}, NetworkSend(fd, outcome)
    PROVE  /\ ConnsOK' /\ UNCHANGED connOf
           /\ \A gd \in DOMAIN connOf :
                gd # fd => stream'[connOf[gd]] = stream[connOf[gd]]
           /\ stream'[connOf[fd]] # "clean" =>
                fd \in fdsToDisconnect' \/ stream[connOf[fd]] # "clean"
  <1> DEFINE c == connOf[fd]
  <1>1. /\ stream' = [stream EXCEPT ![c] = StreamAfter(c, outcome)]
        /\ fdsToDisconnect' = IF outcome = "sent" THEN fdsToDisconnect
                                               ELSE fdsToDisconnect \cup {fd}
        /\ UNCHANGED <<peer, framesSent, inbox, backlog, connOf>>
    BY DEF NetworkSend
  <1>2. c \in Conns /\ stream \in [Conns -> {"clean", "torn", "corrupt"}]
    BY DEF ConnsOK, ConnsTyped
  <1>3. /\ StreamAfter(c, outcome) \in {"clean", "torn", "corrupt"}
        /\ outcome = "sent" /\ stream[c] = "clean" => StreamAfter(c, outcome) = "clean"
    BY <1>2 DEF StreamAfter
  <1> HIDE DEF c
  <1>4. /\ stream' \in [Conns -> {"clean", "torn", "corrupt"}]
        /\ stream'[c] = StreamAfter(c, outcome)
        /\ \A d \in Conns : d # c => stream'[d] = stream[d]
    BY <1>1, <1>2, <1>3
  <1>5. c \notin Waiting /\ peer[c] # "new"
        /\ \A gd \in DOMAIN connOf : gd # fd => connOf[gd] # c
    BY DEF ConnsOK, ConnsApart, c
  <1>6. ConnsTyped'
    BY <1>1, <1>4 DEF ConnsOK, ConnsTyped
  <1>7. Waiting \subseteq Conns /\ Waiting' = Waiting
    BY <1>1, WaitingType DEF Waiting
  <1>8. ConnsApart'
    BY <1>1, <1>4, <1>5, <1>7 DEF ConnsOK, ConnsApart
  <1>9. \A gd \in DOMAIN connOf : gd # fd => stream'[connOf[gd]] = stream[connOf[gd]]
    BY <1>4, <1>5 DEF ConnsOK, ConnsTyped
  <1>10. stream'[c] # "clean" => fd \in fdsToDisconnect' \/ stream[c] # "clean"
    BY <1>1, <1>3, <1>4
  <1>. QED BY <1>1, <1>6, <1>8, <1>9, <1>10 DEF ConnsOK, c

LEMMA ConnsDrain ==
    ASSUME ConnsOK, TablesOK, DrainDisconnects
    PROVE  /\ ConnsOK' /\ UNCHANGED stream
           /\ DOMAIN connOf' = DOMAIN connOf \ fdsToDisconnect
           /\ \A fd \in DOMAIN connOf' : connOf'[fd] = connOf[fd]
  <1>1. DrainedFds = fdsToDisconnect
    BY DEF DrainedFds, TablesOK, TablesAgree
  <1>2. /\ connOf' = Without(connOf, fdsToDisconnect)
        /\ peer' = [c \in Conns |-> IF c \in {connOf[fd] : fd \in fdsToDisconnect}
                                       THEN "closed" ELSE peer[c]]
        /\ UNCHANGED <<framesSent, backlog, stream>>
    BY <1>1 DEF DrainDisconnects, DisconnectClients, CloseFds
  <1>3. /\ DOMAIN connOf' = DOMAIN connOf \ fdsToDisconnect
        /\ \A fd \in DOMAIN connOf' : connOf'[fd] = connOf[fd]
    BY <1>2 DEF Without
  <1>4. \A c \in Conns : peer'[c] = peer[c] \/ peer'[c] = "closed"
    BY <1>2
  <1>5. ConnsTyped'
    BY <1>2, <1>3 DEF ConnsOK, ConnsTyped
  <1>6. Waiting \subseteq Conns /\ Waiting' = Waiting
    BY <1>2, WaitingType DEF Waiting
  <1>7. ConnsApart'
    BY <1>2, <1>3, <1>4, <1>6 DEF ConnsOK, ConnsApart, ConnsTyped
  <1>. QED BY <1>2, <1>3, <1>5, <1>7 DEF ConnsOK

LEMMA ConnsPeer ==
    ASSUME ConnsOK, PeerStep
    PROVE  ConnsOK' /\ UNCHANGED <<stream, connOf>>
  <1>1. ASSUME NEW c \in Conns, Connect(c)
        PROVE  ConnsOK' /\ UNCHANGED <<stream, connOf>>
    <2>1. /\ peer[c] = "new" /\ peer' = [peer EXCEPT ![c] = "open"]
          /\ backlog' = Append(backlog, c) /\ UNCHANGED <<connOf, stream>>
      BY <1>1 DEF Connect
    <2>2. PICK n \in Nat : n = Len(backlog)
      BY SMT DEF ConnsOK, ConnsTyped
    <2>3. /\ backlog' \in Seq(Conns) /\ Len(backlog') = n + 1 /\ backlog'[n + 1] = c
          /\ \A i \in 1..n : backlog'[i] = backlog[i]
      BY <2>1, <2>2, SMT DEF ConnsOK, ConnsTyped
    <2>4. 1..(n + 1) = (1..n) \cup {n + 1} /\ n + 1 \notin 1..n
      BY SMT
    <2>5. c \notin Waiting
      BY <2>1 DEF ConnsOK, ConnsApart
    <2>6. Waiting' = Waiting \cup {c}
      BY <2>2, <2>3, <2>4 DEF Waiting
    <2>7. \A i, j \in 1..(n + 1) : backlog'[i] = backlog'[j] => i = j
      BY <2>2, <2>3, <2>4, <2>5 DEF ConnsOK, ConnsApart, Waiting
    <2>8. ConnsTyped'
      BY <2>1, <2>3 DEF ConnsOK, ConnsTyped
    <2>9. \A d \in Conns : d # c => peer'[d] = peer[d]
      BY <2>1 DEF ConnsOK, ConnsTyped
    <2>10. peer'[c] = "open"
      BY <2>1 DEF ConnsOK, ConnsTyped
    <2>11. Waiting \subseteq Conns
      BY WaitingType
    <2>12. ConnsApart'
      BY <2>1, <2>3, <2>6, <2>7, <2>9, <2>10, <2>11 DEF ConnsOK, ConnsApart, ConnsTyped
    <2>. QED BY <2>1, <2>8, <2>12 DEF ConnsOK
  <1>2. ASSUME NEW c \in Conns, NEW kind \in Kinds, SendFrame(c, kind)
        PROVE  ConnsOK' /\ UNCHANGED <<stream, connOf>>
    BY <1>2, ConnsQuiet DEF SendFrame
  <1>3. ASSUME NEW c \in Conns, Close(c) \/ Reset(c)
        PROVE  ConnsOK' /\ UNCHANGED <<stream, connOf>>
    <2>1. /\ peer[c] = "open" /\ UNCHANGED <<backlog, connOf, stream>>
          /\ peer' = [peer EXCEPT ![c] = "closed"] \/ peer' = [peer EXCEPT ![c] = "reset"]
      BY <1>3 DEF Close, Reset
    <2>2. /\ peer' \in [Conns -> {"new", "open", "closed", "reset"}]
          /\ \A d \in Conns : peer'[d] = "new" <=> peer[d] = "new"
      BY <2>1 DEF ConnsOK, ConnsTyped
    <2>3. Waiting' = Waiting /\ Waiting \subseteq Conns
      BY <2>1, WaitingType DEF Waiting
    <2>4. ConnsTyped'
      BY <2>1, <2>2 DEF ConnsOK, ConnsTyped
    <2>5. ConnsApart'
      BY <2>1, <2>2, <2>3 DEF ConnsOK, ConnsApart, ConnsTyped
    <2>. QED BY <2>1, <2>4, <2>5 DEF ConnsOK
  <1>. QED BY <1>1, <1>2, <1>3 DEF PeerStep

-----------------------------------------------------------------------------
(* Streams that break off.                                                 *)

TornInv == Inv /\ ConnsOK /\ TornStreamsAreClosing

LEMMA TornInvInit == Init => TornInv
  <1> SUFFICES ASSUME Init PROVE TornInv
    OBVIOUS
  <1>1. /\ peer = [c \in Conns |-> "new"] /\ stream = [c \in Conns |-> "clean"]
        /\ backlog = << >> /\ connOf = << >>
    BY DEF Init, SocketsInit
  <1>2. DOMAIN << >> = {} /\ << >> \in Seq(Conns) /\ 1..Len(<< >>) = {}
    BY SMT
  <1>3. Waiting = {}
    BY <1>1, <1>2 DEF Waiting
  <1>4. ConnsOK /\ TornStreamsAreClosing
    BY <1>1, <1>2, <1>3 DEF ConnsOK, ConnsTyped, ConnsApart, TornStreamsAreClosing
  <1>. QED BY <1>4, InvInit DEF TornInv

\* A step that sends nothing and closes nothing.
LEMMA TornQuiet ==
    ASSUME TornStreamsAreClosing, UNCHANGED <<stream, connOf>>,
           fdsToDisconnect \subseteq fdsToDisconnect'
    PROVE  TornStreamsAreClosing'
  BY DEF TornStreamsAreClosing

LEMMA TornSend ==
    ASSUME ConnsOK, TornStreamsAreClosing, NEW fd, fd \in DOMAIN connOf,
           NEW outcome \in {"sent", "partial", "error"}, NetworkSend(fd, outcome)
    PROVE  ConnsOK' /\ TornStreamsAreClosing'
  <1>1. fdsToDisconnect \subseteq fdsToDisconnect'
    BY DEF NetworkSend
  <1>. QED BY <1>1, ConnsSend DEF TornStreamsAreClosing

LEMMA TornInvNext == TornInv /\ [Next]_vars => TornInv'
  <1> SUFFICES ASSUME TornInv, [Next]_vars PROVE TornInv'
    OBVIOUS
  <1>0. /\ Inv /\ Inv' /\ TablesOK /\ DescriptorsOpen
        /\ ConnsOK /\ TornStreamsAreClosing
    BY InvNext DEF TornInv, Inv, TablesOK
  <1> SUFFICES ConnsOK' /\ TornStreamsAreClosing'
    BY <1>0 DEF TornInv
  <1> DEFINE Quiet == /\ UNCHANGED <<peer, backlog, connOf, stream>>
                      /\ fdsToDisconnect \subseteq fdsToDisconnect'
  <1>a. Quiet => ConnsOK' /\ TornStreamsAreClosing'
    BY <1>0, ConnsQuiet, TornQuiet
  <1>1. CASE \/ AssertNoneToDisconnect \/ DeserialiseThrows \/ DispatchJoinThrows
             \/ \E reported \in SUBSET ReadyFds : EpollWait(reported)
             \/ DispatchInput \/ DispatchDisconnect \/ BroadcastDone
             \/ \E moved \in BOOLEAN, dead \in SUBSET players : PlayTick(moved, dead)
             \/ UNCHANGED vars
    <2>1. Quiet
      BY <1>1 DEF AssertNoneToDisconnect, DeserialiseThrows, DispatchJoinThrows, Crash,
                  EpollWait, DispatchInput, DispatchDisconnect, BroadcastDone, PlayTick, vars,
                  socketVars, tableVars
    <2>. QED BY <1>a, <2>1
  <1>2. CASE Accept
    <2>1. AcceptNewClient /\ fdsToDisconnect' = fdsToDisconnect
      BY <1>2 DEF Accept, AcceptNewClient
    <2>2. ConnsOK' /\ stream' = stream
          /\ \A fd \in DOMAIN connOf' :
                \/ fd \in DOMAIN connOf /\ connOf'[fd] = connOf[fd]
                \/ fd \in FreeFds /\ stream[connOf'[fd]] = "clean"
      BY <1>0, <2>1, ConnsAccept
    <2>. QED BY <1>0, <2>1, <2>2 DEF TornStreamsAreClosing
  <1>3. CASE \E fd \in ClientFds : Receive(fd)
    <2>1. Quiet
      BY <1>3 DEF Receive, ReceiveData, ReceiveEnd, socketVars
    <2>. QED BY <1>a, <2>1
  <1>4. CASE Drain
    <2>1. DrainDisconnects
      BY <1>4 DEF Drain
    <2>. QED BY <1>0, <2>1, ConnsDrain DEF TornStreamsAreClosing
  <1>5. CASE \E outcome \in {"sent", "partial", "error"} : DispatchJoin(outcome)
    <2>1. PICK outcome \in {"sent", "partial", "error"} : DispatchJoin(outcome)
      BY <1>5
    <2> DEFINE fd == clientIdToFd[Head(batch).clientId]
    <2>2. fd \in DOMAIN connOf /\ NetworkSend(fd, outcome)
      BY <1>0, <2>1 DEF DispatchJoin, Dispatching, TablesOK, TablesAgree
    <2> HIDE DEF fd
    <2>. QED BY <1>0, <2>2, TornSend
  <1>6. CASE \E fd \in ClientFds, outcome \in {"sent", "partial", "error"} :
                BroadcastTo(fd, outcome)
    <2>1. PICK fd \in ClientFds, outcome \in {"sent", "partial", "error"} :
               BroadcastTo(fd, outcome)
      BY <1>6
    <2>2. fd \in DOMAIN connOf /\ NetworkSend(fd, outcome)
      BY <1>0, <2>1 DEF BroadcastTo, DescriptorsOpen
    <2>. QED BY <1>0, <2>2, TornSend
  <1>7. CASE PeerStep /\ UNCHANGED <<tableVars, loopVars>>
    <2>1. fdsToDisconnect' = fdsToDisconnect
      BY <1>7 DEF tableVars
    <2>. QED BY <1>0, <1>7, <2>1, ConnsPeer, TornQuiet
  <1>. QED BY <1>1, <1>2, <1>3, <1>4, <1>5, <1>6, <1>7 DEF Next, ServerStep

LEMMA TornInvAlways == Spec => []TornInv
  BY TornInvInit, TornInvNext, PTL DEF Spec

\* TornStreamsAreClosing: a descriptor to which a send() has gone through in part only
\* is marked from then on until it is closed, whoever sends to it in between, and a
\* descriptor handed out again never inherits a broken stream.
THEOREM TornStreamsAlwaysClose == Spec => []TornStreamsAreClosing
  <1>1. TornInv => TornStreamsAreClosing
    BY DEF TornInv
  <1>. QED BY <1>1, TornInvAlways, PTL

-----------------------------------------------------------------------------
(* Parsing a buffer.                                                       *)

\* The least number of frames that ends the parsing of a buffer of n complete frames.
LEMMA LeastStop ==
    ASSUME NEW n \in Nat, NEW P, P \subseteq 0..n, n \in P
    PROVE  \E m \in P : \A i \in 0..n : i < m => i \notin P
  <1>1. P \subseteq Nat /\ P # {}
    BY SMT
  <1>2. PICK m \in P : \A k \in P : m <= k
    BY <1>1, LeastFd
  <1>3. \A i \in 0..n : i < m => ~(m <= i)
    BY <1>1, SMT
  <1>. QED BY <1>2, <1>3

LEMMA FrameCountStops ==
    ASSUME NEW buffer \in Seq(Chunks)
    PROVE  /\ FrameCount(buffer) \in 0..(Len(buffer) \div 2)
           /\ \/ FrameCount(buffer) = Len(buffer) \div 2
              \/ buffer[2 * FrameCount(buffer) + 1].kind = "huge"
  <1> DEFINE half == Len(buffer) \div 2
             Huge(n) == buffer[2 * n + 1].kind = "huge"
             P == {n \in 0..half : n = half \/ Huge(n)}
  <1>1. half \in Nat
    BY SMT
  <1> HIDE DEF half
  <1>2. PICK m \in P : \A i \in 0..half : i < m => i \notin P
    <2>1. P \subseteq 0..half /\ half \in P
      BY <1>1, SMT
    <2> HIDE DEF P
    <2>. QED BY <1>1, <2>1, LeastStop
  <1>3. \A i \in 1..m : buffer[2 * i - 1].kind # "huge"
    <2> SUFFICES ASSUME NEW i \in 1..m PROVE buffer[2 * i - 1].kind # "huge"
      OBVIOUS
    <2>1. i - 1 \in 0..half /\ i - 1 < m /\ 2 * (i - 1) + 1 = 2 * i - 1 /\ i - 1 # half
      BY <1>1, SMT
    <2>2. ~Huge(i - 1)
      BY <1>2, <2>1
    <2>. QED BY <2>1, <2>2
  <1>4. m \in 0..half /\ (m = half \/ Huge(m))
    OBVIOUS
  <1>5. \E n \in 0..half :
           /\ \A i \in 1..n : buffer[2 * i - 1].kind # "huge"
           /\ n = half \/ buffer[2 * n + 1].kind = "huge"
    BY <1>3, <1>4
  <1>6. FrameCount(buffer) = CHOOSE n \in 0..half :
           /\ \A i \in 1..n : buffer[2 * i - 1].kind # "huge"
           /\ n = half \/ buffer[2 * n + 1].kind = "huge"
    BY DEF FrameCount, half
  <1>7. /\ FrameCount(buffer) \in 0..half
        /\ FrameCount(buffer) = half \/ buffer[2 * FrameCount(buffer) + 1].kind = "huge"
    BY <1>5, <1>6
  <1>. QED BY <1>7 DEF half

\* What is left of two sequences in a row when m elements of the first are gone.
LEMMA DropFront ==
    ASSUME NEW s \in Seq(Chunks), NEW t \in Seq(Chunks), NEW m \in Nat, m <= Len(s)
    PROVE  /\ SubSeq(s, m + 1, Len(s)) \in Seq(Chunks)
           /\ Len(SubSeq(s, m + 1, Len(s))) = Len(s) - m
           /\ \A i \in 1..(Len(s) - m) : SubSeq(s, m + 1, Len(s))[i] = s[i + m]
           /\ Len(SubSeq(s, m + 1, Len(s)) \o t) = Len(s) + Len(t) - m
           /\ Len(s \o t) = Len(s) + Len(t)
           /\ \A i \in 1..(Len(s) + Len(t) - m) :
                 (SubSeq(s, m + 1, Len(s)) \o t)[i] = (s \o t)[i + m]
  <1>a. PICK S \in Nat : S = Len(s)
    BY LenProperties
  <1>b. PICK T \in Nat : T = Len(t)
    BY LenProperties
  <1>c. m <= S
    BY <1>a
  <1> DEFINE r == SubSeq(s, m + 1, S)
  <1>1. /\ r \in Seq(Chunks) /\ Len(r) = S - m
        /\ \A i \in 1..(S - m) : r[i] = s[i + m]
    BY <1>a, <1>c, SMT
  <1> HIDE DEF r
  <1>2. PICK R \in Nat : R = S - m
    <2>1. S - m \in Nat
      BY <1>c, SMT
    <2>. QED BY <2>1
  <1>3. /\ r \o t \in Seq(Chunks) /\ Len(r \o t) = R + T
        /\ \A i \in 1..(R + T) : (r \o t)[i] = IF i <= R THEN r[i] ELSE t[i - R]
    <2>1. /\ r \o t \in Seq(Chunks) /\ Len(r \o t) = Len(r) + Len(t)
          /\ \A i \in 1..(Len(r) + Len(t)) :
                (r \o t)[i] = IF i <= Len(r) THEN r[i] ELSE t[i - Len(r)]
      BY <1>1, ConcatProperties
    <2>2. Len(r) = R /\ Len(t) = T
      BY <1>b, <1>1, <1>2
    <2>. QED BY <2>1, <2>2, Zenon
  <1>4. /\ Len(s \o t) = S + T
        /\ \A i \in 1..(S + T) : (s \o t)[i] = IF i <= S THEN s[i] ELSE t[i - S]
    BY <1>a, <1>b, ConcatProperties
  <1>5. R + T = S + T - m /\ R = S - m
    BY <1>2, SMT
  <1>6. \A i \in 1..(R + T) :
           /\ i + m \in 1..(S + T)
           /\ i <= R => i + m <= S /\ i \in 1..R
           /\ ~(i <= R) => ~(i + m <= S) /\ i - R = (i + m) - S
    BY <1>2, SMT
  <1>7. \A i \in 1..(R + T) : (r \o t)[i] = (s \o t)[i + m]
    BY <1>1, <1>3, <1>4, <1>5, <1>6
  <1>. QED BY <1>a, <1>b, <1>1, <1>3, <1>4, <1>5, <1>7, Zenon DEF r

LEMMA Joined ==
    ASSUME NEW s \in Seq(Chunks), NEW S \in Nat, S = Len(s), NEW t \in Seq(Chunks)
    PROVE  \A i \in 1..S : (s \o t)[i] = s[i]
  BY SMT

LEMMA Regroup == \A s, t, u \in Seq(Chunks) : (s \o t) \o u = s \o (t \o u)
  BY SMT

\* recv() moves chunks from the queue to the buffer and changes nothing of the two
\* in a row.
LEMMA Moved ==
    ASSUME NEW buffer \in Seq(Chunks), NEW queue \in Seq(Chunks), NEW k \in 1..Len(queue)
    PROVE  /\ buffer \o SubSeq(queue, 1, k) \in Seq(Chunks)
           /\ SubSeq(queue, k + 1, Len(queue)) \in Seq(Chunks)
           /\ (buffer \o SubSeq(queue, 1, k)) \o SubSeq(queue, k + 1, Len(queue))
                = buffer \o queue
  <1> DEFINE front == SubSeq(queue, 1, k)
             rest == SubSeq(queue, k + 1, Len(queue))
  <1>1. Len(queue) \in Nat
    BY LenProperties
  <1>2. front \in Seq(Chunks) /\ rest \in Seq(Chunks)
    BY SMT
  <1>3. front \o rest = queue
    <2>1. 1 \in 1..(Len(queue) + 1) /\ k \in (1 - 1)..Len(queue) /\ Len(queue) \in k..Len(queue)
      BY <1>1, SMT
    <2>2. front \o rest = SubSeq(queue, 1, Len(queue))
      BY <2>1, ConcatAdjacentSubSeq
    <2>. QED BY <2>2, SubSeqFull
  <1> HIDE DEF front, rest
  <1>4. buffer \o front \in Seq(Chunks)
    BY <1>2, ConcatProperties
  <1>5. (buffer \o front) \o rest = buffer \o (front \o rest)
    BY <1>2, Regroup
  <1>. QED BY <1>2, <1>3, <1>4, <1>5 DEF front, rest

\* Parsing takes whole frames off the front, and leaves at most the beginning of one,
\* unless that one is too long.
LEMMA Parsed ==
    ASSUME NEW read \in Seq(Chunks), NEW n, n = FrameCount(read)
    PROVE  /\ n \in Nat /\ 2 * n \in Nat /\ 2 * n <= Len(read)
           /\ AfterFrames(read) = SubSeq(read, 2 * n + 1, Len(read))
           /\ Len(AfterFrames(read)) <= 1 \/ IsOversized(AfterFrames(read))
           /\ DOMAIN FramesIn(read) = 1..n
           /\ \A i \in 1..n : 2 * i - 1 \in 1..Len(read) /\ FramesIn(read)[i] = read[2 * i - 1]
  <1>1. PICK R \in Nat : R = Len(read)
    BY LenProperties
  <1>2. PICK m \in Nat : m = n
    <2>1. n \in 0..(Len(read) \div 2)
      BY FrameCountStops
    <2>. QED BY <2>1, SMT
  <1>3. m \in 0..(R \div 2) /\ (m = R \div 2 \/ read[2 * m + 1].kind = "huge")
    BY <1>1, <1>2, FrameCountStops
  <1>4. PICK d \in Nat : d = 2 * m
    BY SMT
  <1>5. d <= R
    BY <1>3, <1>4, SMT
  <1> DEFINE rest == AfterFrames(read)
  <1>6. rest = SubSeq(read, d + 1, R)
    BY <1>1, <1>2, <1>4 DEF AfterFrames
  <1>7. Len(rest) = R - d /\ \A i \in 1..(R - d) : rest[i] = read[i + d]
    <2>1. << >> \in Seq(Chunks) /\ Len(<< >>) = 0
      BY SMT
    <2>. QED BY <1>1, <1>5, <1>6, <2>1, DropFront
  <1> HIDE DEF rest
  <1>8. Len(rest) <= 1 \/ IsOversized(rest)
    <2>1. CASE m = R \div 2
      <3>1. R - d <= 1
        BY <1>4, <2>1, SMT
      <3>. QED BY <1>7, <3>1
    <2>2. CASE read[2 * m + 1].kind = "huge" /\ ~(R - d <= 1)
      <3>1. 1 \in 1..(R - d) /\ 1 + d = 2 * m + 1 /\ R - d # 0
        BY <1>4, <1>5, <2>2, SMT
      <3>2. rest # << >>
        BY <1>7, <3>1, SMT
      <3>. QED BY <1>7, <2>2, <3>1, <3>2 DEF IsOversized
    <2>. QED BY <1>3, <1>7, <2>1, <2>2
  <1>9. \A i \in 1..m : 2 * i - 1 \in 1..R
    BY <1>4, <1>5, SMT
  <1>10. DOMAIN FramesIn(read) = 1..n /\ \A i \in 1..n : FramesIn(read)[i] = read[2 * i - 1]
    BY DEF FramesIn
  <1>. QED BY <1>1, <1>2, <1>4, <1>5, <1>6, <1>8, <1>9, <1>10 DEF rest

-----------------------------------------------------------------------------
(* Streams.                                                                *)

\* s holds the last chunks of the all chunks that c has sent, in order.
LastOf(s, c, all) ==
    /\ Len(s) <= all /\ Len(s) % 2 = 0
    /\ \A i \in 1..Len(s) :
          /\ s[i].from = c
          /\ 2 * (s[i].no - 1) + s[i].part = all - Len(s) + i

LEMMA LastOfNothing == \A c : LastOf(<< >>, c, 2 * 0)
  BY SMT DEF LastOf

\* One more frame is sent.
LEMMA LastOfMore ==
    ASSUME NEW c \in Conns, NEW kind \in Kinds, NEW f \in Nat, NEW s \in Seq(Chunks),
           LastOf(s, c, 2 * f),
           NEW more, more = <<Chunk(c, f + 1, kind, 1), Chunk(c, f + 1, kind, 2)>>
    PROVE  more \in Seq(Chunks) /\ s \o more \in Seq(Chunks) /\ LastOf(s \o more, c, 2 * (f + 1))
  <1>1. PICK L \in Nat : L = Len(s)
    BY LenProperties
  <1>2. /\ Chunk(c, f + 1, kind, 1) \in Chunks /\ Chunk(c, f + 1, kind, 2) \in Chunks
        /\ Chunk(c, f + 1, kind, 1).from = c /\ Chunk(c, f + 1, kind, 2).from = c
        /\ Chunk(c, f + 1, kind, 1).no = f + 1 /\ Chunk(c, f + 1, kind, 2).no = f + 1
        /\ Chunk(c, f + 1, kind, 1).part = 1 /\ Chunk(c, f + 1, kind, 2).part = 2
    BY SMT DEF Chunk, Chunks
  <1>3. more \in Seq(Chunks) /\ Len(more) = 2
        /\ more[1] = Chunk(c, f + 1, kind, 1) /\ more[2] = Chunk(c, f + 1, kind, 2)
    BY <1>2
  <1>4. /\ s \o more \in Seq(Chunks) /\ Len(s \o more) = L + 2
        /\ \A i \in 1..(L + 2) : (s \o more)[i] = IF i <= L THEN s[i] ELSE more[i - L]
    BY <1>1, <1>3, ConcatProperties
  <1>5. /\ L <= 2 * f /\ L % 2 = 0
        /\ \A i \in 1..L : s[i].from = c /\ 2 * (s[i].no - 1) + s[i].part = 2 * f - L + i
    BY <1>1 DEF LastOf
  <1>6. L + 2 <= 2 * (f + 1) /\ (L + 2) % 2 = 0
    BY <1>5, SMT
  <1>7. ASSUME NEW i \in 1..(L + 2)
        PROVE  /\ (s \o more)[i].from = c
               /\ 2 * ((s \o more)[i].no - 1) + (s \o more)[i].part = 2 * (f + 1) - (L + 2) + i
    <2>1. CASE i <= L
      <3>1. i \in 1..L /\ (s \o more)[i] = s[i]
        BY <1>4, <2>1, SMT
      <3>2. 2 * f - L + i = 2 * (f + 1) - (L + 2) + i
        BY SMT
      <3>. QED BY <1>5, <3>1, <3>2
    <2>2. CASE i = L + 1
      <3>1. (s \o more)[i] = more[1]
        <4>1. ~(i <= L) /\ i - L = 1
          BY <2>2, SMT
        <4>. QED BY <1>4, <4>1
      <3>2. 2 * ((f + 1) - 1) + 1 = 2 * (f + 1) - (L + 2) + i
        BY <2>2, SMT
      <3>. QED BY <1>2, <1>3, <3>1, <3>2
    <2>3. CASE i = L + 2
      <3>1. (s \o more)[i] = more[2]
        <4>1. ~(i <= L) /\ i - L = 2
          BY <2>3, SMT
        <4>. QED BY <1>4, <4>1
      <3>2. 2 * ((f + 1) - 1) + 2 = 2 * (f + 1) - (L + 2) + i
        BY <2>3, SMT
      <3>. QED BY <1>2, <1>3, <3>1, <3>2
    <2>4. i <= L \/ i = L + 1 \/ i = L + 2
      BY SMT
    <2>. QED BY <2>1, <2>2, <2>3, <2>4, Zenon
  <1>. QED BY <1>3, <1>4, <1>6, <1>7 DEF LastOf

\* An even number of chunks is taken off the front.
LEMMA LastOfLess ==
    ASSUME NEW c, NEW all \in Nat, NEW s, NEW L \in Nat, L = Len(s), LastOf(s, c, all),
           NEW d \in Nat, d <= L, \E n \in Nat : d = 2 * n,
           NEW left, Len(left) = L - d,
           \A i \in 1..(L - d) : left[i] = s[i + d]
    PROVE  LastOf(left, c, all)
  <1>1. /\ L <= all /\ L % 2 = 0
        /\ \A i \in 1..L : s[i].from = c /\ 2 * (s[i].no - 1) + s[i].part = all - L + i
    BY DEF LastOf
  <1>2. L - d <= all /\ (L - d) % 2 = 0
    BY <1>1, SMT
  <1>3. ASSUME NEW i \in 1..(L - d)
        PROVE  /\ left[i].from = c
               /\ 2 * (left[i].no - 1) + left[i].part = all - (L - d) + i
    <2>1. i + d \in 1..L /\ all - L + (i + d) = all - (L - d) + i
      BY SMT
    <2>. QED BY <1>1, <2>1
  <1>. QED BY <1>2, <1>3 DEF LastOf

LEMMA LastOfRest ==
    ASSUME NEW c, NEW all \in Nat, NEW read \in Seq(Chunks), NEW rest \in Seq(Chunks),
           LastOf(read \o rest, c, all),
           NEW d \in Nat, d <= Len(read), \E n \in Nat : d = 2 * n
    PROVE  /\ SubSeq(read, d + 1, Len(read)) \in Seq(Chunks)
           /\ LastOf(SubSeq(read, d + 1, Len(read)) \o rest, c, all)
           /\ \A i \in 1..Len(read) : read[i].from = c /\ read[i].kind \in Kinds
  <1>1. PICK S \in Nat : S = Len(read)
    BY LenProperties
  <1>2. PICK T \in Nat : T = Len(rest)
    BY LenProperties
  <1>3. PICK L \in Nat : L = S + T
    BY SMT
  <1>4. d <= L /\ \A i \in 1..S : i \in 1..L
    BY <1>1, <1>3, SMT
  <1>5. PICK left : left = SubSeq(read, d + 1, Len(read))
    OBVIOUS
  <1>6. /\ left \in Seq(Chunks)
        /\ L = Len(read \o rest) /\ Len(left \o rest) = L - d
        /\ \A i \in 1..(L - d) : (left \o rest)[i] = (read \o rest)[i + d]
    <2>1. /\ SubSeq(read, d + 1, Len(read)) \in Seq(Chunks)
          /\ Len(SubSeq(read, d + 1, Len(read)) \o rest) = Len(read) + Len(rest) - d
          /\ Len(read \o rest) = Len(read) + Len(rest)
          /\ \A i \in 1..(Len(read) + Len(rest) - d) :
                (SubSeq(read, d + 1, Len(read)) \o rest)[i] = (read \o rest)[i + d]
      BY DropFront, ZenonT(60)
    <2>2. Len(read) + Len(rest) = L
      BY <1>1, <1>2, <1>3
    <2>3. Len(read) + Len(rest) - d = L - d
      BY <2>2
    <2>4. \A i \in 1..(L - d) :
             (SubSeq(read, d + 1, Len(read)) \o rest)[i] = (read \o rest)[i + d]
      BY <2>1, <2>3, Zenon
    <2>. QED BY <1>5, <2>1, <2>2, <2>3, <2>4, Zenon
  <1>7. LastOf(left \o rest, c, all)
    BY <1>4, <1>6, LastOfLess
  <1>8. \A i \in 1..S : read[i].from = c
    <2>1. \A i \in 1..L : (read \o rest)[i].from = c
      BY <1>6 DEF LastOf
    <2>2. \A i \in 1..S : (read \o rest)[i] = read[i]
      BY <1>1, Joined
    <2>. QED BY <1>4, <2>1, <2>2
  <1>9. \A i \in 1..S : read[i].kind \in Kinds
    <2>1. \A i \in 1..S : read[i] \in Chunks
      BY <1>1, ElementOfSeq
    <2>. QED BY <2>1 DEF Chunks
  <1>. QED BY <1>1, <1>5, <1>6, <1>7, <1>8, <1>9, Zenon

-----------------------------------------------------------------------------
(* Streams arrive whole and in order.  The invariant also says it of the   *)
(* connections nobody has accepted yet, whose chunks the next descriptor   *)
(* will read, and that nothing is left of a reset connection's.            *)

ChunksTyped ==
    /\ framesSent \in [Conns -> Nat]
    /\ inbox \in [Conns -> Seq(Chunks)]
    /\ \A fd \in DOMAIN fdToBuffer : fdToBuffer[fd] \in Seq(Chunks)

InboxesFit ==
    \A c \in Conns :
        /\ peer[c] = "reset" => inbox[c] = << >>
        /\ peer[c] = "new" => inbox[c] = << >> /\ framesSent[c] = 0
        /\ c \in Waiting /\ peer[c] # "reset" => LastOf(inbox[c], c, 2 * framesSent[c])

InOrder(fd) ==
    peer[connOf[fd]] # "reset" =>
        /\ LastOf(fdToBuffer[fd] \o inbox[connOf[fd]], connOf[fd], 2 * framesSent[connOf[fd]])
        /\ Len(fdToBuffer[fd]) <= 1 \/ fd \in fdsToDisconnect

Streams == ChunksTyped /\ InboxesFit /\ \A fd \in DOMAIN connOf : InOrder(fd)

LEMMA InOrderIntact == (\A fd \in DOMAIN connOf : InOrder(fd)) => StreamIntact
  BY DEF InOrder, LastOf, StreamIntact

LEMMA StreamsInit == Init => Streams
  <1> SUFFICES ASSUME Init PROVE Streams
    OBVIOUS
  <1>1. /\ peer = [c \in Conns |-> "new"] /\ framesSent = [c \in Conns |-> 0]
        /\ inbox = [c \in Conns |-> << >>]
        /\ backlog = << >> /\ connOf = << >> /\ fdToBuffer = << >>
    BY DEF Init, SocketsInit, NetworkInit
  <1>2. DOMAIN << >> = {} /\ << >> \in Seq(Chunks) /\ 1..Len(<< >>) = {}
    BY SMT
  <1>3. Waiting = {}
    BY <1>1, <1>2 DEF Waiting
  <1>. QED BY <1>1, <1>2, <1>3 DEF Streams, ChunksTyped, InboxesFit

LEMMA StreamsQuiet ==
    ASSUME Streams, UNCHANGED <<peer, framesSent, inbox, backlog, connOf, fdToBuffer>>,
           fdsToDisconnect \subseteq fdsToDisconnect'
    PROVE  Streams'
  <1>1. Waiting' = Waiting
    BY DEF Waiting
  <1>2. ChunksTyped' /\ InboxesFit'
    BY <1>1 DEF Streams, ChunksTyped, InboxesFit
  <1>3. \A fd \in DOMAIN connOf' : InOrder(fd)'
    BY DEF Streams, InOrder
  <1>. QED BY <1>2, <1>3 DEF Streams

LEMMA StreamsAccept ==
    ASSUME Streams, ConnsOK, TablesOK, AcceptNewClient
    PROVE  Streams'
  <1>1. CASE FreeFds = {}
    <2>1. /\ UNCHANGED <<peer, framesSent, inbox, backlog, connOf, fdToBuffer>>
          /\ fdsToDisconnect \subseteq fdsToDisconnect'
      BY <1>1 DEF AcceptNewClient
    <2>. QED BY <2>1, StreamsQuiet
  <1>2. CASE FreeFds # {}
    <2>a. PICK fd \in FreeFds : fd = LowestFreeFd
      BY <1>2, LowestFreeFdFree
    <2>b. PICK c : c = Head(backlog)
      OBVIOUS
    <2>1. /\ backlog # << >> /\ connOf' = With(connOf, fd, c) /\ backlog' = Tail(backlog)
          /\ fdToBuffer' = With(fdToBuffer, fd, << >>)
          /\ UNCHANGED <<peer, framesSent, inbox, fdsToDisconnect>>
      BY <1>2, <2>a, <2>b DEF AcceptNewClient, RegisterClient
    <2>2. fd \notin DOMAIN connOf
      BY DEF FreeFds
    <2>3. c \in Waiting /\ Waiting' = Waiting \ {c}
      <3>1. /\ Head(backlog) \in Waiting
            /\ {Tail(backlog)[i] : i \in 1..Len(Tail(backlog))} = Waiting \ {Head(backlog)}
        BY <2>1, BacklogTail
      <3>2. Waiting' = {Tail(backlog)[i] : i \in 1..Len(Tail(backlog))}
        BY <2>1 DEF Waiting
      <3>. QED BY <2>b, <3>1, <3>2
    <2>4. c \in Conns
      BY <2>3, WaitingType
    <2>5. /\ DOMAIN connOf' = DOMAIN connOf \cup {fd} /\ connOf'[fd] = c
          /\ \A gd \in DOMAIN connOf : connOf'[gd] = connOf[gd]
      BY <2>1, <2>2 DEF With
    <2>6. /\ DOMAIN fdToBuffer' = DOMAIN fdToBuffer \cup {fd} /\ fdToBuffer'[fd] = << >>
          /\ \A gd \in DOMAIN fdToBuffer : gd # fd => fdToBuffer'[gd] = fdToBuffer[gd]
      BY <2>1 DEF With
    <2>7. DOMAIN fdToBuffer = DOMAIN connOf
      BY DEF TablesOK, TablesAgree
    <2>8. << >> \in Seq(Chunks) /\ Len(<< >>) <= 1
      BY SMT
    <2>9. ChunksTyped'
      BY <2>1, <2>6, <2>8 DEF Streams, ChunksTyped
    <2>10. InboxesFit'
      BY <2>1, <2>3 DEF Streams, InboxesFit
    <2>11. InOrder(fd)'
      <3>1. inbox[c] \in Seq(Chunks)
        BY <2>4 DEF Streams, ChunksTyped
      <3>2. << >> \o inbox[c] = inbox[c]
        BY <3>1, SMT
      <3>3. peer[c] # "reset" => LastOf(inbox[c], c, 2 * framesSent[c])
        BY <2>3, <2>4 DEF Streams, InboxesFit
      <3>. QED BY <2>1, <2>5, <2>6, <2>8, <3>2, <3>3 DEF InOrder
    <2>12. \A gd \in DOMAIN connOf : InOrder(gd)'
      BY <2>1, <2>2, <2>5, <2>6, <2>7 DEF Streams, InOrder
    <2>. QED BY <2>5, <2>9, <2>10, <2>11, <2>12 DEF Streams
  <1>. QED BY <1>1, <1>2

LEMMA StreamsDrain ==
    ASSUME Streams, ConnsOK, TablesOK, DrainDisconnects
    PROVE  Streams'
  <1> DEFINE gone == {connOf[fd] : fd \in fdsToDisconnect}
  <1>1. DrainedFds = fdsToDisconnect
    BY DEF DrainedFds, TablesOK, TablesAgree
  <1>2. /\ connOf' = Without(connOf, fdsToDisconnect)
        /\ fdToBuffer' = Without(fdToBuffer, fdsToDisconnect)
        /\ peer' = [c \in Conns |-> IF c \in gone THEN "closed" ELSE peer[c]]
        /\ inbox' = [c \in Conns |-> IF c \in gone THEN << >> ELSE inbox[c]]
        /\ UNCHANGED <<framesSent, backlog>>
    BY <1>1 DEF DrainDisconnects, DisconnectClients, CloseFds
  <1>3. /\ DOMAIN connOf' = DOMAIN connOf \ fdsToDisconnect
        /\ \A fd \in DOMAIN connOf' : connOf'[fd] = connOf[fd]
        /\ DOMAIN fdToBuffer' = DOMAIN fdToBuffer \ fdsToDisconnect
        /\ \A fd \in DOMAIN fdToBuffer' : fdToBuffer'[fd] = fdToBuffer[fd]
    BY <1>2 DEF Without
  <1>4. fdsToDisconnect \subseteq DOMAIN connOf /\ DOMAIN fdToBuffer = DOMAIN connOf
    BY DEF TablesOK, TablesAgree
  <1>5. \A fd \in DOMAIN connOf : connOf[fd] \in Conns
    BY DEF ConnsOK, ConnsTyped
  <1>6. \A fd \in DOMAIN connOf \ fdsToDisconnect : connOf[fd] \notin gone
    BY <1>4 DEF ConnsOK, ConnsApart
  <1>7. \A c \in Waiting : c \in Conns /\ c \notin gone
    BY <1>4, WaitingType DEF ConnsOK, ConnsApart
  <1>8. Waiting' = Waiting
    BY <1>2 DEF Waiting
  <1> HIDE DEF gone
  <1>9. << >> \in Seq(Chunks)
    BY SMT
  <1>10. ChunksTyped'
    BY <1>2, <1>3, <1>9 DEF Streams, ChunksTyped
  <1>11. InboxesFit'
    BY <1>2, <1>7, <1>8 DEF Streams, InboxesFit
  <1>12. \A fd \in DOMAIN connOf' : InOrder(fd)'
    <2> SUFFICES ASSUME NEW fd \in DOMAIN connOf' PROVE InOrder(fd)'
      OBVIOUS
    <2>1. fd \in DOMAIN connOf /\ fd \notin fdsToDisconnect /\ connOf'[fd] = connOf[fd]
      BY <1>3
    <2>2. /\ fdToBuffer'[fd] = fdToBuffer[fd]
          /\ peer'[connOf[fd]] = peer[connOf[fd]] /\ inbox'[connOf[fd]] = inbox[connOf[fd]]
      BY <1>2, <1>3, <1>4, <1>5, <1>6, <2>1
    <2>3. InOrder(fd)
      BY <2>1 DEF Streams
    <2>. QED BY <1>2, <2>1, <2>2, <2>3 DEF InOrder
  <1>. QED BY <1>10, <1>11, <1>12 DEF Streams

\* What one recv() makes of a stream: the rest of it still is the last of what the
\* client has sent, and the frames are the client's own.
LEMMA ReadInOrder ==
    ASSUME NEW c, NEW f \in Nat, NEW read \in Seq(Chunks), NEW rest \in Seq(Chunks),
           LastOf(read \o rest, c, 2 * f)
    PROVE  /\ AfterFrames(read) \in Seq(Chunks)
           /\ LastOf(AfterFrames(read) \o rest, c, 2 * f)
           /\ Len(AfterFrames(read)) <= 1 \/ IsOversized(AfterFrames(read))
           /\ FrameCount(read) \in Nat /\ DOMAIN FramesIn(read) = 1..FrameCount(read)
           /\ \A i \in 1..FrameCount(read) :
                FramesIn(read)[i].from = c /\ FramesIn(read)[i].kind \in Kinds
  <1>1. FrameCount(read) \in Nat
    BY Parsed
  <1>2. PICK n \in Nat : n = FrameCount(read)
    BY <1>1
  <1>3. /\ 2 * n \in Nat /\ 2 * n <= Len(read)
        /\ AfterFrames(read) = SubSeq(read, 2 * n + 1, Len(read))
        /\ Len(AfterFrames(read)) <= 1 \/ IsOversized(AfterFrames(read))
        /\ DOMAIN FramesIn(read) = 1..n
        /\ \A i \in 1..n : 2 * i - 1 \in 1..Len(read) /\ FramesIn(read)[i] = read[2 * i - 1]
    BY <1>2, Parsed
  <1>4. PICK d \in Nat : d = 2 * n
    BY <1>3
  <1>5. PICK all \in Nat : all = 2 * f
    BY SMT
  <1>6. d <= Len(read) /\ \E m \in Nat : d = 2 * m
    BY <1>3, <1>4
  <1>7. LastOf(read \o rest, c, all)
    BY <1>5
  <1>8. /\ SubSeq(read, d + 1, Len(read)) \in Seq(Chunks)
        /\ LastOf(SubSeq(read, d + 1, Len(read)) \o rest, c, all)
        /\ \A i \in 1..Len(read) : read[i].from = c /\ read[i].kind \in Kinds
    BY <1>6, <1>7, LastOfRest, ZenonT(120)
  <1>. QED BY <1>2, <1>3, <1>4, <1>5, <1>8

LEMMA StreamsReceive ==
    ASSUME Streams, ConnsOK, TablesOK, NEW fd, fd \in DOMAIN connOf,
           NEW k \in 1..Len(inbox[connOf[fd]]), ReceiveData(fd, k),
           NEW read, read = fdToBuffer[fd] \o SubSeq(inbox[connOf[fd]], 1, k)
    PROVE  /\ Streams'
           /\ FrameCount(read) \in Nat /\ DOMAIN FramesIn(read) = 1..FrameCount(read)
           /\ \A i \in 1..FrameCount(read) :
                FramesIn(read)[i].from = connOf[fd] /\ FramesIn(read)[i].kind \in Kinds
  <1>1. PICK c \in Conns : c = connOf[fd]
    BY DEF ConnsOK, ConnsTyped
  <1>2. PICK queue \in Seq(Chunks) : queue = inbox[c]
    BY DEF Streams, ChunksTyped
  <1>3. PICK buffer \in Seq(Chunks) : buffer = fdToBuffer[fd]
    BY DEF Streams, ChunksTyped, TablesOK, TablesAgree
  <1>4. PICK f \in Nat : f = framesSent[c]
    BY DEF Streams, ChunksTyped
  <1>5. PICK rest : rest = SubSeq(queue, k + 1, Len(queue))
    OBVIOUS
  <1>6. peer[c] # "reset" /\ c \notin Waiting /\ peer[c] # "new"
    <2>1. queue # << >>
      BY <1>1, <1>2, SMT
    <2>. QED BY <1>1, <1>2, <2>1 DEF Streams, InboxesFit, ConnsOK, ConnsApart
  <1>7. LastOf(buffer \o queue, c, 2 * f)
    BY <1>1, <1>2, <1>3, <1>4, <1>6 DEF Streams, InOrder
  <1>8. k \in 1..Len(queue) /\ read = buffer \o SubSeq(queue, 1, k)
    BY <1>1, <1>2, <1>3
  <1>9. PICK left : left = AfterFrames(read)
    OBVIOUS
  <1>10. /\ left \in Seq(Chunks) /\ rest \in Seq(Chunks)
         /\ LastOf(left \o rest, c, 2 * f)
         /\ Len(left) <= 1 \/ IsOversized(left)
         /\ FrameCount(read) \in Nat /\ DOMAIN FramesIn(read) = 1..FrameCount(read)
         /\ \A i \in 1..FrameCount(read) :
              FramesIn(read)[i].from = c /\ FramesIn(read)[i].kind \in Kinds
    <2>1. /\ buffer \o SubSeq(queue, 1, k) \in Seq(Chunks)
          /\ SubSeq(queue, k + 1, Len(queue)) \in Seq(Chunks)
          /\ (buffer \o SubSeq(queue, 1, k)) \o SubSeq(queue, k + 1, Len(queue))
               = buffer \o queue
      BY <1>8, Moved
    <2>2. PICK r : r = read
      OBVIOUS
    <2>3. r \in Seq(Chunks) /\ rest \in Seq(Chunks) /\ LastOf(r \o rest, c, 2 * f)
      BY <1>5, <1>7, <1>8, <2>1, <2>2, Zenon
    <2>4. /\ AfterFrames(r) \in Seq(Chunks)
          /\ LastOf(AfterFrames(r) \o rest, c, 2 * f)
          /\ Len(AfterFrames(r)) <= 1 \/ IsOversized(AfterFrames(r))
          /\ FrameCount(r) \in Nat /\ DOMAIN FramesIn(r) = 1..FrameCount(r)
          /\ \A i \in 1..FrameCount(r) :
               FramesIn(r)[i].from = c /\ FramesIn(r)[i].kind \in Kinds
      BY <2>3, ReadInOrder
    <2>. QED BY <1>9, <2>2, <2>3, <2>4, Zenon
  <1>11. /\ inbox' = [inbox EXCEPT ![c] = rest]
         /\ fdToBuffer' = [fdToBuffer EXCEPT ![fd] = left]
         /\ fdsToDisconnect' =
              IF IsOversized(left) THEN fdsToDisconnect \cup {fd} ELSE fdsToDisconnect
         /\ UNCHANGED <<peer, framesSent, backlog, connOf>>
    BY <1>1, <1>2, <1>5, <1>9 DEF ReceiveData
  <1>12. /\ inbox' \in [Conns -> Seq(Chunks)] /\ inbox'[c] = rest
         /\ \A d \in Conns : d # c => inbox'[d] = inbox[d]
    BY <1>10, <1>11 DEF Streams, ChunksTyped
  <1>13. /\ DOMAIN fdToBuffer = DOMAIN connOf
         /\ DOMAIN fdToBuffer' = DOMAIN fdToBuffer /\ fdToBuffer'[fd] = left
         /\ \A gd \in DOMAIN connOf : gd # fd => fdToBuffer'[gd] = fdToBuffer[gd]
    BY <1>11 DEF TablesOK, TablesAgree
  <1>14. ChunksTyped'
    BY <1>10, <1>11, <1>12, <1>13 DEF Streams, ChunksTyped
  <1>15. InboxesFit'
    <2>1. Waiting' = Waiting
      BY <1>11 DEF Waiting
    <2>. QED BY <1>6, <1>11, <1>12, <2>1 DEF Streams, InboxesFit
  <1>16. ASSUME NEW gd \in DOMAIN connOf PROVE InOrder(gd)'
    <2>1. CASE gd = fd
      BY <1>1, <1>4, <1>10, <1>11, <1>12, <1>13, <2>1 DEF InOrder
    <2>2. CASE gd # fd
      <3>1. connOf[gd] \in Conns /\ connOf[gd] # c
        BY <1>1, <2>2 DEF ConnsOK, ConnsApart, ConnsTyped
      <3>. QED BY <1>11, <1>12, <1>13, <2>2, <3>1 DEF Streams, InOrder
    <2>. QED BY <2>1, <2>2
  <1>. QED BY <1>1, <1>10, <1>11, <1>14, <1>15, <1>16 DEF Streams

LEMMA StreamsSendFrame ==
    ASSUME Streams, ConnsOK, TablesOK, NEW c \in Conns, NEW kind \in Kinds, SendFrame(c, kind),
           UNCHANGED <<fdToBuffer, fdsToDisconnect>>
    PROVE  Streams'
  <1>1. PICK f \in Nat : f = framesSent[c]
    BY DEF Streams, ChunksTyped
  <1>2. PICK queue \in Seq(Chunks) : queue = inbox[c]
    BY DEF Streams, ChunksTyped
  <1>3. PICK more : more = <<Chunk(c, f + 1, kind, 1), Chunk(c, f + 1, kind, 2)>>
    OBVIOUS
  <1>4. /\ peer[c] = "open" /\ framesSent' = [framesSent EXCEPT ![c] = f + 1]
        /\ inbox' = [inbox EXCEPT ![c] = queue \o more]
        /\ UNCHANGED <<peer, backlog, connOf>>
    BY <1>1, <1>2, <1>3 DEF SendFrame
  <1>5. ASSUME NEW s \in Seq(Chunks), LastOf(s, c, 2 * f)
        PROVE  LastOf(s \o more, c, 2 * (f + 1))
    BY <1>3, <1>5, LastOfMore
  <1>6. more \in Seq(Chunks)
    <2>1. /\ Chunk(c, f + 1, kind, 1) \in Chunks
          /\ Chunk(c, f + 1, kind, 2) \in Chunks
      BY SMT DEF Chunk, Chunks
    <2>. QED BY <1>3, <2>1
  <1>7. queue \o more \in Seq(Chunks)
    BY <1>6, ConcatProperties
  <1>8. /\ framesSent' \in [Conns -> Nat] /\ framesSent'[c] = f + 1
        /\ \A d \in Conns : d # c => framesSent'[d] = framesSent[d]
    BY <1>4 DEF Streams, ChunksTyped
  <1>9. /\ inbox' \in [Conns -> Seq(Chunks)] /\ inbox'[c] = queue \o more
        /\ \A d \in Conns : d # c => inbox'[d] = inbox[d]
    BY <1>4, <1>7 DEF Streams, ChunksTyped
  <1>10. ChunksTyped'
    BY <1>8, <1>9 DEF Streams, ChunksTyped
  <1>11. Waiting' = Waiting
    BY <1>4 DEF Waiting
  <1>12. InboxesFit'
    <2> SUFFICES ASSUME NEW d \in Conns
                 PROVE  /\ peer'[d] = "reset" => inbox'[d] = << >>
                        /\ peer'[d] = "new" => inbox'[d] = << >> /\ framesSent'[d] = 0
                        /\ d \in Waiting' /\ peer'[d] # "reset" =>
                              LastOf(inbox'[d], d, 2 * framesSent'[d])
      BY DEF InboxesFit
    <2>1. CASE d # c
      BY <1>4, <1>8, <1>9, <1>11, <2>1 DEF Streams, InboxesFit
    <2>2. CASE d = c
      <3>1. d \in Waiting => LastOf(queue, c, 2 * f)
        BY <1>1, <1>2, <1>4, <2>2 DEF Streams, InboxesFit
      <3>2. d \in Waiting => LastOf(queue \o more, c, 2 * (f + 1))
        BY <1>5, <3>1
      <3>. QED BY <1>4, <1>8, <1>9, <1>11, <2>2, <3>2
    <2>. QED BY <2>1, <2>2
  <1>13. ASSUME NEW fd \in DOMAIN connOf PROVE InOrder(fd)'
    <2>1. connOf[fd] \in Conns
      BY DEF ConnsOK, ConnsTyped
    <2>2. CASE connOf[fd] # c
      BY <1>4, <1>8, <1>9, <2>1, <2>2 DEF Streams, InOrder
    <2>3. CASE connOf[fd] = c
      <3>1. PICK buffer \in Seq(Chunks) : buffer = fdToBuffer[fd]
        BY DEF Streams, ChunksTyped, TablesOK, TablesAgree
      <3>2. /\ LastOf(buffer \o queue, c, 2 * f)
            /\ Len(buffer) <= 1 \/ fd \in fdsToDisconnect
        BY <1>1, <1>2, <1>4, <2>3, <3>1 DEF Streams, InOrder
      <3>3. buffer \o queue \in Seq(Chunks) /\ (buffer \o queue) \o more = buffer \o (queue \o more)
        BY <1>6, ConcatProperties, Regroup
      <3>4. LastOf((buffer \o queue) \o more, c, 2 * (f + 1))
        BY <1>5, <3>2, <3>3
      <3>. QED BY <1>4, <1>8, <1>9, <2>3, <3>1, <3>2, <3>3, <3>4 DEF InOrder
    <2>. QED BY <2>2, <2>3
  <1>. QED BY <1>4, <1>10, <1>12, <1>13 DEF Streams

LEMMA StreamsPeer ==
    ASSUME Streams, ConnsOK, TablesOK, PeerStep, UNCHANGED <<fdToBuffer, fdsToDisconnect>>
    PROVE  Streams'
  <1>0. PICK c \in Conns : Connect(c) \/ (\E kind \in Kinds : SendFrame(c, kind))
                              \/ Close(c) \/ Reset(c)
    BY DEF PeerStep
  <1>1. CASE Connect(c)
    <2>1. /\ peer[c] = "new" /\ peer' = [peer EXCEPT ![c] = "open"]
          /\ backlog' = Append(backlog, c) /\ UNCHANGED <<framesSent, inbox, connOf>>
      BY <1>1 DEF Connect
    <2>2. peer'[c] = "open" /\ \A d \in Conns : d # c => peer'[d] = peer[d]
      BY <2>1 DEF ConnsOK, ConnsTyped
    <2>3. \A d : d \in Waiting' => d = c \/ d \in Waiting
      <3>1. backlog \in Seq(Conns)
        BY DEF ConnsOK, ConnsTyped
      <3>2. /\ Len(backlog') = Len(backlog) + 1 /\ backlog'[Len(backlog) + 1] = c
            /\ \A i \in 1..Len(backlog) : backlog'[i] = backlog[i]
            /\ \A i \in 1..(Len(backlog) + 1) : i = Len(backlog) + 1 \/ i \in 1..Len(backlog)
        BY <2>1, <3>1, SMT
      <3>. QED BY <3>2 DEF Waiting
    <2>4. ChunksTyped'
      BY <2>1 DEF Streams, ChunksTyped
    <2>5. LastOf(inbox[c], c, 2 * framesSent[c]) /\ peer[c] # "reset"
      BY <2>1, LastOfNothing DEF Streams, InboxesFit
    <2>6. InboxesFit'
      BY <2>1, <2>2, <2>3, <2>5 DEF Streams, InboxesFit
    <2>7. \A fd \in DOMAIN connOf : connOf[fd] \in Conns /\ connOf[fd] # c
      BY <2>1 DEF ConnsOK, ConnsTyped, ConnsApart
    <2>8. \A fd \in DOMAIN connOf : InOrder(fd)'
      BY <2>1, <2>2, <2>7 DEF Streams, InOrder
    <2>. QED BY <2>1, <2>4, <2>6, <2>8 DEF Streams
  <1>2. CASE \E kind \in Kinds : SendFrame(c, kind)
    BY <1>2, StreamsSendFrame
  <1>3. CASE Close(c)
    <2>1. /\ peer[c] = "open" /\ peer' = [peer EXCEPT ![c] = "closed"]
          /\ UNCHANGED <<framesSent, inbox, backlog, connOf>>
      BY <1>3 DEF Close
    <2>2. \A d \in Conns : /\ peer'[d] = "reset" <=> peer[d] = "reset"
                           /\ peer'[d] = "new" <=> peer[d] = "new"
      BY <2>1 DEF ConnsOK, ConnsTyped
    <2>3. ChunksTyped' /\ Waiting' = Waiting
      BY <2>1 DEF Streams, ChunksTyped, Waiting
    <2>4. InboxesFit'
      BY <2>1, <2>2, <2>3 DEF Streams, InboxesFit
    <2>5. \A fd \in DOMAIN connOf : InOrder(fd)'
      BY <2>1, <2>2 DEF Streams, InOrder, ConnsOK, ConnsTyped
    <2>. QED BY <2>1, <2>3, <2>4, <2>5 DEF Streams
  <1>4. CASE Reset(c)
    <2>1. /\ peer[c] = "open" /\ peer' = [peer EXCEPT ![c] = "reset"]
          /\ inbox' = [inbox EXCEPT ![c] = << >>]
          /\ UNCHANGED <<framesSent, backlog, connOf>>
      BY <1>4 DEF Reset
    <2>2. << >> \in Seq(Chunks)
      BY SMT
    <2>3. /\ peer'[c] = "reset" /\ inbox'[c] = << >>
          /\ \A d \in Conns : d # c => peer'[d] = peer[d] /\ inbox'[d] = inbox[d]
      BY <2>1 DEF Streams, ChunksTyped, ConnsOK, ConnsTyped
    <2>4. ChunksTyped' /\ Waiting' = Waiting
      BY <2>1, <2>2 DEF Streams, ChunksTyped, Waiting
    <2>5. InboxesFit'
      BY <2>1, <2>3, <2>4 DEF Streams, InboxesFit
    <2>6. \A fd \in DOMAIN connOf : InOrder(fd)'
      BY <2>1, <2>3 DEF Streams, InOrder, ConnsOK, ConnsTyped
    <2>. QED BY <2>1, <2>4, <2>5, <2>6 DEF Streams
  <1>. QED BY <1>0, <1>1, <1>2, <1>3, <1>4

-----------------------------------------------------------------------------

StreamInv == TornInv /\ Streams

LEMMA StreamInvInit == Init => StreamInv
  BY TornInvInit, StreamsInit DEF StreamInv

LEMMA StreamInvNext == StreamInv /\ [Next]_vars => StreamInv'
  <1> SUFFICES ASSUME StreamInv, [Next]_vars PROVE StreamInv'
    OBVIOUS
  <1>0. TornInv' /\ Streams /\ ConnsOK /\ TablesOK /\ DescriptorsOpen
    BY TornInvNext DEF StreamInv, TornInv, Inv, TablesOK
  <1> SUFFICES Streams'
    BY <1>0 DEF StreamInv
  <1> DEFINE Quiet == /\ UNCHANGED <<peer, framesSent, inbox, backlog, connOf, fdToBuffer>>
                      /\ fdsToDisconnect \subseteq fdsToDisconnect'
  <1>a. Quiet => Streams'
    BY <1>0, StreamsQuiet
  <1>1. CASE \/ AssertNoneToDisconnect \/ DeserialiseThrows \/ DispatchJoinThrows
             \/ \E reported \in SUBSET ReadyFds : EpollWait(reported)
             \/ DispatchInput \/ DispatchDisconnect \/ BroadcastDone
             \/ \E moved \in BOOLEAN, dead \in SUBSET players : PlayTick(moved, dead)
             \/ UNCHANGED vars
    <2>1. Quiet
      BY <1>1 DEF AssertNoneToDisconnect, DeserialiseThrows, DispatchJoinThrows, Crash,
                  EpollWait, DispatchInput, DispatchDisconnect, BroadcastDone, PlayTick, vars,
                  socketVars, tableVars
    <2>. QED BY <1>a, <2>1
  <1>2. CASE \/ \E outcome \in {"sent", "partial", "error"} : DispatchJoin(outcome)
             \/ \E fd \in ClientFds, outcome \in {"sent", "partial", "error"} :
                   BroadcastTo(fd, outcome)
    <2>1. Quiet
      BY <1>2 DEF DispatchJoin, BroadcastTo, NetworkSend
    <2>. QED BY <1>a, <2>1
  <1>3. CASE Accept
    BY <1>0, <1>3, StreamsAccept DEF Accept
  <1>4. CASE \E fd \in ClientFds : Receive(fd)
    <2>1. PICK fd \in ClientFds : Receive(fd)
      BY <1>4
    <2>2. fd \in DOMAIN connOf
      BY <1>0, <2>1 DEF Receive, DescriptorsOpen
    <2>3. CASE ReceiveEnd(fd)
      <3>1. Quiet
        BY <2>3 DEF ReceiveEnd, socketVars
      <3>. QED BY <1>a, <3>1
    <2>4. CASE \E k \in 1..Len(inbox[connOf[fd]]) : ReceiveData(fd, k)
      BY <1>0, <2>2, <2>4, StreamsReceive
    <2>. QED BY <2>1, <2>3, <2>4 DEF Receive
  <1>5. CASE Drain
    BY <1>0, <1>5, StreamsDrain DEF Drain
  <1>6. CASE PeerStep /\ UNCHANGED <<tableVars, loopVars>>
    BY <1>0, <1>6, StreamsPeer DEF tableVars
  <1>. QED BY <1>1, <1>2, <1>3, <1>4, <1>5, <1>6 DEF Next, ServerStep

LEMMA StreamInvAlways == Spec => []StreamInv
  BY StreamInvInit, StreamInvNext, PTL DEF Spec

\* StreamIntact: however recv() cuts the streams up, and whoever had the descriptor
\* before, what parseReceivedPacket() finds in a buffer and what is still on its way are
\* the last things the client has sent, each of them once and in order.
THEOREM StreamsAlwaysIntact == Spec => []StreamIntact
  <1>1. StreamInv => StreamIntact
    BY InOrderIntact DEF StreamInv, Streams
  <1>. QED BY <1>1, StreamInvAlways, PTL

-----------------------------------------------------------------------------
(* The batch.  While the loop receives, nobody has left yet: every message *)
(* and every snake belongs to a client in the tables.  drainDisconnects()  *)
(* takes clients out of the tables and puts a message for each at the end; *)
(* from then on the batch only gets shorter, and the tables do not change. *)

Messages == [kind : Kinds \cup {"disconnect"}, clientId : Nat, from : Conns]

DepartsLast(id, i) ==
    /\ Departs(id, i)
    /\ \A j \in 1..Len(batch) : i < j => batch[j].clientId # id

DepartLast ==
    \A id :
        \/ id \in DOMAIN clientIdToFd
        \/ id \notin players /\ \A i \in 1..Len(batch) : batch[i].clientId # id
        \/ \E i \in 1..Len(batch) : DepartsLast(id, i)

AllPresent ==
    /\ players \subseteq DOMAIN clientIdToFd
    /\ \A i \in 1..Len(batch) : batch[i].clientId \in DOMAIN clientIdToFd

BatchOK ==
    /\ batch \in Seq(Messages)
    /\ phase \in {"poll", "broadcast"} => batch = << >>
    /\ phase = "receive" => AllPresent
    /\ RightSender
    /\ phase # "crashed" => DepartLast

LEMMA DepartLastComeLast == BatchOK => DeparturesComeLast
  <1> SUFFICES ASSUME BatchOK, phase # "crashed",
                      NEW id \in players \cup {batch[i].clientId : i \in 1..Len(batch)},
                      id \notin DOMAIN clientIdToFd
               PROVE  \E i \in 1..Len(batch) :
                        Departs(id, i) /\ \A j \in (i + 1)..Len(batch) : batch[j].clientId # id
    BY DEF DeparturesComeLast
  <1>1. DepartLast
    BY DEF BatchOK
  <1>2. PICK n \in Nat : n = Len(batch)
    BY LenProperties DEF BatchOK
  <1>3. PICK i \in 1..n : DepartsLast(id, i)
    BY <1>1, <1>2 DEF DepartLast
  <1>4. \A j \in (i + 1)..n : j \in 1..n /\ i < j
    BY SMT
  <1>5. Departs(id, i) /\ \A j \in (i + 1)..n : batch[j].clientId # id
    BY <1>2, <1>3, <1>4 DEF DepartsLast
  <1>. QED BY <1>2, <1>5

LEMMA NobodyDeparts == AllPresent => DepartLast
  BY DEF AllPresent, DepartLast

\* Nothing is received, dispatched or closed, and no client is let in.
LEMMA BatchStill ==
    ASSUME BatchOK, UNCHANGED <<batch, clientIdToFd, connOf>>, players' \subseteq players,
           phase' \in {phase, "crashed"} \/ (batch = << >> /\ phase # "crashed")
    PROVE  BatchOK'
  <1>1. RightSender'
    BY DEF BatchOK, RightSender
  <1>2. phase' # "crashed" => phase # "crashed"
    OBVIOUS
  <1>3. DepartLast => DepartLast'
    BY DEF DepartLast, DepartsLast, Departs
  <1>4. phase' \in {"poll", "broadcast"} => batch = << >>
    BY DEF BatchOK
  <1>5. phase' = "receive" => AllPresent'
    <2>1. CASE phase' = phase
      BY <2>1 DEF BatchOK, AllPresent
    <2>2. CASE batch = << >> /\ phase # "crashed"
      <3>1. 1..Len(batch) = {}
        BY <2>2, SMT
      <3>. QED BY <2>2, <3>1 DEF BatchOK, AllPresent, DepartLast
    <2>3. CASE phase' = "crashed"
      BY <2>3
    <2>. QED BY <2>1, <2>2, <2>3
  <1>. QED BY <1>1, <1>2, <1>3, <1>4, <1>5 DEF BatchOK

\* One message has been dispatched.
LEMMA BatchTail ==
    ASSUME BatchOK, phase = "dispatch", phase' = "dispatch", batch # << >>,
           batch' = Tail(batch), UNCHANGED <<clientIdToFd, connOf>>,
           \A id \in players' :
              \/ id \in DOMAIN clientIdToFd
              \/ id \in players /\ ~(Head(batch).kind = "disconnect" /\ Head(batch).clientId = id)
    PROVE  BatchOK'
  <1>1. batch \in Seq(Messages) /\ DepartLast /\ RightSender
    BY DEF BatchOK
  <1>2. PICK n \in Nat : n = Len(batch') /\ Len(batch) = n + 1
    BY <1>1, SMT
  <1>3. /\ batch' \in Seq(Messages) /\ Head(batch) = batch[1]
        /\ \A i \in 1..n : batch'[i] = batch[i + 1]
    BY <1>1, <1>2, SMT
  <1>4. /\ 1 \in 1..(n + 1) /\ \A i \in 1..n : i + 1 \in 1..(n + 1) /\ 1 < i + 1
        /\ \A i, j \in 1..n : i < j => i + 1 < j + 1
    BY SMT
  <1>5. \A i \in 1..(n + 1) : i = 1 \/ \E j \in 1..n : i = j + 1
    <2> SUFFICES ASSUME NEW i \in 1..(n + 1), i # 1 PROVE \E j \in 1..n : i = j + 1
      OBVIOUS
    <2>1. i - 1 \in 1..n /\ i = (i - 1) + 1
      BY SMT
    <2>. QED BY <2>1
  <1>6. RightSender'
    BY <1>1, <1>2, <1>3, <1>4 DEF RightSender
  <1>7. ASSUME NEW j \in 1..n, NEW id, DepartsLast(id, j + 1)
        PROVE  DepartsLast(id, j)'
    <2>1. batch'[j].kind = "disconnect" /\ batch'[j].clientId = id
      BY <1>3, <1>7 DEF DepartsLast, Departs
    <2>2. \A i \in 1..n : j < i => batch'[i].clientId # id
      BY <1>2, <1>3, <1>4, <1>7 DEF DepartsLast
    <2>. QED BY <1>2, <2>1, <2>2 DEF DepartsLast, Departs
  <1>8. ASSUME NEW id, id \notin DOMAIN clientIdToFd,
               id \in players' \/ \E i \in 1..n : batch'[i].clientId = id
        PROVE  \E i \in 1..n : DepartsLast(id, i)'
    <2>1. id \in players \/ \E i \in 1..(n + 1) : batch[i].clientId = id
      BY <1>3, <1>4, <1>8
    <2>2. PICK i \in 1..(n + 1) : DepartsLast(id, i)
      BY <1>1, <1>2, <1>8, <2>1 DEF DepartLast
    <2>3. ~DepartsLast(id, 1)
      <3>1. ASSUME DepartsLast(id, 1) PROVE FALSE
        <4>1. Head(batch).kind = "disconnect" /\ Head(batch).clientId = id
          BY <1>3, <3>1 DEF DepartsLast, Departs
        <4>2. id \notin players'
          BY <1>8, <4>1
        <4>3. PICK j \in 1..n : batch'[j].clientId = id
          BY <1>8, <4>2
        <4>4. batch[j + 1].clientId = id
          BY <1>3, <4>3
        <4>. QED BY <1>2, <1>4, <3>1, <4>4 DEF DepartsLast
      <3>. QED BY <3>1
    <2>4. PICK j \in 1..n : i = j + 1
      BY <1>5, <2>2, <2>3
    <2>. QED BY <1>7, <2>2, <2>4
  <1>9. \A id :
           \/ id \in DOMAIN clientIdToFd'
           \/ id \notin players' /\ \A i \in 1..n : batch'[i].clientId # id
           \/ \E i \in 1..n : DepartsLast(id, i)'
    BY <1>8
  <1>10. DepartLast'
    BY <1>2, <1>9 DEF DepartLast
  <1>. QED BY <1>3, <1>6, <1>10 DEF BatchOK

\* Frames of a client have been read.
LEMMA BatchReceive ==
    ASSUME BatchOK, TablesOK, phase = "receive", phase' = "receive",
           UNCHANGED <<clientIdToFd, connOf, players>>,
           NEW fd, fd \in DOMAIN connOf, NEW n \in Nat, NEW more \in [1..n -> Messages],
           \A i \in 1..n : more[i].clientId = fdToClientId[fd] /\ more[i].from = connOf[fd],
           batch' = batch \o more
    PROVE  BatchOK'
  <1>1. batch \in Seq(Messages) /\ AllPresent /\ RightSender
    BY DEF BatchOK
  <1>2. PICK m \in Nat : m = Len(batch)
    BY <1>1, LenProperties
  <1>3. more \in Seq(Messages) /\ Len(more) = n
    BY SMT
  <1>4. /\ batch' \in Seq(Messages) /\ Len(batch') = m + n
        /\ \A i \in 1..(m + n) : batch'[i] = IF i <= m THEN batch[i] ELSE more[i - m]
    BY <1>1, <1>2, <1>3, ConcatProperties
  <1>5. \A i \in 1..(m + n) : IF i <= m THEN i \in 1..m ELSE i - m \in 1..n
    BY SMT
  <1>6. ASSUME NEW i \in 1..(m + n)
        PROVE  (\E j \in 1..m : batch'[i] = batch[j]) \/ (\E j \in 1..n : batch'[i] = more[j])
    BY <1>4, <1>5
  <1>7. /\ fdToClientId[fd] \in DOMAIN clientIdToFd
        /\ clientIdToFd[fdToClientId[fd]] = fd
    BY DEF TablesOK, TablesAgree
  <1>8. AllPresent'
    BY <1>1, <1>2, <1>4, <1>6, <1>7 DEF AllPresent
  <1>9. RightSender'
    <2> SUFFICES ASSUME NEW i \in 1..(m + n), batch'[i].clientId \in DOMAIN clientIdToFd
                 PROVE  connOf[clientIdToFd[batch'[i].clientId]] = batch'[i].from
      BY <1>4 DEF RightSender
    <2>1. CASE \E j \in 1..m : batch'[i] = batch[j]
      BY <1>1, <1>2, <2>1 DEF RightSender
    <2>2. CASE \E j \in 1..n : batch'[i] = more[j]
      BY <1>7, <2>2
    <2>. QED BY <1>6, <2>1, <2>2
  <1>10. DepartLast'
    BY <1>8, NobodyDeparts, PTL
  <1>. QED BY <1>4, <1>8, <1>9, <1>10 DEF BatchOK

\* A client has been let in.
LEMMA BatchAccept ==
    ASSUME BatchOK, TablesOK, phase = "receive", phase' = "receive", AcceptNewClient,
           UNCHANGED <<batch, players>>
    PROVE  BatchOK'
  <1>1. CASE FreeFds = {}
    <2>1. UNCHANGED <<clientIdToFd, connOf>>
      BY <1>1 DEF AcceptNewClient
    <2>. QED BY <2>1, BatchStill
  <1>2. CASE FreeFds # {}
    <2>1. PICK fd \in FreeFds : fd = LowestFreeFd
      BY <1>2, LowestFreeFdFree
    <2>2. /\ connOf' = With(connOf, fd, Head(backlog))
          /\ clientIdToFd' = With(clientIdToFd, nextClientId, fd)
      BY <1>2, <2>1 DEF AcceptNewClient, RegisterClient
    <2>3. nextClientId \notin DOMAIN clientIdToFd
      BY DEF TablesOK, TablesTyped, TablesAgree
    <2>4. \A id \in DOMAIN clientIdToFd :
             /\ id \in DOMAIN clientIdToFd' /\ clientIdToFd'[id] = clientIdToFd[id]
             /\ connOf'[clientIdToFd[id]] = connOf[clientIdToFd[id]]
      BY <2>2, <2>3 DEF With, TablesOK, TablesAgree, FreeFds
    <2>5. AllPresent /\ RightSender
      BY DEF BatchOK
    <2>6. AllPresent'
      BY <2>4, <2>5 DEF AllPresent
    <2>7. RightSender'
      BY <2>4, <2>5 DEF AllPresent, RightSender
    <2>8. DepartLast'
      BY <2>6, NobodyDeparts, PTL
    <2>. QED BY <2>6, <2>7, <2>8 DEF BatchOK
  <1>. QED BY <1>1, <1>2

\* The sequence q, of length n, lists S: every element, and none twice.
Lists(q, S, n) ==
    /\ q \in [1..n -> S]
    /\ \A i, j \in 1..n : q[i] = q[j] => i = j
    /\ \A x \in S : \E i \in 1..n : q[i] = x

\* An enumeration of a finite set lists it.
LEMMA EveryOne ==
    ASSUME NEW S, IsFiniteSet(S), NEW q \in SetToSeqs(S)
    PROVE  \E n \in Nat : Lists(q, S, n)
  <1>1. PICK n \in Nat : n = Cardinality(S)
    <2>1. Cardinality(S) \in Nat
      BY FS_CardinalityType
    <2>. QED BY <2>1
  <1>2. q \in [1..n -> S] /\ \A i, j \in 1..n : q[i] = q[j] => i = j
    BY <1>1 DEF SetToSeqs
  <1>3. q \in Injection(1..n, S)
    BY <1>2 DEF Injection, IsInjective
  <1>4. Cardinality(1..n) = n
    <2>1. 1 \in Int /\ n \in Int
      OBVIOUS
    <2>2. Cardinality(1..n) = IF 1 > n THEN 0 ELSE n - 1 + 1
      BY <2>1, FS_Interval
    <2>. QED BY <2>2
  <1>5. q \in Surjection(1..n, S)
    BY <1>1, <1>3, <1>4, FS_Injection
  <1>6. Lists(q, S, n)
    BY <1>2, <1>5 DEF Surjection, Lists
  <1>. QED BY <1>6

LEMMA ImageFinite ==
    ASSUME NEW f, NEW S, IsFiniteSet(S)
    PROVE  IsFiniteSet({f[x] : x \in S})
  <1> DEFINE T == {f[x] : x \in S}
             F == [x \in S |-> f[x]]
  <1>1. F \in Surjection(S, T)
    BY DEF Surjection
  <1>. QED BY <1>1, FS_Surjection

LEMMA BatchDrain ==
    ASSUME BatchOK, ConnsOK, TablesOK, phase = "receive", phase' = "dispatch",
           DrainDisconnects, UNCHANGED players,
           NEW q \in SetToSeqs({fdToClientId[fd] : fd \in DrainedFds}),
           batch' = batch \o Departures(q)
    PROVE  BatchOK'
  <1>1. PICK gone \in SUBSET DOMAIN connOf : gone = DrainedFds
    BY DEF DrainedFds, TablesOK, TablesAgree
  <1>2. PICK ids : ids = {fdToClientId[fd] : fd \in gone}
    OBVIOUS
  <1>3. /\ connOf' = Without(connOf, gone)
        /\ clientIdToFd' = Without(clientIdToFd, ids)
    BY <1>1, <1>2 DEF DrainDisconnects, DisconnectClients, CloseFds
  <1>4. IsFiniteSet(ids)
    <2>1. IsFiniteSet(gone)
      <3>1. IsFiniteSet(ClientFds) /\ gone \in SUBSET ClientFds
        BY SocketsAssumption DEF TablesOK, TablesTyped
      <3>. QED BY <3>1, FS_Subset
    <2>. QED BY <1>2, <2>1, ImageFinite
  <1>5. PICK n \in Nat :
           /\ q \in [1..n -> ids]
           /\ \A i, j \in 1..n : q[i] = q[j] => i = j
           /\ \A id \in ids : \E i \in 1..n : q[i] = id
    <2>1. q \in SetToSeqs(ids)
      BY <1>1, <1>2
    <2>2. \E n \in Nat : Lists(q, ids, n)
      BY <1>4, <2>1, EveryOne
    <2>. QED BY <2>2 DEF Lists
  <1>6. \A id \in ids : id \in Nat /\ id \in DOMAIN clientIdToFd /\ clientIdToFd[id] \in DOMAIN connOf
    BY <1>2 DEF TablesOK, TablesTyped, TablesAgree
  <1>7. PICK more : more = Departures(q)
    OBVIOUS
  <1>8. /\ more \in [1..n -> Messages]
        /\ \A i \in 1..n : more[i].kind = "disconnect" /\ more[i].clientId = q[i]
    <2>1. Len(q) = n
      BY <1>5, SMT
    <2>2. more = [i \in 1..n |-> Message("disconnect", q[i], connOf[clientIdToFd[q[i]]])]
      BY <1>7, <2>1 DEF Departures
    <2>3. ASSUME NEW i \in 1..n
          PROVE  /\ Message("disconnect", q[i], connOf[clientIdToFd[q[i]]]) \in Messages
                 /\ more[i].kind = "disconnect" /\ more[i].clientId = q[i]
      <3>1. q[i] \in Nat /\ connOf[clientIdToFd[q[i]]] \in Conns
        BY <1>5, <1>6 DEF ConnsOK, ConnsTyped
      <3>. QED BY <2>2, <3>1 DEF Message, Messages
    <2>. QED BY <2>2, <2>3
  <1>9. batch \in Seq(Messages) /\ AllPresent /\ RightSender
    BY DEF BatchOK
  <1>10. PICK m \in Nat : m = Len(batch)
    BY <1>9, LenProperties
  <1>11. /\ batch' \in Seq(Messages) /\ Len(batch') = m + n
         /\ \A i \in 1..(m + n) : batch'[i] = IF i <= m THEN batch[i] ELSE more[i - m]
    <2>1. more \in Seq(Messages) /\ Len(more) = n
      BY <1>8, SMT
    <2>2. /\ batch \o more \in Seq(Messages) /\ Len(batch \o more) = m + n
          /\ \A i \in 1..(m + n) : (batch \o more)[i] = IF i <= m THEN batch[i] ELSE more[i - m]
      BY <1>9, <1>10, <2>1, ConcatProperties
    <2>3. batch' = batch \o more
      BY <1>7
    <2>. QED BY <2>2, <2>3, Zenon
  <1>12. \A i \in 1..(m + n) :
            \/ i <= m /\ i \in 1..m /\ batch'[i] = batch[i]
            \/ ~(i <= m) /\ i - m \in 1..n /\ batch'[i] = more[i - m]
    <2>1. \A i \in 1..(m + n) : IF i <= m THEN i \in 1..m ELSE i - m \in 1..n
      BY SMT
    <2>. QED BY <1>11, <2>1
  <1>13. /\ DOMAIN clientIdToFd' = DOMAIN clientIdToFd \ ids
         /\ \A id \in DOMAIN clientIdToFd' :
               /\ clientIdToFd'[id] = clientIdToFd[id]
               /\ clientIdToFd[id] \notin gone
               /\ connOf'[clientIdToFd[id]] = connOf[clientIdToFd[id]]
    <2>1. DOMAIN clientIdToFd' = DOMAIN clientIdToFd \ ids
      BY <1>3 DEF Without
    <2>2. \A id \in DOMAIN clientIdToFd \ ids :
             /\ clientIdToFd[id] \notin gone /\ clientIdToFd[id] \in DOMAIN connOf
      BY <1>2 DEF TablesOK, TablesAgree
    <2>. QED BY <1>3, <2>1, <2>2 DEF Without
  <1>14. RightSender'
    <2> SUFFICES ASSUME NEW i \in 1..(m + n), batch'[i].clientId \in DOMAIN clientIdToFd'
                 PROVE  connOf'[clientIdToFd'[batch'[i].clientId]] = batch'[i].from
      BY <1>11 DEF RightSender
    <2>1. CASE i <= m
      <3>1. i \in 1..m /\ batch'[i] = batch[i]
        BY <1>12, <2>1
      <3>. QED BY <1>9, <1>10, <1>13, <3>1 DEF RightSender
    <2>2. CASE ~(i <= m)
      <3>1. i - m \in 1..n /\ batch'[i] = more[i - m]
        BY <1>12, <2>2
      <3>2. batch'[i].clientId \in ids
        BY <1>5, <1>8, <3>1
      <3>. QED BY <1>13, <3>2
    <2>. QED BY <2>1, <2>2
  <1>15. ASSUME NEW id \in ids
         PROVE  \E i \in 1..(m + n) : DepartsLast(id, i)'
    <2>1. PICK j \in 1..n : q[j] = id
      BY <1>5
    <2>2. PICK i \in 1..(m + n) : i = m + j
      BY SMT
    <2>3. ~(i <= m) /\ i - m = j
      BY <2>2, SMT
    <2>4. batch'[i] = more[j]
      BY <1>12, <2>3
    <2>5. Departs(id, i)'
      BY <1>8, <2>1, <2>4 DEF Departs
    <2>6. ASSUME NEW later \in 1..(m + n), i < later
          PROVE  batch'[later].clientId # id
      <3>1. ~(later <= m) /\ later - m # j
        BY <2>2, <2>6, SMT
      <3>2. later - m \in 1..n /\ batch'[later] = more[later - m]
        BY <1>12, <3>1
      <3>. QED BY <1>5, <1>8, <2>1, <3>1, <3>2
    <2>. QED BY <1>11, <2>5, <2>6 DEF DepartsLast
  <1>16. \A id :
            \/ id \in DOMAIN clientIdToFd'
            \/ id \notin players' /\ \A i \in 1..(m + n) : batch'[i].clientId # id
            \/ \E i \in 1..(m + n) : DepartsLast(id, i)'
    <2> SUFFICES ASSUME NEW id, id \notin DOMAIN clientIdToFd', id \notin ids
                 PROVE  id \notin players' /\ \A i \in 1..(m + n) : batch'[i].clientId # id
      BY <1>15
    <2>1. id \notin DOMAIN clientIdToFd
      BY <1>13
    <2>2. \A i \in 1..m : batch[i].clientId # id
      BY <1>9, <1>10, <2>1 DEF AllPresent
    <2>3. \A i \in 1..n : more[i].clientId # id
      BY <1>5, <1>8
    <2>4. id \notin players'
      BY <1>9, <2>1 DEF AllPresent
    <2>. QED BY <1>12, <2>2, <2>3, <2>4
  <1>17. DepartLast'
    BY <1>11, <1>16 DEF DepartLast
  <1>. QED BY <1>11, <1>14, <1>17 DEF BatchOK

-----------------------------------------------------------------------------

DeliveryInv == StreamInv /\ BatchOK

LEMMA DeliveryInvInit == Init => DeliveryInv
  <1> SUFFICES ASSUME Init PROVE DeliveryInv
    OBVIOUS
  <1>1. batch = << >> /\ players = {} /\ phase = "poll"
    BY DEF Init
  <1>2. << >> \in Seq(Messages) /\ 1..Len(<< >>) = {}
    BY SMT
  <1>3. BatchOK
    BY <1>1, <1>2 DEF BatchOK, DepartLast, RightSender
  <1>. QED BY <1>3, StreamInvInit DEF DeliveryInv

LEMMA DeliveryInvNext == DeliveryInv /\ [Next]_vars => DeliveryInv'
  <1> SUFFICES ASSUME DeliveryInv, [Next]_vars PROVE DeliveryInv'
    OBVIOUS
  <1>0. StreamInv' /\ BatchOK /\ Streams /\ ConnsOK /\ TablesOK /\ DescriptorsOpen
    BY StreamInvNext DEF DeliveryInv, StreamInv, TornInv, Inv, TablesOK
  <1> SUFFICES BatchOK'
    BY <1>0 DEF DeliveryInv
  <1>1. CASE \/ AssertNoneToDisconnect \/ DeserialiseThrows \/ DispatchJoinThrows
             \/ \E reported \in SUBSET ReadyFds : EpollWait(reported)
             \/ \E moved \in BOOLEAN, dead \in SUBSET players : PlayTick(moved, dead)
             \/ \E fd \in ClientFds, outcome \in {"sent", "partial", "error"} :
                   BroadcastTo(fd, outcome)
             \/ BroadcastDone
             \/ PeerStep /\ UNCHANGED <<tableVars, loopVars>>
             \/ UNCHANGED vars
    <2>1. UNCHANGED <<batch, clientIdToFd>> /\ players' \subseteq players
      BY <1>1 DEF AssertNoneToDisconnect, DeserialiseThrows, DispatchJoinThrows, Crash,
                  EpollWait, PlayTick, BroadcastTo, NetworkSend, BroadcastDone, vars, tableVars,
                  loopVars
    <2>2. UNCHANGED connOf
      BY <1>1 DEF AssertNoneToDisconnect, DeserialiseThrows, DispatchJoinThrows, Crash,
                  EpollWait, PlayTick, BroadcastTo, NetworkSend, BroadcastDone, vars, socketVars,
                  PeerStep, Connect, SendFrame, Close, Reset
    <2>3. phase' \in {phase, "crashed"} \/ (batch = << >> /\ phase # "crashed")
      BY <1>0, <1>1 DEF AssertNoneToDisconnect, DeserialiseThrows, DispatchJoinThrows, Crash,
                        EpollWait, PlayTick, BroadcastTo, BroadcastDone, vars, loopVars, BatchOK
    <2>. QED BY <1>0, <2>1, <2>2, <2>3, BatchStill
  <1>2. CASE Accept
    BY <1>0, <1>2, BatchAccept DEF Accept
  <1>3. CASE \E fd \in ClientFds : Receive(fd)
    <2>1. PICK fd \in ClientFds : Receive(fd)
      BY <1>3
    <2>2. fd \in DOMAIN connOf /\ phase = "receive" /\ phase' = "receive" /\ UNCHANGED players
      BY <1>0, <2>1 DEF Receive, DescriptorsOpen
    <2>3. CASE ReceiveEnd(fd) /\ UNCHANGED batch
      <3>1. UNCHANGED <<clientIdToFd, connOf>>
        BY <2>3 DEF ReceiveEnd, socketVars
      <3>. QED BY <1>0, <2>2, <2>3, <3>1, BatchStill
    <2>4. CASE ~(ReceiveEnd(fd) /\ UNCHANGED batch)
      <3>1. PICK k \in 1..Len(inbox[connOf[fd]]) :
                LET frames == FramesIn(fdToBuffer[fd] \o SubSeq(inbox[connOf[fd]], 1, k))
                IN /\ ReceiveData(fd, k)
                   /\ batch' = batch \o
                        [i \in 1..Len(frames) |->
                           Message(frames[i].kind, fdToClientId[fd], frames[i].from)]
        BY <2>1, <2>4 DEF Receive
      <3>2. PICK read : read = fdToBuffer[fd] \o SubSeq(inbox[connOf[fd]], 1, k)
        OBVIOUS
      <3>3. PICK frames : frames = FramesIn(read)
        OBVIOUS
      <3>4. PICK n \in Nat :
               /\ DOMAIN frames = 1..n
               /\ \A i \in 1..n : frames[i].from = connOf[fd] /\ frames[i].kind \in Kinds
        <4>1. ReceiveData(fd, k)
          BY <3>1
        <4>2. /\ FrameCount(read) \in Nat /\ DOMAIN FramesIn(read) = 1..FrameCount(read)
              /\ \A i \in 1..FrameCount(read) :
                   FramesIn(read)[i].from = connOf[fd] /\ FramesIn(read)[i].kind \in Kinds
          BY <1>0, <2>2, <3>2, <4>1, StreamsReceive, ZenonT(60)
        <4>. QED BY <3>3, <4>2
      <3>5. Len(frames) = n
        BY <3>4, SMT
      <3>6. PICK more : more = [i \in 1..n |->
                          Message(frames[i].kind, fdToClientId[fd], frames[i].from)]
        OBVIOUS
      <3>7. batch' = batch \o more /\ ReceiveData(fd, k)
        BY <3>1, <3>2, <3>3, <3>5, <3>6
      <3>8. UNCHANGED <<clientIdToFd, connOf>>
        BY <3>7 DEF ReceiveData
      <3>9. fdToClientId[fd] \in Nat /\ connOf[fd] \in Conns
        BY <1>0, <2>2 DEF TablesOK, TablesTyped, TablesAgree, ConnsOK, ConnsTyped
      <3>10. /\ more \in [1..n -> Messages]
             /\ \A i \in 1..n : more[i].clientId = fdToClientId[fd] /\ more[i].from = connOf[fd]
        BY <3>4, <3>6, <3>9 DEF Message, Messages
      <3>. QED BY <1>0, <2>2, <3>7, <3>8, <3>10, BatchReceive
    <2>. QED BY <2>3, <2>4
  <1>4. CASE Drain
    <2>1. PICK q \in SetToSeqs({fdToClientId[fd] : fd \in DrainedFds}) :
             batch' = batch \o Departures(q)
      BY <1>4 DEF Drain
    <2>2. phase = "receive" /\ phase' = "dispatch" /\ DrainDisconnects /\ UNCHANGED players
      BY <1>4 DEF Drain
    <2>. QED BY <1>0, <2>1, <2>2, BatchDrain
  <1>5. CASE \/ \E outcome \in {"sent", "partial", "error"} : DispatchJoin(outcome)
             \/ DispatchInput \/ DispatchDisconnect
    <2>1. /\ phase = "dispatch" /\ phase' = "dispatch" /\ batch # << >> /\ batch' = Tail(batch)
      BY <1>5 DEF DispatchJoin, DispatchInput, DispatchDisconnect, Dispatching
    <2>2. UNCHANGED <<clientIdToFd, connOf>>
      BY <1>5 DEF DispatchJoin, DispatchInput, DispatchDisconnect, NetworkSend,
                  socketVars, tableVars
    <2>3. \A id \in players' :
             \/ id \in DOMAIN clientIdToFd
             \/ /\ id \in players
                /\ ~(Head(batch).kind = "disconnect" /\ Head(batch).clientId = id)
      BY <1>5 DEF DispatchJoin, DispatchInput, DispatchDisconnect, Dispatching
    <2>. QED BY <1>0, <2>1, <2>2, <2>3, BatchTail
  <1>. QED BY <1>1, <1>2, <1>3, <1>4, <1>5 DEF Next, ServerStep

LEMMA DeliveryInvAlways == Spec => []DeliveryInv
  BY DeliveryInvInit, DeliveryInvNext, PTL DEF Spec

\* RightSender: a message the loop is about to dispatch belongs to the client it is
\* attributed to, even if clients come and go, and descriptors change hands, while the
\* batch is collected.
THEOREM SenderAlwaysRight == Spec => []RightSender
  <1>1. DeliveryInv => RightSender
    BY DEF DeliveryInv, BatchOK
  <1>. QED BY <1>1, DeliveryInvAlways, PTL

\* DeparturesComeLast: whoever is gone from the tables still has its disconnect in the
\* batch, behind everything it said, so that no snake is left without its client and no
\* late message brings it back.
THEOREM DeparturesAlwaysLast == Spec => []DeparturesComeLast
  <1>1. DeliveryInv => DeparturesComeLast
    BY DepartLastComeLast DEF DeliveryInv
  <1>. QED BY <1>1, DeliveryInvAlways, PTL

-----------------------------------------------------------------------------
(* The types.  A client id is a number between 1 and the number of         *)
(* connections, because every id given away is a connection that nobody    *)
(* waits for any more.                                                     *)

\* Connections that may still be accepted.
Fresh == {c \in Conns : peer[c] = "new"} \cup Waiting

\* The ids that are in use, in the game or in the batch.
KnownIds == DOMAIN clientIdToFd \cup players \cup {batch[i].clientId : i \in 1..Len(batch)}

IdsOK ==
    /\ nextClientId \in Nat \ {0}
    /\ nextClientId + Cardinality(Fresh) <= Cardinality(Conns) + 1
    /\ KnownIds \subseteq 1..(nextClientId - 1)

LoopTyped ==
    /\ framesSent \in [Conns -> 0..MaxFrames]
    /\ phase \in {"poll", "receive", "dispatch", "broadcast", "crashed"}
    /\ events \subseteq ClientFds \cup {ServerFd}
    /\ stateChanged \in BOOLEAN
    /\ targets \subseteq ClientFds

TypeInv == DeliveryInv /\ IdsOK /\ LoopTyped

LEMMA FreshFinite ==
    ASSUME ConnsOK
    PROVE  /\ Fresh \subseteq Conns /\ IsFiniteSet(Fresh) /\ Cardinality(Fresh) \in Nat
           /\ Cardinality(Conns) \in Nat
  <1>1. Fresh \subseteq Conns
    BY WaitingType DEF Fresh
  <1>2. IsFiniteSet(Conns)
    BY SocketsAssumption
  <1>. QED BY <1>1, <1>2, FS_Subset, FS_CardinalityType

\* No id is given away.
LEMMA IdsStill ==
    ASSUME IdsOK, ConnsOK, UNCHANGED nextClientId, Fresh' \subseteq Fresh, KnownIds' \subseteq KnownIds
    PROVE  IdsOK'
  <1>1. IsFiniteSet(Fresh') /\ Cardinality(Fresh') <= Cardinality(Fresh) /\ Cardinality(Fresh') \in Nat
    <2>1. PICK later : later = Fresh'
      OBVIOUS
    <2>2. IsFiniteSet(later) /\ Cardinality(later) <= Cardinality(Fresh) /\ Cardinality(later) \in Nat
      BY <2>1, FreshFinite, FS_Subset, FS_CardinalityType
    <2>. QED BY <2>1, <2>2
  <1>2. Cardinality(Fresh') = Cardinality(Fresh)'
    OBVIOUS
  <1>. QED BY <1>1, <1>2, FreshFinite DEF IdsOK

\* The connections of the descriptors are not fresh, so that closing them leaves those
\* that are.
LEMMA FreshStill ==
    ASSUME ConnsOK, UNCHANGED backlog, \A c \in Conns : peer'[c] = "new" => peer[c] = "new"
    PROVE  Fresh' \subseteq Fresh
  BY DEF Fresh, Waiting

LEMMA FreshAccept ==
    ASSUME ConnsOK, backlog # << >>, UNCHANGED peer, backlog' = Tail(backlog)
    PROVE  /\ Head(backlog) \in Fresh /\ Fresh' = Fresh \ {Head(backlog)}
  <1>1. /\ Head(backlog) \in Waiting
        /\ {Tail(backlog)[i] : i \in 1..Len(Tail(backlog))} = Waiting \ {Head(backlog)}
    BY BacklogTail
  <1>2. Waiting' = Waiting \ {Head(backlog)}
    BY <1>1 DEF Waiting
  <1>3. peer[Head(backlog)] # "new"
    BY <1>1 DEF ConnsOK, ConnsApart
  <1>. QED BY <1>1, <1>2, <1>3 DEF Fresh

LEMMA IdsAccept ==
    ASSUME IdsOK, ConnsOK, TablesOK, AcceptNewClient, UNCHANGED <<players, batch>>
    PROVE  IdsOK'
  <1>1. CASE FreeFds = {}
    <2>1. UNCHANGED <<nextClientId, clientIdToFd, backlog, peer>>
      BY <1>1 DEF AcceptNewClient
    <2>2. KnownIds' = KnownIds /\ Fresh' \subseteq Fresh
      BY <2>1, FreshStill DEF KnownIds
    <2>. QED BY <2>1, <2>2, IdsStill
  <1>2. CASE FreeFds # {}
    <2>1. /\ backlog # << >> /\ UNCHANGED peer /\ backlog' = Tail(backlog)
          /\ clientIdToFd' = With(clientIdToFd, nextClientId, LowestFreeFd)
          /\ nextClientId' = nextClientId + 1
      BY <1>2 DEF AcceptNewClient, RegisterClient
    <2>2. KnownIds' = KnownIds \cup {nextClientId}
      BY <2>1 DEF KnownIds, With
    <2>3. PICK later : later = Fresh'
      OBVIOUS
    <2>4. Head(backlog) \in Fresh /\ later = Fresh \ {Head(backlog)}
      BY <2>1, <2>3, FreshAccept
    <2>5. Cardinality(later) = Cardinality(Fresh) - 1
      BY <2>4, FreshFinite, FS_RemoveElement
    <2>6. nextClientId' + Cardinality(later) <= Cardinality(Conns) + 1
      BY <2>1, <2>5, FreshFinite DEF IdsOK
    <2>7. KnownIds' \subseteq 1..(nextClientId' - 1)
      BY <2>1, <2>2 DEF IdsOK
    <2>. QED BY <2>1, <2>3, <2>6, <2>7 DEF IdsOK
  <1>. QED BY <1>1, <1>2

\* Who departs had an id.
LEMMA IdsDrain ==
    ASSUME ConnsOK, TablesOK, BatchOK, DrainDisconnects, UNCHANGED players,
           NEW q \in SetToSeqs({fdToClientId[fd] : fd \in DrainedFds}),
           batch' = batch \o Departures(q)
    PROVE  KnownIds' \subseteq KnownIds
  <1>1. PICK ids : ids = {fdToClientId[fd] : fd \in DrainedFds}
    OBVIOUS
  <1>2. IsFiniteSet(ids) /\ ids \subseteq DOMAIN clientIdToFd
    <2>1. DrainedFds \subseteq DOMAIN fdToClientId /\ DrainedFds \subseteq ClientFds
      BY DEF DrainedFds, TablesOK, TablesTyped, TablesAgree
    <2>2. IsFiniteSet(DrainedFds)
      BY <2>1, SocketsAssumption, FS_Subset
    <2>3. IsFiniteSet({fdToClientId[fd] : fd \in DrainedFds})
      BY <2>2, ImageFinite
    <2>. QED BY <1>1, <2>1, <2>3 DEF TablesOK, TablesAgree
  <1>3. PICK n \in Nat : q \in [1..n -> ids]
    <2>1. q \in SetToSeqs(ids) /\ IsFiniteSet(ids)
      BY <1>1, <1>2
    <2>2. \E n \in Nat : Lists(q, ids, n)
      BY <2>1, EveryOne
    <2>. QED BY <2>2 DEF Lists
  <1>4. PICK more : more = Departures(q)
    OBVIOUS
  <1>5. Len(q) = n
    BY <1>3, SMT
  <1>6. DOMAIN more = 1..n /\ \A i \in 1..n : more[i].clientId = q[i]
    BY <1>4, <1>5 DEF Departures, Message
  <1>7. PICK m \in Nat : m = Len(batch)
    BY LenProperties DEF BatchOK
  <1>8. \A i \in 1..Len(batch') : batch'[i].clientId \in KnownIds
    <2>1. Len(more) = n
      BY <1>6, SMT
    <2>2. Len(batch') = m + n
          /\ \A i \in 1..(m + n) : batch'[i] = IF i <= m THEN batch[i] ELSE more[i - m]
      <3>1. batch' = batch \o more
        BY <1>4
      <3>2. PICK S : S = Messages \cup {more[i] : i \in 1..n}
        OBVIOUS
      <3>3. more \in [1..n -> S]
        <4>1. more = [i \in 1..n |-> more[i]]
          BY <1>4, <1>5, <1>6, Zenon DEF Departures
        <4>. QED BY <3>2, <4>1
      <3>4. batch \in Seq(S)
        <4>1. batch \in [1..m -> Messages]
          BY <1>7, SMT DEF BatchOK
        <4>2. batch \in [1..m -> S]
          BY <3>2, <4>1
        <4>. QED BY <4>2, SMT
      <3>5. more \in Seq(S)
        BY <3>3, SMT
      <3>6. /\ Len(batch \o more) = m + n
            /\ \A i \in 1..(m + n) : (batch \o more)[i] = IF i <= m THEN batch[i] ELSE more[i - m]
        BY <1>7, <2>1, <3>4, <3>5, ConcatProperties
      <3>. QED BY <3>1, <3>6, Zenon
    <2> SUFFICES ASSUME NEW i \in 1..(m + n) PROVE batch'[i].clientId \in KnownIds
      BY <2>2
    <2>3. CASE i <= m
      <3>1. i \in 1..m
        BY <2>3, SMT
      <3>. QED BY <1>7, <2>2, <2>3, <3>1 DEF KnownIds
    <2>4. CASE ~(i <= m)
      <3>1. i - m \in 1..n
        BY <2>4, SMT
      <3>2. more[i - m].clientId \in ids
        BY <1>3, <1>6, <3>1
      <3>. QED BY <1>2, <2>2, <2>4, <3>2 DEF KnownIds
    <2>. QED BY <2>3, <2>4
  <1>9. DOMAIN clientIdToFd' \subseteq DOMAIN clientIdToFd
    BY DEF DrainDisconnects, DisconnectClients, Without
  <1>10. {batch'[i].clientId : i \in 1..Len(batch')} \subseteq KnownIds
    BY <1>8
  <1>11. DOMAIN clientIdToFd \subseteq KnownIds /\ players \subseteq KnownIds
    BY DEF KnownIds
  <1>12. KnownIds' = DOMAIN clientIdToFd' \cup players
                        \cup {batch'[i].clientId : i \in 1..Len(batch')}
    BY DEF KnownIds
  <1>. QED BY <1>9, <1>10, <1>11, <1>12

LEMMA TypeInvInit == Init => TypeInv
  <1> SUFFICES ASSUME Init PROVE TypeInv
    OBVIOUS
  <1>1. /\ peer = [c \in Conns |-> "new"] /\ backlog = << >> /\ clientIdToFd = << >>
        /\ nextClientId = 1 /\ players = {} /\ batch = << >>
        /\ framesSent = [c \in Conns |-> 0] /\ phase = "poll" /\ events = {}
        /\ stateChanged = FALSE /\ targets = {}
    BY DEF Init, SocketsInit, NetworkInit
  <1>2. Waiting = {} /\ KnownIds = {}
    <2>1. DOMAIN << >> = {} /\ 1..Len(<< >>) = {}
      BY SMT
    <2>. QED BY <1>1, <2>1 DEF Waiting, KnownIds
  <1>3. Fresh = Conns
    BY <1>1, <1>2 DEF Fresh
  <1>4. Cardinality(Conns) \in Nat
    BY SocketsAssumption, FS_CardinalityType
  <1>5. IdsOK
    BY <1>1, <1>2, <1>3, <1>4 DEF IdsOK
  <1>6. LoopTyped
    <2>1. 0 \in 0..MaxFrames
      BY SocketsAssumption
    <2>2. framesSent \in [Conns -> 0..MaxFrames]
      BY <1>1, <2>1
    <2>. QED BY <1>1, <2>2 DEF LoopTyped
  <1>. QED BY <1>5, <1>6, DeliveryInvInit DEF TypeInv

LEMMA LoopTypedNext ==
    ASSUME LoopTyped, TablesOK, [Next]_vars
    PROVE  LoopTyped'
  <1>0. DOMAIN connOf \subseteq ClientFds /\ DOMAIN fdToClientId \subseteq ClientFds
    BY DEF TablesOK, TablesTyped, TablesAgree
  <1>1. CASE \/ AssertNoneToDisconnect \/ DeserialiseThrows \/ DispatchJoinThrows \/ Drain
             \/ \E outcome \in {"sent", "partial", "error"} : DispatchJoin(outcome)
             \/ DispatchInput \/ DispatchDisconnect \/ BroadcastDone
             \/ UNCHANGED vars
    <2>1. UNCHANGED framesSent
      BY <1>1 DEF AssertNoneToDisconnect, DeserialiseThrows, DispatchJoinThrows, Crash, Drain,
                  DrainDisconnects, DisconnectClients, CloseFds, DispatchJoin, NetworkSend,
                  DispatchInput, DispatchDisconnect, BroadcastDone, vars, socketVars
    <2>2. UNCHANGED <<events, targets>> /\ stateChanged' \in {stateChanged, TRUE, FALSE}
      BY <1>1 DEF AssertNoneToDisconnect, DeserialiseThrows, DispatchJoinThrows, Crash, Drain,
                  DispatchJoin, DispatchInput, DispatchDisconnect, BroadcastDone, vars, loopVars
    <2>3. phase' \in {phase, "crashed", "dispatch", "poll"}
      BY <1>1 DEF AssertNoneToDisconnect, DeserialiseThrows, DispatchJoinThrows, Crash, Drain,
                  DispatchJoin, DispatchInput, DispatchDisconnect, BroadcastDone, vars, loopVars
    <2>. QED BY <2>1, <2>2, <2>3 DEF LoopTyped
  <1>2. CASE \E reported \in SUBSET ReadyFds : EpollWait(reported)
    <2>1. /\ UNCHANGED <<framesSent, stateChanged, targets>> /\ phase' = "receive"
          /\ events' \subseteq ReadyFds
      BY <1>2 DEF EpollWait, socketVars
    <2>2. ReadyFds \subseteq DOMAIN connOf \cup {ServerFd}
      BY DEF ReadyFds
    <2>. QED BY <1>0, <2>1, <2>2 DEF LoopTyped
  <1>3. CASE Accept \/ \E fd \in ClientFds : Receive(fd)
    <2>1. UNCHANGED framesSent
      BY <1>3 DEF Accept, AcceptNewClient, Receive, ReceiveData, ReceiveEnd, socketVars
    <2>2. UNCHANGED <<stateChanged, targets, phase>> /\ events' \subseteq events
      BY <1>3 DEF Accept, Receive
    <2>. QED BY <2>1, <2>2 DEF LoopTyped
  <1>4. CASE \E moved \in BOOLEAN, dead \in SUBSET players : PlayTick(moved, dead)
    <2>1. PICK moved \in BOOLEAN, dead \in SUBSET players : PlayTick(moved, dead)
      BY <1>4
    <2>2. /\ UNCHANGED <<framesSent, events>> /\ phase' \in {"broadcast", "poll"}
          /\ targets' \subseteq DOMAIN fdToClientId /\ stateChanged' \in BOOLEAN
      BY <2>1 DEF PlayTick, socketVars
    <2>. QED BY <1>0, <2>2 DEF LoopTyped
  <1>5. CASE \E fd \in ClientFds, outcome \in {"sent", "partial", "error"} : BroadcastTo(fd, outcome)
    <2>1. /\ UNCHANGED <<framesSent, phase, events, stateChanged>> /\ targets' \subseteq targets
      BY <1>5 DEF BroadcastTo, NetworkSend
    <2>. QED BY <2>1 DEF LoopTyped
  <1>6. CASE PeerStep /\ UNCHANGED <<tableVars, loopVars>>
    <2>1. framesSent' \in [Conns -> 0..MaxFrames]
      <3>1. CASE UNCHANGED framesSent
        BY <3>1 DEF LoopTyped
      <3>2. CASE \E c \in Conns : framesSent[c] < MaxFrames
                                    /\ framesSent' = [framesSent EXCEPT ![c] = @ + 1]
        BY <3>2, SocketsAssumption DEF LoopTyped
      <3>. QED BY <1>6, <3>1, <3>2 DEF PeerStep, Connect, SendFrame, Close, Reset
    <2>. QED BY <1>6, <2>1 DEF LoopTyped, loopVars
  <1>. QED BY <1>1, <1>2, <1>3, <1>4, <1>5, <1>6 DEF Next, ServerStep

LEMMA IdsNext ==
    ASSUME DeliveryInv, DeliveryInv', IdsOK, [Next]_vars
    PROVE  IdsOK'
  <1>0. BatchOK /\ BatchOK' /\ ConnsOK /\ TablesOK /\ DescriptorsOpen
    BY DEF DeliveryInv, StreamInv, TornInv, Inv, TablesOK
  <1>a. \A fd \in DOMAIN connOf : connOf[fd] \in Conns /\ peer[connOf[fd]] # "new"
    BY <1>0 DEF ConnsOK, ConnsTyped, ConnsApart
  <1>1. CASE Accept
    BY <1>0, <1>1, IdsAccept DEF Accept
  <1>2. CASE ~Accept
    <2> SUFFICES UNCHANGED nextClientId /\ Fresh' \subseteq Fresh /\ KnownIds' \subseteq KnownIds
      BY <1>0, IdsStill
    <2>1. CASE PeerStep /\ UNCHANGED <<tableVars, loopVars>>
      <3>1. UNCHANGED nextClientId /\ KnownIds' = KnownIds
        BY <2>1 DEF KnownIds, tableVars, loopVars
      <3>2. ASSUME NEW c \in Conns, Connect(c)
            PROVE  Fresh' \subseteq Fresh
        <4>1. /\ peer[c] = "new" /\ peer' = [peer EXCEPT ![c] = "open"]
              /\ backlog' = Append(backlog, c)
          BY <3>2 DEF Connect
        <4>2. Waiting' \subseteq Waiting \cup {c}
          <5>1. PICK m \in Nat : m = Len(backlog)
            BY <1>0, LenProperties DEF ConnsOK, ConnsTyped
          <5>2. Len(backlog') = m + 1
                /\ \A i \in 1..(m + 1) : backlog'[i] = IF i <= m THEN backlog[i] ELSE c
            BY <1>0, <4>1, <5>1, SMT DEF ConnsOK, ConnsTyped
          <5>3. \A i \in 1..(m + 1) : i <= m => i \in 1..m
            BY SMT
          <5>. QED BY <5>1, <5>2, <5>3 DEF Waiting
        <4>3. peer \in [Conns -> {"new", "open", "closed", "reset"}]
          BY <1>0 DEF ConnsOK, ConnsTyped
        <4>. QED BY <4>1, <4>2, <4>3 DEF Fresh
      <3>3. ASSUME NEW c \in Conns, (\E kind \in Kinds : SendFrame(c, kind)) \/ Close(c) \/ Reset(c)
            PROVE  Fresh' \subseteq Fresh
        <4>1. /\ UNCHANGED backlog
              /\ peer' = peer \/ peer' = [peer EXCEPT ![c] = "closed"]
                   \/ peer' = [peer EXCEPT ![c] = "reset"]
          BY <3>3 DEF SendFrame, Close, Reset
        <4>2. peer \in [Conns -> {"new", "open", "closed", "reset"}]
          BY <1>0 DEF ConnsOK, ConnsTyped
        <4>3. \A d \in Conns : peer'[d] = "new" => peer[d] = "new"
          BY <4>1, <4>2
        <4>. QED BY <1>0, <4>1, <4>3, FreshStill
      <3>. QED BY <2>1, <3>1, <3>2, <3>3 DEF PeerStep
    <2>2. CASE Drain
      <3>1. PICK q \in SetToSeqs({fdToClientId[fd] : fd \in DrainedFds}) :
               batch' = batch \o Departures(q)
        BY <2>2 DEF Drain
      <3>2. DrainDisconnects /\ UNCHANGED players
        BY <2>2 DEF Drain
      <3>3. KnownIds' \subseteq KnownIds
        BY <1>0, <3>1, <3>2, IdsDrain
      <3>4. /\ UNCHANGED <<nextClientId, backlog>>
            /\ \A c \in Conns : peer'[c] = "new" => peer[c] = "new"
        BY <3>2 DEF DrainDisconnects, DisconnectClients, CloseFds
      <3>. QED BY <1>0, <3>3, <3>4, FreshStill
    <2>3. CASE \E fd \in ClientFds : Receive(fd)
      <3>1. UNCHANGED <<nextClientId, clientIdToFd, backlog, peer>>
        BY <2>3 DEF Receive, ReceiveData, ReceiveEnd, socketVars
      <3>2. phase' = "receive"
        BY <2>3 DEF Receive
      <3>3. /\ players' \subseteq DOMAIN clientIdToFd'
            /\ \A i \in 1..Len(batch') : batch'[i].clientId \in DOMAIN clientIdToFd'
        BY <1>0, <3>2 DEF BatchOK, AllPresent
      <3>4. KnownIds' \subseteq KnownIds
        BY <3>1, <3>3 DEF KnownIds
      <3>. QED BY <1>0, <3>1, <3>4, FreshStill
    <2>4. CASE \/ \E outcome \in {"sent", "partial", "error"} : DispatchJoin(outcome)
               \/ DispatchInput \/ DispatchDisconnect
      <3>1. /\ UNCHANGED <<nextClientId, clientIdToFd, backlog, peer>>
            /\ batch # << >> /\ batch' = Tail(batch)
            /\ players' \subseteq players \cup DOMAIN clientIdToFd
        BY <2>4 DEF DispatchJoin, DispatchInput, DispatchDisconnect, Dispatching, NetworkSend,
                    socketVars, tableVars
      <3>2. \A i \in 1..Len(batch') : batch'[i].clientId \in KnownIds
        <4>1. PICK m \in Nat : m = Len(batch)
          BY <1>0, LenProperties DEF BatchOK
        <4>2. Len(batch') = m - 1 /\ \A i \in 1..(m - 1) : batch'[i] = batch[i + 1]
          BY <1>0, <3>1, <4>1, SMT DEF BatchOK
        <4>3. \A i \in 1..(m - 1) : i + 1 \in 1..m
          BY SMT
        <4>. QED BY <4>1, <4>2, <4>3 DEF KnownIds
      <3>3. KnownIds' \subseteq KnownIds
        BY <3>1, <3>2 DEF KnownIds
      <3>. QED BY <1>0, <3>1, <3>3, FreshStill
    <2>5. CASE \/ AssertNoneToDisconnect \/ DeserialiseThrows \/ DispatchJoinThrows
               \/ \E reported \in SUBSET ReadyFds : EpollWait(reported)
               \/ \E moved \in BOOLEAN, dead \in SUBSET players : PlayTick(moved, dead)
               \/ \E fd \in ClientFds, outcome \in {"sent", "partial", "error"} :
                     BroadcastTo(fd, outcome)
               \/ BroadcastDone
               \/ UNCHANGED vars
      <3>1. UNCHANGED <<batch, clientIdToFd, nextClientId>> /\ players' \subseteq players
        BY <2>5 DEF AssertNoneToDisconnect, DeserialiseThrows, DispatchJoinThrows, Crash,
                    EpollWait, PlayTick, BroadcastTo, NetworkSend, BroadcastDone, vars,
                    tableVars, loopVars
      <3>2. UNCHANGED <<backlog, peer>>
        BY <2>5 DEF AssertNoneToDisconnect, DeserialiseThrows, DispatchJoinThrows, Crash,
                    EpollWait, PlayTick, BroadcastTo, NetworkSend, BroadcastDone, vars,
                    socketVars
      <3>3. KnownIds' \subseteq KnownIds
        BY <3>1 DEF KnownIds
      <3>. QED BY <1>0, <3>1, <3>2, <3>3, FreshStill
    <2>. QED BY <1>2, <2>1, <2>2, <2>3, <2>4, <2>5 DEF Next, ServerStep
  <1>. QED BY <1>1, <1>2

LEMMA TypeInvNext == TypeInv /\ [Next]_vars => TypeInv'
  <1> SUFFICES ASSUME TypeInv, [Next]_vars PROVE TypeInv'
    OBVIOUS
  <1>1. DeliveryInv /\ DeliveryInv' /\ IdsOK /\ LoopTyped /\ TablesOK
    BY DeliveryInvNext DEF TypeInv, DeliveryInv, StreamInv, TornInv, Inv, TablesOK
  <1>. QED BY <1>1, IdsNext, LoopTypedNext DEF TypeInv

LEMMA TypeInvTypes == TypeInv => TypeOK
  <1> SUFFICES ASSUME TypeInv PROVE TypeOK
    OBVIOUS
  <1>0. /\ TablesTyped /\ TablesAgree /\ ConnsOK /\ ChunksTyped /\ BatchOK /\ IdsOK /\ LoopTyped
    BY DEF TypeInv, DeliveryInv, StreamInv, TornInv, Inv, Streams
  <1>1. PICK n \in Nat : n = Cardinality(Conns)
    BY <1>0, FreshFinite
  <1>2. PICK f \in Nat : f = Cardinality(Fresh)
    BY <1>0, FreshFinite
  <1>3. nextClientId \in 1..(n + 1)
    BY <1>0, <1>1, <1>2 DEF IdsOK
  <1>4. ClientIds = 1..n /\ nextClientId \in ClientIds \cup {Cardinality(Conns) + 1}
    BY <1>1, <1>3 DEF ClientIds
  <1>5. KnownIds \subseteq ClientIds
    <2>1. 1..(nextClientId - 1) \subseteq 1..n
      BY <1>3
    <2>. QED BY <1>0, <1>4, <2>1 DEF IdsOK
  <1>6. /\ DOMAIN clientIdToFd \subseteq ClientIds /\ players \subseteq ClientIds
        /\ \A i \in 1..Len(batch) : batch[i].clientId \in ClientIds
    BY <1>5 DEF KnownIds
  <1>7. batch \in Seq([kind : Kinds \cup {"disconnect"}, clientId : ClientIds, from : Conns])
    <2>1. PICK m \in Nat : m = Len(batch) /\ batch \in [1..m -> Messages]
      BY <1>0, SMT DEF BatchOK
    <2>2. \A i \in 1..m :
             batch[i] \in [kind : Kinds \cup {"disconnect"}, clientId : ClientIds, from : Conns]
      BY <1>6, <2>1 DEF Messages
    <2>3. PICK S : S = [kind : Kinds \cup {"disconnect"}, clientId : ClientIds, from : Conns]
      OBVIOUS
    <2>4. batch \in [1..m -> S]
      BY <2>1, <2>2, <2>3
    <2>5. batch \in Seq(S)
      BY <2>4, SMT
    <2>. QED BY <2>3, <2>5
  <1>8. Range(connOf) \subseteq Conns
    BY <1>0 DEF Range, ConnsOK, ConnsTyped
  <1>9. /\ DOMAIN fdToClientId \subseteq ClientFds /\ Range(fdToClientId) \subseteq ClientIds
        /\ Range(clientIdToFd) \subseteq ClientFds
    BY <1>0, <1>6 DEF Range, TablesTyped, TablesAgree
  <1>10. DOMAIN fdToBuffer \subseteq ClientFds /\ Range(fdToBuffer) \subseteq Seq(Chunks)
    BY <1>0 DEF Range, TablesTyped, TablesAgree, ChunksTyped
  <1>. QED BY <1>0, <1>4, <1>6, <1>7, <1>8, <1>9, <1>10
           DEF TypeOK, TablesTyped, TablesAgree, ConnsOK, ConnsTyped, ChunksTyped, LoopTyped

\* TypeOK: nothing in the tables, the batch, the events or the targets of the loop is
\* ever out of its range, and no id but those of acceptNewClient() is ever in use.
THEOREM LoopTypeCorrect == Spec => []TypeOK
  <1>. QED BY TypeInvInit, TypeInvNext, TypeInvTypes, PTL DEF Spec
=============================================================================
