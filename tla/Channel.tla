------------------------------- MODULE Channel -------------------------------
(***************************************************************************)
(* What a client may expect of its connection: the messages arrive whole,  *)
(* in order and some at a time, each once, until the client gives the      *)
(* connection up.                                                          *)
(*                                                                         *)
(* ClientFraming implements this specification.                            *)
(***************************************************************************)
EXTENDS Integers, Sequences

CONSTANTS Messages

VARIABLES
    sent,
    delivered,
    isOpen

channelVars == <<sent, delivered, isOpen>>

Init == sent = << >> /\ delivered = << >> /\ isOpen = TRUE

Send(msg) == sent' = Append(sent, msg) /\ UNCHANGED <<delivered, isOpen>>

Deliver ==
    /\ isOpen
    /\ \E n \in Len(delivered) + 1..Len(sent) : delivered' = SubSeq(sent, 1, n)
    /\ UNCHANGED <<sent, isOpen>>

GiveUp == isOpen' = FALSE /\ UNCHANGED <<sent, delivered>>

Next == (\E msg \in Messages : Send(msg)) \/ Deliver \/ GiveUp

Spec == Init /\ [][Next]_channelVars
=============================================================================
