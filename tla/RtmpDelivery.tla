---------------------------- MODULE RtmpDelivery ----------------------------
(***************************************************************************)
(* What the chunk layer of librtmp promises: on every channel the messages *)
(* a peer sends arrive whole, once and in the order in which they were     *)
(* sent, however the chunks of different channels interleave.  A lost      *)
(* connection loses what has not arrived.                                  *)
(***************************************************************************)
EXTENDS Naturals, Sequences

CONSTANTS Channels

VARIABLES sent,   \* by channel, the messages the peer has sent
          got     \* by channel, the messages that have arrived
vars == <<sent, got>>

Init == sent = [c \in Channels |-> <<>>] /\ got = sent

\* Send(c): one message more on channel c, whatever it is.
Send(c) == /\ Len(sent'[c]) = Len(sent[c]) + 1
           /\ sent' = [sent EXCEPT ![c] = Append(@, sent'[c][Len(@) + 1])]
           /\ UNCHANGED got

Arrive(c) == /\ Len(got[c]) < Len(sent[c])
             /\ got' = [got EXCEPT ![c] = Append(@, sent[c][Len(@) + 1])]
             /\ UNCHANGED sent

Lose == sent' = got /\ UNCHANGED got

Next == Lose \/ \E c \in Channels : Send(c) \/ Arrive(c)

Spec == Init /\ [][Next]_vars
=============================================================================
