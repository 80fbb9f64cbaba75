--------------------------- MODULE OrderedDelivery ---------------------------
(***************************************************************************)
(* What the data plane promises for the messages one device sends into a   *)
(* conversation ("each asserting exactly-once, in-order delivery",         *)
(* LAYER8_SPRINT1_RELIABLE_MESSAGING.md): the receiver delivers a growing  *)
(* prefix of what was sent, each message once, in the order of sending.    *)
(* How messages travel, get lost, repeated or overtaken is not seen here.  *)
(***************************************************************************)
EXTENDS Naturals, Sequences

CONSTANT Messages  \* records with a field seq, one message per number

VARIABLES sent,      \* messages given to send
          delivered  \* messages the receiver delivered, in order

Init == sent = {} /\ delivered = <<>>

Send == \E m \in Messages \ sent : sent' = sent \cup {m} /\ UNCHANGED delivered

\* One or more messages follow, without a hole.
Deliver ==
  \E n \in {m.seq : m \in sent} :
    /\ n > Len(delivered)
    /\ \A i \in 1..n : \E m \in sent : m.seq = i
    /\ delivered' = [i \in 1..n |-> CHOOSE m \in sent : m.seq = i]
    /\ UNCHANGED sent

Next == Send \/ Deliver

Spec == Init /\ [][Next]_<<sent, delivered>>
=============================================================================
