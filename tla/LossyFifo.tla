----------------------------- MODULE LossyFifo -----------------------------
(***************************************************************************)
(* What the path of a topic from one host to the other promises: a queue   *)
(* that may lose messages, when the subscriber is destroyed or the         *)
(* connection is closed, but neither duplicates nor reorders them.         *)
(*                                                                         *)
(* The ids number the messages of a ROS topic in the order in which they   *)
(* arrived.  Where the queue is Ordered it accepts them in that order.     *)
(***************************************************************************)
EXTENDS Naturals, Sequences

CONSTANTS Ids, Ordered

VARIABLES
  accepted,  \* the ids the queue has accepted
  pending,   \* those on their way
  delivered  \* those published on the other host

vars == <<accepted, pending, delivered>>

Init ==
  /\ accepted = {}
  /\ pending = <<>>
  /\ delivered = <<>>

Accept(id) ==
  /\ id \notin accepted
  /\ Ordered => \A i \in accepted : i < id
  /\ accepted' = accepted \cup {id}
  /\ pending' = Append(pending, id)
  /\ UNCHANGED delivered

Deliver ==
  /\ pending # <<>>
  /\ delivered' = Append(delivered, Head(pending))
  /\ pending' = Tail(pending)
  /\ UNCHANGED accepted

\* Some of what is pending, from one place, is dropped.
Lose ==
  /\ \E i, j \in 1 .. Len(pending) :
       /\ i <= j
       /\ pending' = SubSeq(pending, 1, i - 1) \o SubSeq(pending, j + 1, Len(pending))
  /\ UNCHANGED <<accepted, delivered>>

Next == (\E id \in Ids : Accept(id)) \/ Deliver \/ Lose

Spec == Init /\ [][Next]_vars
=============================================================================
