-------------------------- MODULE MCServiceBridge --------------------------
(***************************************************************************)
(* TLC instances of ServiceBridge.  A call is a model value; which client  *)
(* makes it follows from the set it is taken from.                         *)
(***************************************************************************)
EXTENDS ServiceBridge

CONSTANTS
  c1, c2,         \* the ROS clients
  First, Second   \* the calls of c1 and of c2

MCCallers == {c1, c2}
MCRequests == First \cup Second
MCgid == [r \in MCRequests |-> IF r \in First THEN c1 ELSE c2]
=============================================================================
