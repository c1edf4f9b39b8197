------------------------ MODULE MCTopicSubscription ------------------------
(***************************************************************************)
(* An instance of TopicSubscription for TLC: two announcements of a topic  *)
(* with a thread of its own may be under way, one of a shared topic.       *)
(***************************************************************************)
EXTENDS TopicSubscription

MCMaxLink == [c \in Channels |-> IF c \in OwnThread THEN 2 ELSE 1]
=============================================================================
