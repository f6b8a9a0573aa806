--------------------------- MODULE MCTopicRouting ---------------------------
(* Instances of TopicRouting for TLC. *)
EXTENDS TopicRouting, TLC

Interchangeable == 
  Permutations(Conversation) \cup Permutations(Topic) \cup Permutations(Msg)

=============================================================================
