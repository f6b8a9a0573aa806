------------------------ MODULE MCTopicConversations ------------------------
(* An instance of the registry alone for TLC. *)
EXTENDS TopicConversations, TLC

Interchangeable == Permutations(Conversation) \cup Permutations(Topic)

=============================================================================
