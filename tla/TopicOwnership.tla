--------------------------- MODULE TopicOwnership ---------------------------
(***************************************************************************)
(* What stable topic sessions promise: every topic name owns a set of      *)
(* conversations and talks in one of them; a set changes hands only as a   *)
(* whole, by a full rename; and a name that is given up owns nothing, so   *)
(* that one used again starts with a conversation of its own.              *)
(***************************************************************************)
CONSTANTS Topic, Conversation, NoConv

VARIABLES owns, talks, born

ownershipVars == <<owns, talks, born>>

OwnershipInit ==
  /\ owns = [t \in Topic |-> {}]
  /\ talks = [t \in Topic |-> NoConv]
  /\ born = {}

Found(t) ==
  /\ talks[t] = NoConv
  /\ owns[t] = {}
  /\ \E c \in Conversation \ born :
       /\ owns' = [owns EXCEPT ![t] = {c}]
       /\ talks' = [talks EXCEPT ![t] = c]
       /\ born' = born \cup {c}

\* Everything the old name owned, its beneficiary inherits.
Inherit(old, new) ==
  /\ old # new
  /\ talks[old] # NoConv
  /\ owns' = [owns EXCEPT ![old] = {}, ![new] = @ \cup owns[old]]
  /\ talks' = [talks EXCEPT ![old] = NoConv, ![new] = talks[old]]
  /\ UNCHANGED born

Switch(t, c) ==
  /\ talks[t] # NoConv
  /\ c \in owns[t]
  /\ talks' = [talks EXCEPT ![t] = c]
  /\ UNCHANGED <<owns, born>>

\* The topic is gone from the channel: nobody inherits what it owned.
Abandon(t) ==
  /\ owns' = [owns EXCEPT ![t] = {}]
  /\ talks' = [talks EXCEPT ![t] = NoConv]
  /\ UNCHANGED born

OwnershipNext ==
  \/ \E t \in Topic : Found(t) \/ Abandon(t)
  \/ \E old, new \in Topic : Inherit(old, new)
  \/ \E t \in Topic, c \in Conversation : Switch(t, c)

OwnershipSpec == OwnershipInit /\ [][OwnershipNext]_ownershipVars

=============================================================================
