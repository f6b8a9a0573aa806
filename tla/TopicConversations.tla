------------------------- MODULE TopicConversations -------------------------
(***************************************************************************)
(* The stable-topic registry of one channel (zulip/conversations.py).      *)
(* Every operation of TopicConversationRegistry is one SQLite transaction  *)
(* under one lock and touches one channel, so each is one action here.     *)
(* live is live_holders; member, lastTopic and origin are the columns      *)
(* topic_name, last_topic and origin_name of former_holders (a row exists  *)
(* exactly when lastTopic is set).                                         *)
(***************************************************************************)
CONSTANTS Topic, Conversation, NoTopic, NoConv

ASSUME RegistryAssumption == NoTopic \notin Topic /\ NoConv \notin Conversation

VARIABLES
  live,       \* the conversation each topic name talks in, or NoConv
  member,     \* the topic whose former session a conversation is, or NoTopic
  lastTopic,  \* the last known topic name on the former row, or NoTopic
  origin,     \* where a conversation was minted; NoTopic before that
  strays      \* history: former sessions that stayed behind when their topic left

registry == <<live, member, lastTopic, origin, strays>>

RegistryInit ==
  /\ live = [t \in Topic |-> NoConv]
  /\ member = [c \in Conversation |-> NoTopic]
  /\ lastTopic = [c \in Conversation |-> NoTopic]
  /\ origin = [c \in Conversation |-> NoTopic]
  /\ strays = {}

-----------------------------------------------------------------------------
(* Reads *)

Fresh == {c \in Conversation : origin[c] = NoTopic}

Lookup(t) == live[t]

IsLive(c) == \E t \in Topic : live[t] = c

\* current_name: the topic a conversation is live under.
CurrentName(c) == IF IsLive(c) THEN CHOOSE t \in Topic : live[t] = c ELSE NoTopic

SessionsForTopic(t) == {c \in Conversation : member[c] = t}

\* Slip: the last known name is preferred to the current one.
RoutedTopicByRecord(c) == IF lastTopic[c] # NoTopic THEN lastTopic[c] ELSE CurrentName(c)

\* routed_topic: the current name, else the last known one, never the id.
RoutedTopic(c) == IF CurrentName(c) # NoTopic THEN CurrentName(c) ELSE lastTopic[c]

-----------------------------------------------------------------------------
(* Operations *)

\* R1: the name's conversation, minted when there is none.
Resolve(t) ==
  \/ /\ live[t] # NoConv
     /\ UNCHANGED registry
  \/ /\ live[t] = NoConv
     /\ \E c \in Fresh :
          /\ live' = [live EXCEPT ![t] = c]
          /\ origin' = [origin EXCEPT ![c] = t]
     /\ UNCHANGED <<member, lastTopic, strays>>

\* Slip: the row of the old name is not deleted from live_holders.
RepointKeepingName(old, new) ==
  /\ live[old] # NoConv
  /\ member' = [c \in Conversation |->
       IF c = live[old] THEN NoTopic
       ELSE IF c = live[new] \/ member[c] = old THEN new ELSE member[c]]
  /\ lastTopic' = [lastTopic EXCEPT ![live[old]] = old]
  /\ live' = [live EXCEPT ![new] = live[old]]
  /\ UNCHANGED <<origin, strays>>

\* Slip: the audit row of the moved conversation keeps the old name as its topic.
RepointTagged(old, new) ==
  /\ live[old] # NoConv
  /\ member' = [c \in Conversation |->
       IF c = live[old] THEN old
       ELSE IF c = live[new] \/ member[c] = old THEN new ELSE member[c]]
  /\ lastTopic' = [c \in Conversation |->
       IF c = live[old] THEN old ELSE IF c = live[new] THEN new ELSE lastTopic[c]]
  /\ live' = [live EXCEPT ![old] = NoConv, ![new] = live[old]]
  /\ UNCHANGED <<origin, strays>>

\* Slip: the former sessions of the old name stay behind.
RepointAlone(old, new) ==
  /\ live[old] # NoConv
  /\ member' = [c \in Conversation |->
       IF c = live[old] THEN NoTopic ELSE IF c = live[new] THEN new ELSE member[c]]
  /\ lastTopic' = [c \in Conversation |->
       IF c = live[old] THEN old ELSE IF c = live[new] THEN new ELSE lastTopic[c]]
  /\ live' = [live EXCEPT ![old] = NoConv, ![new] = live[old]]
  /\ UNCHANGED <<origin, strays>>

\* R2/R5: the conversation and the former sessions of old move to new; what new
\* talked in becomes a former session of new; old keeps a NULL audit row.
Repoint(old, new) ==
  /\ live[old] # NoConv
  /\ LET moved == live[old]
         displaced == live[new]
     IN  /\ member' = [c \in Conversation |->
              IF c = moved THEN NoTopic
              ELSE IF c = displaced \/ member[c] = old THEN new
              ELSE member[c]]
         /\ lastTopic' = [c \in Conversation |->
              IF c = moved THEN old
              ELSE IF c = displaced THEN new
              ELSE lastTopic[c]]
         /\ live' = [live EXCEPT ![old] = NoConv, ![new] = moved]
  /\ UNCHANGED <<origin, strays>>

\* R7: t talks in conv from now on; what t talked in becomes its former session;
\* a topic that conv was live under keeps it as a former session.
Rebind(t, conv) ==
  LET displaced == live[t]
      departed == {u \in Topic \ {t} : live[u] = conv}
      left == IF departed = {} THEN NoTopic ELSE CHOOSE u \in departed : TRUE
  IN  /\ member' = [c \in Conversation |->
           IF c = conv THEN left ELSE IF c = displaced THEN t ELSE member[c]]
      /\ lastTopic' = [c \in Conversation |->
           IF c = conv THEN left ELSE IF c = displaced THEN t ELSE lastTopic[c]]
      /\ live' = [u \in Topic |->
           IF u = t THEN conv ELSE IF u \in departed THEN NoConv ELSE live[u]]
      /\ origin' = [origin EXCEPT ![conv] = IF @ = NoTopic THEN t ELSE @]

\* Slip: only the live row is orphaned.
OrphanLiveOnly(t) ==
  LET orphaned == {c \in Conversation : live[t] = c}
  IN  /\ member' = [c \in Conversation |-> IF c \in orphaned THEN NoTopic ELSE member[c]]
      /\ lastTopic' = [c \in Conversation |-> IF c \in orphaned THEN t ELSE lastTopic[c]]
      /\ live' = [live EXCEPT ![t] = NoConv]
      /\ UNCHANGED <<origin, strays>>

\* R10: everything that belongs to t loses its topic.
OrphanTopicSessions(t) ==
  LET orphaned == SessionsForTopic(t) \cup {c \in Conversation : live[t] = c}
  IN  /\ member' = [c \in Conversation |-> IF c \in orphaned THEN NoTopic ELSE member[c]]
      /\ lastTopic' = [c \in Conversation |-> IF c \in orphaned THEN t ELSE lastTopic[c]]
      /\ live' = [live EXCEPT ![t] = NoConv]
      /\ UNCHANGED <<origin, strays>>

\* R8: t's conversation loses its topic; the UPDATE is keyed by conversation id,
\* so the former sessions of t stay members of t.
Free(t) ==
  /\ live[t] # NoConv
  /\ member' = [member EXCEPT ![live[t]] = NoTopic]
  /\ lastTopic' = [lastTopic EXCEPT ![live[t]] = t]
  /\ live' = [live EXCEPT ![t] = NoConv]
  /\ strays' = strays \cup SessionsForTopic(t)
  /\ UNCHANGED origin

\* /continue: the check against the topic's own set and the rebind run in one
\* synchronous handler.
Continue(t, c) ==
  /\ live[t] # NoConv
  /\ c # live[t]
  /\ c \in SessionsForTopic(t)
  /\ Rebind(t, c)
  /\ strays' = strays \ {c}

-----------------------------------------------------------------------------

RegistryNext ==
  \/ \E t \in Topic : Resolve(t) \/ OrphanTopicSessions(t) \/ Free(t)
  \/ \E old, new \in Topic : old # new /\ Repoint(old, new)
  \/ \E t \in Topic, c \in Conversation : Continue(t, c)

RegistrySpec == RegistryInit /\ [][RegistryNext]_registry

-----------------------------------------------------------------------------
(* Properties *)

RegistryTypeOK ==
  /\ live \in [Topic -> Conversation \cup {NoConv}]
  /\ member \in [Conversation -> Topic \cup {NoTopic}]
  /\ lastTopic \in [Conversation -> Topic \cup {NoTopic}]
  /\ origin \in [Conversation -> Topic \cup {NoTopic}]
  /\ strays \subseteq Conversation

\* The unique index of live_holders is never hit: a conversation is live under at
\* most one name, so no INSERT OR REPLACE silently drops another topic's row.
OneTopicPerConversation ==
  \A t, u \in Topic : live[t] # NoConv /\ live[t] = live[u] => t = u

\* A session that some topic talks in is nobody's former session: /continue can
\* never take it away from the topic that holds it.
HeldSessionsAreNotTaken ==
  \A c \in Conversation : IsLive(c) => member[c] = NoTopic

\* A conversation that was minted is always on record, live or former, so the
\* upgrade migration recognises its key and a late reply has a topic to land in.
NothingIsForgotten ==
  \A c \in Conversation :
    origin[c] # NoTopic => RoutedTopic(c) # NoTopic

\* A topic's session set: what it talks in and its former sessions.
SessionSet(t) == {c \in Conversation : live[t] = c \/ member[c] = t}

Documented == INSTANCE TopicOwnership WITH
  owns <- [t \in Topic |-> SessionSet(t)],
  talks <- live,
  born <- Conversation \ Fresh

\* STABLE-TOPIC-SESSIONS.md, R1 to R10, of all that the tables hold: a full rename
\* hands the whole set over, a deletion or a move leaves no owner, and a name that is
\* used again "never adopts a previous incarnation's sessions" (R4).  Free breaks it.
KeepsToOwnership == Documented!OwnershipSpec

Owned == [t \in Topic |-> SessionSet(t) \ strays]

Ownership == INSTANCE TopicOwnership WITH
  owns <- Owned,
  talks <- live,
  born <- Conversation \ Fresh

\* /continue takes up a session that stayed behind under the topic's name.
TakesUpAStray ==
  \E t \in Topic, c \in strays :
    /\ live[t] # NoConv
    /\ member[c] = t
    /\ live' = [live EXCEPT ![t] = c]
    /\ Owned' = [Owned EXCEPT ![t] = @ \cup {c}]
    /\ UNCHANGED origin

\* The same rules of what no Free left behind, a stray becoming the topic's own when
\* /continue takes it up: that is the one way in which the rows of the two tables
\* depart from plain ownership.
ImplementsOwnership ==
  Ownership!OwnershipInit
    /\ [][Ownership!OwnershipNext \/ TakesUpAStray]_(Ownership!ownershipVars)

=============================================================================
