---------------------- MODULE TopicConversationsProofs ----------------------
(***************************************************************************)
(* Theorems about the registry, for any set of topic names and             *)
(* conversations; and about the channel, poll loop and checks that drive   *)
(* it (TopicRouting), for any number of threads, messages, operations and  *)
(* events: they keep its types and its rules, and, as long as no name is   *)
(* reused while its deletion is being checked, no topic reads what was     *)
(* said in another, no living topic loses its conversations, no deleted    *)
(* one leaves them behind, and replies land where they belong.             *)
(***************************************************************************)
EXTENDS TopicRouting, SequenceTheorems, FiniteSetTheorems, TLAPS

\* Only minted conversations are on record.
RecordsAreMinted ==
  \A c \in Conversation : IsLive(c) \/ member[c] # NoTopic => origin[c] # NoTopic

\* What stays behind is minted and talks nowhere; and a name without a conversation
\* has no other sessions.
StraysAreBehind ==
  /\ \A c \in strays : origin[c] # NoTopic /\ ~IsLive(c)
  /\ \A t \in Topic, c \in Conversation :
       live[t] = NoConv /\ member[c] = t => c \in strays

\* OneTopicPerConversation needs the next two: Resolve mints what is nowhere on
\* record, and Continue takes only what nobody talks in.
RegistryInv ==
  /\ RegistryTypeOK
  /\ OneTopicPerConversation
  /\ HeldSessionsAreNotTaken
  /\ RecordsAreMinted
  /\ StraysAreBehind

\* The guard of /continue leaves nothing for the "departed" branch of a rebind.
LEMMA ContinueIsFromOwnSet ==
  ASSUME RegistryAssumption, RegistryInv,
         NEW t \in Topic, NEW c \in Conversation, Continue(t, c)
  PROVE  /\ live[t] # NoConv /\ live[t] # c /\ member[c] = t
         /\ \A u \in Topic : live[u] # c
         /\ live' = [live EXCEPT ![t] = c]
         /\ member' = [x \in Conversation |->
              IF x = c THEN NoTopic ELSE IF x = live[t] THEN t ELSE member[x]]
         /\ lastTopic' = [x \in Conversation |->
              IF x = c THEN NoTopic ELSE IF x = live[t] THEN t ELSE lastTopic[x]]
         /\ UNCHANGED origin /\ strays' = strays \ {c}
<1>1. live[t] # NoConv /\ live[t] # c /\ member[c] = t /\ Rebind(t, c) /\ strays' = strays \ {c}
  BY DEF Continue, SessionsForTopic
<1>2. \A u \in Topic : live[u] # c
  BY <1>1 DEF RegistryInv, HeldSessionsAreNotTaken, IsLive, RegistryAssumption
<1>3. {u \in Topic \ {t} : live[u] = c} = {}
  BY <1>2
<1>4. live' = [live EXCEPT ![t] = c]
  BY <1>1, <1>3 DEF Rebind, RegistryInv, RegistryTypeOK
<1>5. origin[c] # NoTopic
  BY <1>1 DEF RegistryInv, RecordsAreMinted, RegistryAssumption
<1>6. UNCHANGED origin
  BY <1>1, <1>5 DEF Rebind, RegistryInv, RegistryTypeOK
<1> QED BY <1>1, <1>2, <1>3, <1>4, <1>6 DEF Rebind

Rows ==
  /\ RegistryTypeOK
  /\ OneTopicPerConversation
  /\ HeldSessionsAreNotTaken
  /\ RecordsAreMinted

LEMMA RowsInductive ==
  ASSUME RegistryAssumption, RegistryInv, [RegistryNext]_registry
  PROVE  Rows'
<1> USE DEF RegistryAssumption, RegistryInv, Rows, RegistryTypeOK,
        OneTopicPerConversation, HeldSessionsAreNotTaken, RecordsAreMinted, IsLive
<1>1. ASSUME NEW t \in Topic, Resolve(t) PROVE Rows'
  <2>1. CASE UNCHANGED registry
    BY <2>1 DEF registry
  <2>2. ASSUME NEW c \in Fresh, live[t] = NoConv,
               live' = [live EXCEPT ![t] = c], origin' = [origin EXCEPT ![c] = t],
               UNCHANGED <<member, lastTopic, strays>>
        PROVE  Rows'
    <3>1. c \in Conversation /\ member[c] = NoTopic /\ \A u \in Topic : live[u] # c
      BY <2>2 DEF Fresh
    <3>2. RegistryTypeOK'
      BY <2>2, <3>1
    <3>3. OneTopicPerConversation'
      BY <2>2, <3>1
    <3>4. HeldSessionsAreNotTaken' /\ RecordsAreMinted'
      BY <2>2, <3>1
    <3> QED BY <3>2, <3>3, <3>4
  <2> QED BY <1>1, <2>1, <2>2 DEF Resolve
<1>2. ASSUME NEW t \in Topic, OrphanTopicSessions(t) PROVE Rows'
  <2>1. /\ live' = [live EXCEPT ![t] = NoConv]
        /\ member' \in [Conversation -> Topic \cup {NoTopic}]
        /\ lastTopic' \in [Conversation -> Topic \cup {NoTopic}]
        /\ \A c \in Conversation : member'[c] \in {NoTopic, member[c]}
        /\ UNCHANGED <<origin, strays>>
    BY <1>2 DEF OrphanTopicSessions, SessionsForTopic
  <2> QED BY <2>1
<1>3. ASSUME NEW t \in Topic, Free(t) PROVE Rows'
  BY <1>3 DEF Free, SessionsForTopic
<1>4. ASSUME NEW old \in Topic, NEW new \in Topic, old # new, Repoint(old, new)
      PROVE  Rows'
  <2>1. /\ live[old] \in Conversation
        /\ live' = [live EXCEPT ![old] = NoConv, ![new] = live[old]]
        /\ member' = [c \in Conversation |->
             IF c = live[old] THEN NoTopic
             ELSE IF c = live[new] \/ member[c] = old THEN new
             ELSE member[c]]
        /\ lastTopic' \in [Conversation -> Topic \cup {NoTopic}]
        /\ UNCHANGED <<origin, strays>>
    BY <1>4 DEF Repoint
  <2>2. RegistryTypeOK'
    BY <2>1
  <2>3. \A u \in Topic \ {old, new} : live'[u] = live[u] /\ live[u] # live[old]
    BY <2>1
  <2>4. live'[old] = NoConv /\ live'[new] = live[old]
    BY <1>4, <2>1
  <2>5. OneTopicPerConversation'
    BY <2>1, <2>3, <2>4
  <2>6. HeldSessionsAreNotTaken'
    <3> SUFFICES ASSUME NEW c \in Conversation, NEW u \in Topic, live'[u] = c
                 PROVE  member'[c] = NoTopic
      OBVIOUS
    <3>1. CASE u = new
      BY <2>1, <2>4, <3>1
    <3>2. CASE u # new
      <4>1. u # old /\ live[u] = c
        BY <2>3, <2>4, <3>2
      <4>2. c # live[new] /\ c # live[old] /\ member[c] = NoTopic
        BY <2>1, <3>2, <4>1
      <4> QED BY <2>1, <4>2
    <3> QED BY <3>1, <3>2
  <2>7. RecordsAreMinted'
    BY <2>1, <2>3, <2>4
  <2> QED BY <2>2, <2>5, <2>6, <2>7
<1>5. ASSUME NEW t \in Topic, NEW c \in Conversation, Continue(t, c)
      PROVE  Rows'
  <2>1. /\ live[t] # NoConv /\ live[t] # c /\ member[c] = t
        /\ \A u \in Topic : live[u] # c
        /\ live' = [live EXCEPT ![t] = c]
        /\ member' = [x \in Conversation |->
             IF x = c THEN NoTopic ELSE IF x = live[t] THEN t ELSE member[x]]
        /\ lastTopic' = [x \in Conversation |->
             IF x = c THEN NoTopic ELSE IF x = live[t] THEN t ELSE lastTopic[x]]
        /\ UNCHANGED origin /\ strays' = strays \ {c}
    BY <1>5, ContinueIsFromOwnSet
  <2>2. RegistryTypeOK'
    BY <2>1
  <2>3. OneTopicPerConversation' /\ HeldSessionsAreNotTaken'
    BY <2>1
  <2>4. RecordsAreMinted'
    BY <2>1
  <2> QED BY <2>2, <2>3, <2>4
<1>6. CASE UNCHANGED registry
  BY <1>6 DEF registry
<1> QED BY <1>1, <1>2, <1>3, <1>4, <1>5, <1>6 DEF RegistryNext

LEMMA StraysInductive ==
  ASSUME RegistryAssumption, RegistryInv, [RegistryNext]_registry
  PROVE  StraysAreBehind'
<1> USE DEF RegistryAssumption, RegistryTypeOK, IsLive, StraysAreBehind
<1>0. RegistryTypeOK /\ StraysAreBehind /\ strays \subseteq Conversation
  BY DEF RegistryInv
<1> USE <1>0
<1>1. ASSUME NEW t \in Topic, Resolve(t) PROVE StraysAreBehind'
  <2>1. CASE UNCHANGED registry
    BY <2>1 DEF registry
  <2>2. ASSUME NEW c \in Fresh, live[t] = NoConv,
               live' = [live EXCEPT ![t] = c], origin' = [origin EXCEPT ![c] = t],
               UNCHANGED <<member, lastTopic, strays>>
        PROVE  StraysAreBehind'
    <3>1. c \in Conversation /\ c \notin strays
      BY <2>2 DEF Fresh
    <3> QED BY <2>2, <3>1
  <2> QED BY <1>1, <2>1, <2>2 DEF Resolve
<1>2. ASSUME NEW t \in Topic, OrphanTopicSessions(t) PROVE StraysAreBehind'
  <2>1. /\ live' = [live EXCEPT ![t] = NoConv]
        /\ member' = [c \in Conversation |->
             IF member[c] = t \/ live[t] = c THEN NoTopic ELSE member[c]]
        /\ UNCHANGED <<origin, strays>>
    BY <1>2 DEF OrphanTopicSessions, SessionsForTopic
  <2> QED BY <2>1
<1>3. ASSUME NEW t \in Topic, Free(t) PROVE StraysAreBehind'
  <2>1. /\ live' = [live EXCEPT ![t] = NoConv]
        /\ member' = [member EXCEPT ![live[t]] = NoTopic]
        /\ strays' = strays \cup {c \in Conversation : member[c] = t}
        /\ UNCHANGED origin
    BY <1>3 DEF Free, SessionsForTopic
  <2>2. \A c \in Conversation : member[c] = t => origin[c] # NoTopic /\ ~IsLive(c)
    BY DEF RegistryInv, HeldSessionsAreNotTaken, RecordsAreMinted
  <2>3. \A c \in strays' : origin'[c] # NoTopic /\ \A u \in Topic : live'[u] # c
    BY <2>1, <2>2
  <2>4. ASSUME NEW u \in Topic, NEW c \in Conversation, live'[u] = NoConv, member'[c] = u
        PROVE  c \in strays'
    BY <2>1, <2>4
  <2> QED BY <2>3, <2>4
<1>4. ASSUME NEW old \in Topic, NEW new \in Topic, old # new, Repoint(old, new)
      PROVE  StraysAreBehind'
  <2>1. /\ live[old] \in Conversation
        /\ live' = [live EXCEPT ![old] = NoConv, ![new] = live[old]]
        /\ member' = [c \in Conversation |->
             IF c = live[old] THEN NoTopic
             ELSE IF c = live[new] \/ member[c] = old THEN new
             ELSE member[c]]
        /\ UNCHANGED <<origin, strays>>
    BY <1>4 DEF Repoint
  <2>2. live'[old] = NoConv /\ live'[new] = live[old]
        /\ \A u \in Topic \ {old, new} : live'[u] = live[u]
    BY <1>4, <2>1
  <2>3. \A c \in strays' : origin'[c] # NoTopic /\ \A u \in Topic : live'[u] # c
    BY <2>1, <2>2
  <2>4. ASSUME NEW u \in Topic, NEW c \in Conversation, live'[u] = NoConv, member'[c] = u
        PROVE  c \in strays'
    BY <1>4, <2>1, <2>2, <2>4
  <2> QED BY <2>3, <2>4
<1>5. ASSUME NEW t \in Topic, NEW c \in Conversation, Continue(t, c)
      PROVE  StraysAreBehind'
  <2>1. /\ live[t] # NoConv /\ live[t] # c /\ member[c] = t
        /\ live' = [live EXCEPT ![t] = c]
        /\ member' = [x \in Conversation |->
             IF x = c THEN NoTopic ELSE IF x = live[t] THEN t ELSE member[x]]
        /\ UNCHANGED origin /\ strays' = strays \ {c}
    BY <1>5, ContinueIsFromOwnSet
  <2> QED BY <2>1
<1>6. CASE UNCHANGED registry
  BY <1>6 DEF registry
<1> QED BY <1>1, <1>2, <1>3, <1>4, <1>5, <1>6 DEF RegistryNext

LEMMA RegistryInductive ==
  ASSUME RegistryAssumption, RegistryInv, [RegistryNext]_registry
  PROVE  RegistryInv'
BY RowsInductive, StraysInductive DEF RegistryInv, Rows

LEMMA RegistryInitially ==
  ASSUME RegistryAssumption, RegistryInit
  PROVE  RegistryInv
BY DEF RegistryAssumption, RegistryInit, RegistryInv, RegistryTypeOK,
       OneTopicPerConversation, HeldSessionsAreNotTaken, RecordsAreMinted,
       StraysAreBehind, IsLive

\* The unique index of live_holders is never hit, so no INSERT OR REPLACE drops
\* another topic's row.
THEOREM ConversationsAreLiveOnce == RegistrySpec => []OneTopicPerConversation
<1>1. RegistryInit => RegistryInv
  BY RegistryAssumption, RegistryInitially
<1>2. RegistryInv /\ [RegistryNext]_registry => RegistryInv'
  BY RegistryAssumption, RegistryInductive
<1>3. RegistryInv => OneTopicPerConversation
  BY DEF RegistryInv
<1> QED BY <1>1, <1>2, <1>3, PTL DEF RegistrySpec

\* /continue never takes a conversation from the topic that talks in it.
THEOREM HeldSessionsStayHeld == RegistrySpec => []HeldSessionsAreNotTaken
<1>1. RegistryInit => RegistryInv
  BY RegistryAssumption, RegistryInitially
<1>2. RegistryInv /\ [RegistryNext]_registry => RegistryInv'
  BY RegistryAssumption, RegistryInductive
<1>3. RegistryInv => HeldSessionsAreNotTaken
  BY DEF RegistryInv
<1> QED BY <1>1, <1>2, <1>3, PTL DEF RegistrySpec

\* Every row of the registry keeps its type.
THEOREM RegistryTypes == RegistrySpec => []RegistryTypeOK
<1>1. RegistryInit => RegistryInv
  BY RegistryAssumption, RegistryInitially
<1>2. RegistryInv /\ [RegistryNext]_registry => RegistryInv'
  BY RegistryAssumption, RegistryInductive
<1>3. RegistryInv => RegistryTypeOK
  BY DEF RegistryInv
<1> QED BY <1>1, <1>2, <1>3, PTL DEF RegistrySpec

-----------------------------------------------------------------------------
(* Nothing is forgotten *)

\* What NothingIsForgotten says of the columns: a minted conversation is live or
\* has a last known topic.
MintedIsKnown ==
  \A c \in Conversation : origin[c] # NoTopic => IsLive(c) \/ lastTopic[c] # NoTopic

LEMMA MintedIsKnownInductive ==
  ASSUME RegistryAssumption, RegistryInv, MintedIsKnown, [RegistryNext]_registry
  PROVE  MintedIsKnown'
<1> USE DEF RegistryAssumption, RegistryTypeOK, IsLive, MintedIsKnown
<1>0. RegistryTypeOK
  BY DEF RegistryInv
<1> USE <1>0
<1>1. ASSUME NEW t \in Topic, Resolve(t) PROVE MintedIsKnown'
  <2>1. CASE UNCHANGED registry
    BY <2>1 DEF registry
  <2>2. ASSUME NEW c \in Fresh, live[t] = NoConv,
               live' = [live EXCEPT ![t] = c], origin' = [origin EXCEPT ![c] = t],
               UNCHANGED <<member, lastTopic, strays>>
        PROVE  MintedIsKnown'
    BY <2>2 DEF Fresh
  <2> QED BY <1>1, <2>1, <2>2 DEF Resolve
<1>2. ASSUME NEW t \in Topic, OrphanTopicSessions(t) PROVE MintedIsKnown'
  BY <1>2 DEF OrphanTopicSessions, SessionsForTopic
<1>3. ASSUME NEW t \in Topic, Free(t) PROVE MintedIsKnown'
  BY <1>3 DEF Free
<1>4. ASSUME NEW old \in Topic, NEW new \in Topic, old # new, Repoint(old, new)
      PROVE  MintedIsKnown'
  <2>1. /\ live[old] \in Conversation
        /\ live' = [live EXCEPT ![old] = NoConv, ![new] = live[old]]
        /\ lastTopic' = [c \in Conversation |->
             IF c = live[old] THEN old ELSE IF c = live[new] THEN new ELSE lastTopic[c]]
        /\ UNCHANGED origin
    BY <1>4 DEF Repoint
  <2>2. \A u \in Topic \ {old, new} : live'[u] = live[u]
    BY <2>1
  <2> QED BY <2>1, <2>2
<1>5. ASSUME NEW t \in Topic, NEW c \in Conversation, Continue(t, c)
      PROVE  MintedIsKnown'
  BY <1>5, ContinueIsFromOwnSet
<1>6. CASE UNCHANGED registry
  BY <1>6 DEF registry
<1> QED BY <1>1, <1>2, <1>3, <1>4, <1>5, <1>6 DEF RegistryNext

\* A conversation that was minted is never lost from both tables: a late reply
\* always has a topic to land in.
THEOREM ConversationsStayOnRecord == RegistrySpec => []NothingIsForgotten
<1>1. RegistryInit => RegistryInv /\ MintedIsKnown
  <2>1. RegistryInit => MintedIsKnown
    BY RegistryAssumption DEF RegistryInit, MintedIsKnown
  <2> QED BY RegistryAssumption, RegistryInitially, <2>1
<1>2. RegistryInv /\ MintedIsKnown /\ [RegistryNext]_registry
      => (RegistryInv /\ MintedIsKnown)'
  BY RegistryAssumption, RegistryInductive, MintedIsKnownInductive
<1>3. RegistryInv /\ MintedIsKnown => NothingIsForgotten
  BY RegistryAssumption
     DEF RegistryInv, RegistryTypeOK, MintedIsKnown, NothingIsForgotten,
         RoutedTopic, CurrentName, IsLive
<1> QED BY <1>1, <1>2, <1>3, PTL DEF RegistrySpec

-----------------------------------------------------------------------------
(* The registry implements plain ownership *)

LEMMA ResolveIsFound ==
  ASSUME RegistryAssumption, RegistryInv, NEW t \in Topic, Resolve(t)
  PROVE  [Ownership!OwnershipNext]_(Ownership!ownershipVars)
<1> USE DEF RegistryAssumption, RegistryInv, RegistryTypeOK, SessionSet, Fresh
<1>1. CASE UNCHANGED registry
  BY <1>1 DEF registry, Ownership!ownershipVars, Owned
<1>2. ASSUME NEW c \in Fresh, live[t] = NoConv,
             live' = [live EXCEPT ![t] = c], origin' = [origin EXCEPT ![c] = t],
             UNCHANGED <<member, lastTopic, strays>>
      PROVE  Ownership!Found(t)
  <2>1. \A u \in Topic : SessionSet(u)' = IF u = t THEN SessionSet(u) \cup {c} ELSE SessionSet(u)
    BY <1>2
  <2>2. c \in Conversation \ (Conversation \ Fresh)
    BY <1>2
  <2>3. (Conversation \ Fresh)' = (Conversation \ Fresh) \cup {c}
    BY <1>2
  <2>4. c \in Conversation /\ c \notin strays
    BY <1>2 DEF StraysAreBehind
  <2>5. Owned[t] = {}
    BY <1>2 DEF Owned, StraysAreBehind
  <2> HIDE DEF Fresh, SessionSet
  <2>6. Owned' = [Owned EXCEPT ![t] = {c}]
    <3>1. SessionSet(t) \ strays = {}
      BY <2>5 DEF Owned
    <3>2. SessionSet(t)' \ strays' = {c}
      BY <1>2, <2>1, <2>4, <3>1
    <3>3. \A u \in Topic \ {t} : SessionSet(u)' \ strays' = SessionSet(u) \ strays
      BY <1>2, <2>1
    <3> QED BY <3>2, <3>3 DEF Owned
  <2> QED BY <1>2, <2>2, <2>3, <2>5, <2>6 DEF Ownership!Found
<1> QED BY <1>1, <1>2 DEF Resolve, Ownership!OwnershipNext

LEMMA RepointIsInherit ==
  ASSUME RegistryAssumption, RegistryInv,
         NEW old \in Topic, NEW new \in Topic, old # new, Repoint(old, new)
  PROVE  Ownership!Inherit(old, new)
<1> USE DEF RegistryAssumption, RegistryInv, RegistryTypeOK
<1>1. /\ live[old] \in Conversation
      /\ live' = [live EXCEPT ![old] = NoConv, ![new] = live[old]]
      /\ member' = [c \in Conversation |->
           IF c = live[old] THEN NoTopic
           ELSE IF c = live[new] \/ member[c] = old THEN new
           ELSE member[c]]
      /\ UNCHANGED <<origin, strays>>
  BY DEF Repoint
<1>2. live'[old] = NoConv /\ live'[new] = live[old]
  BY <1>1
<1>3. SessionSet(old)' = {}
  BY <1>1, <1>2 DEF SessionSet
<1>4. SessionSet(new)' = SessionSet(new) \cup SessionSet(old)
  <2>1. SessionSet(new)' =
          {c \in Conversation : c = live[old] \/ c = live[new]
                                  \/ member[c] = old \/ member[c] = new}
    <3>1. \A c \in Conversation : member'[c] = new <=>
            c # live[old] /\ (c = live[new] \/ member[c] \in {old, new})
      BY <1>1
    <3> QED BY <1>2, <3>1 DEF SessionSet
  <2> QED BY <2>1 DEF SessionSet
<1>5. ASSUME NEW u \in Topic, u \notin {old, new}
      PROVE  SessionSet(u)' = SessionSet(u)
  <2>1. live'[u] = live[u]
    BY <1>1, <1>5
  <2>2. \A c \in Conversation : member[c] = u => c # live[old] /\ c # live[new]
    BY <1>5 DEF HeldSessionsAreNotTaken, IsLive
  <2>3. \A c \in Conversation : member'[c] = u <=> member[c] = u
    BY <1>1, <1>5, <2>2
  <2> QED BY <2>1, <2>3 DEF SessionSet
<1>6. (Conversation \ Fresh)' = Conversation \ Fresh
  BY <1>1 DEF Fresh
<1>7. Owned' = [Owned EXCEPT ![old] = {}, ![new] = @ \cup Owned[old]]
  BY <1>1, <1>3, <1>4, <1>5 DEF Owned
<1> HIDE DEF RegistryInv
<1> QED BY <1>1, <1>6, <1>7 DEF Ownership!Inherit

\* /continue stays inside the topic's set, or takes up what stayed behind there.
LEMMA ContinueIsSwitch ==
  ASSUME RegistryAssumption, RegistryInv,
         NEW t \in Topic, NEW c \in Conversation, Continue(t, c)
  PROVE  Ownership!Switch(t, c) \/ TakesUpAStray
<1> USE DEF RegistryAssumption, RegistryInv, RegistryTypeOK
<1>1. /\ live[t] # NoConv /\ live[t] # c /\ member[c] = t
      /\ \A u \in Topic : live[u] # c
      /\ live' = [live EXCEPT ![t] = c]
      /\ member' = [x \in Conversation |->
           IF x = c THEN NoTopic ELSE IF x = live[t] THEN t ELSE member[x]]
      /\ UNCHANGED origin /\ strays' = strays \ {c}
  BY ContinueIsFromOwnSet
<1>2. ASSUME NEW u \in Topic PROVE SessionSet(u)' = SessionSet(u)
  <2>1. CASE u = t
    <3>1. live'[u] = c
      BY <1>1, <2>1
    <3>2. \A x \in Conversation : member'[x] = u <=> x # c /\ (x = live[t] \/ member[x] = u)
      BY <1>1, <2>1
    <3> QED BY <1>1, <2>1, <3>1, <3>2 DEF SessionSet
  <2>2. CASE u # t
    <3>1. live'[u] = live[u]
      BY <1>1, <2>2
    <3>2. live[t] \in Conversation /\ member[live[t]] = NoTopic
      BY <1>1 DEF HeldSessionsAreNotTaken, IsLive
    <3>3. \A x \in Conversation : member'[x] = u <=> member[x] = u
      BY <1>1, <2>2, <3>2
    <3> QED BY <3>1, <3>3 DEF SessionSet
  <2> QED BY <2>1, <2>2
<1>3. c \in SessionSet(t)
  BY <1>1 DEF SessionSet
<1>4. (Conversation \ Fresh)' = Conversation \ Fresh
  BY <1>1 DEF Fresh
<1>5. CASE c \notin strays
  <2>1. Owned' = Owned /\ c \in Owned[t]
    BY <1>1, <1>2, <1>3, <1>5 DEF Owned
  <2> HIDE DEF RegistryInv
  <2> QED BY <1>1, <1>4, <2>1 DEF Ownership!Switch
<1>6. CASE c \in strays
  <2>1. \A u \in Topic : c \in SessionSet(u) <=> u = t
    BY <1>1 DEF SessionSet
  <2>2. SessionSet(t)' \ strays' = (SessionSet(t) \ strays) \cup {c}
    BY <1>1, <1>2, <2>1
  <2>3. \A u \in Topic \ {t} : SessionSet(u)' \ strays' = SessionSet(u) \ strays
    BY <1>1, <1>2, <2>1
  <2>4. Owned' = [Owned EXCEPT ![t] = @ \cup {c}]
    BY <2>2, <2>3 DEF Owned
  <2> HIDE DEF RegistryInv
  <2> QED BY <1>1, <1>6, <2>4 DEF TakesUpAStray
<1> QED BY <1>5, <1>6

LEMMA OrphanIsAbandon ==
  ASSUME RegistryAssumption, RegistryInv, NEW t \in Topic, OrphanTopicSessions(t)
  PROVE  Ownership!Abandon(t)
<1> USE DEF RegistryAssumption, RegistryInv, RegistryTypeOK
<1>1. /\ live' = [live EXCEPT ![t] = NoConv]
      /\ member' = [c \in Conversation |->
           IF member[c] = t \/ live[t] = c THEN NoTopic ELSE member[c]]
      /\ UNCHANGED <<origin, strays>>
  BY DEF OrphanTopicSessions, SessionsForTopic
<1>2. SessionSet(t)' = {}
  BY <1>1 DEF SessionSet
<1>3. ASSUME NEW u \in Topic, u # t PROVE SessionSet(u)' = SessionSet(u)
  <2>1. live'[u] = live[u]
    BY <1>1, <1>3
  <2>2. \A c \in Conversation : member[c] = u => live[t] # c
    BY <1>3 DEF HeldSessionsAreNotTaken, IsLive
  <2> QED BY <1>1, <1>3, <2>1, <2>2 DEF SessionSet
<1>4. (Conversation \ Fresh)' = Conversation \ Fresh
  BY <1>1 DEF Fresh
<1>5. Owned' = [Owned EXCEPT ![t] = {}]
  BY <1>1, <1>2, <1>3 DEF Owned
<1> HIDE DEF RegistryInv
<1> QED BY <1>1, <1>4, <1>5 DEF Ownership!Abandon

\* A move, too, leaves the name without anything that is not left behind.
LEMMA FreeIsAbandon ==
  ASSUME RegistryAssumption, RegistryInv, NEW t \in Topic, Free(t)
  PROVE  Ownership!Abandon(t)
<1> USE DEF RegistryAssumption, RegistryInv, RegistryTypeOK
<1>1. /\ live[t] \in Conversation
      /\ live' = [live EXCEPT ![t] = NoConv]
      /\ member' = [member EXCEPT ![live[t]] = NoTopic]
      /\ strays' = strays \cup {c \in Conversation : member[c] = t}
      /\ UNCHANGED origin
  BY DEF Free, SessionsForTopic
<1>2. member[live[t]] = NoTopic
  BY <1>1 DEF HeldSessionsAreNotTaken, IsLive
<1>3. member' = member
  BY <1>1, <1>2
<1>4. SessionSet(t)' \subseteq strays'
  BY <1>1, <1>3 DEF SessionSet
<1>5. ASSUME NEW u \in Topic, u # t
      PROVE  SessionSet(u)' \ strays' = SessionSet(u) \ strays
  <2>1. SessionSet(u)' = SessionSet(u)
    BY <1>1, <1>3, <1>5 DEF SessionSet
  <2>2. \A c \in SessionSet(u) : member[c] # t
    BY <1>5 DEF SessionSet, HeldSessionsAreNotTaken, IsLive
  <2> QED BY <1>1, <2>1, <2>2
<1>6. (Conversation \ Fresh)' = Conversation \ Fresh
  BY <1>1 DEF Fresh
<1>7. Owned' = [Owned EXCEPT ![t] = {}]
  BY <1>4, <1>5 DEF Owned
<1> HIDE DEF RegistryInv
<1> QED BY <1>1, <1>6, <1>7 DEF Ownership!Abandon

LEMMA StutterIsStutter ==
  ASSUME UNCHANGED registry
  PROVE  UNCHANGED Ownership!ownershipVars
BY DEF registry, Ownership!ownershipVars, Owned, SessionSet, Fresh

\* The two tables implement plain ownership of all that no Free left behind: a rename
\* hands the whole set over, /continue stays inside it, a deletion or a move leaves no
\* owner, and a name that is used again owns a new conversation and nothing else.
\* What was left behind becomes a topic's own again by its /continue and in no other
\* way.
THEOREM RegistryImplementsOwnership == RegistrySpec => ImplementsOwnership
<1>1. RegistryInit => RegistryInv
  BY RegistryAssumption, RegistryInitially
<1>2. RegistryInv /\ [RegistryNext]_registry => RegistryInv'
  BY RegistryAssumption, RegistryInductive
<1>3. RegistryInit => Ownership!OwnershipInit
  BY RegistryAssumption
     DEF RegistryInit, Ownership!OwnershipInit, Owned, SessionSet, Fresh
<1>4. RegistryInv /\ [RegistryNext]_registry
      => [Ownership!OwnershipNext \/ TakesUpAStray]_(Ownership!ownershipVars)
  <2> SUFFICES ASSUME RegistryInv, [RegistryNext]_registry
               PROVE  [Ownership!OwnershipNext \/ TakesUpAStray]_(Ownership!ownershipVars)
    OBVIOUS
  <2>1. ASSUME NEW t \in Topic, Resolve(t)
        PROVE  [Ownership!OwnershipNext]_(Ownership!ownershipVars)
    BY <2>1, RegistryAssumption, ResolveIsFound
  <2>2. ASSUME NEW t \in Topic, OrphanTopicSessions(t) PROVE Ownership!OwnershipNext
    BY <2>2, RegistryAssumption, OrphanIsAbandon DEF Ownership!OwnershipNext
  <2>3. ASSUME NEW t \in Topic, Free(t) PROVE Ownership!OwnershipNext
    BY <2>3, RegistryAssumption, FreeIsAbandon DEF Ownership!OwnershipNext
  <2>4. ASSUME NEW old \in Topic, NEW new \in Topic, old # new, Repoint(old, new)
        PROVE  Ownership!OwnershipNext
    BY <2>4, RegistryAssumption, RepointIsInherit DEF Ownership!OwnershipNext
  <2>5. ASSUME NEW t \in Topic, NEW c \in Conversation, Continue(t, c)
        PROVE  Ownership!OwnershipNext \/ TakesUpAStray
    BY <2>5, RegistryAssumption, ContinueIsSwitch DEF Ownership!OwnershipNext
  <2>6. CASE UNCHANGED registry
    BY <2>6, StutterIsStutter
  <2> QED BY <2>1, <2>2, <2>3, <2>4, <2>5, <2>6 DEF RegistryNext
<1> QED BY <1>1, <1>2, <1>3, <1>4, PTL
       DEF RegistrySpec, ImplementsOwnership

-----------------------------------------------------------------------------
(* The registry inside TopicRouting *)

\* A rename event changes the name, so old and new differ when it is applied.
RenamesMove ==
  \A i \in DOMAIN events : events[i].kind = "rename" => events[i].topic # events[i].new

RoutingInv == RoutingTypeOK /\ RegistryInv /\ RenamesMove

LEMMA EventAhead ==
  ASSUME RoutingInv, events # <<>>
  PROVE  /\ Head(events) \in Event /\ Tail(events) \in Seq(Event)
         /\ Head(events).kind = "rename" => Head(events).topic # Head(events).new
         /\ RenamesMove' \/ events' # Tail(events)
<1>1. events \in Seq(Event)
  BY DEF RoutingInv, RoutingTypeOK
<1>2. /\ Head(events) = events[1] /\ 1 \in DOMAIN events /\ Tail(events) \in Seq(Event)
      /\ \A i \in DOMAIN Tail(events) : Tail(events)[i] = events[i + 1] /\ i + 1 \in DOMAIN events
  BY <1>1
<1>3. Head(events) \in Event
  BY <1>1, <1>2
<1> QED
  BY <1>2, <1>3 DEF RoutingInv, RenamesMove

\* What each kind of event carries.
LEMMA EventFields ==
  ASSUME NEW e \in Event
  PROVE  /\ e.topic \in Topic
         /\ e.kind = "message" => e.msg \in Msg
         /\ e.kind = "rename" => e.new \in Topic
         /\ e.kind = "delete" => e.op \in 0 .. MaxOps
BY DEF Event

\* Every step of the channel's model is one registry operation, or none.
LEMMA RegistryStep ==
  ASSUME RoutingInv, [Next]_vars
  PROVE  [RegistryNext]_registry
<1>1. CASE ServerStep
  <2>1. ASSUME NEW m \in Msg, NEW t \in Topic, Post(m, t) PROVE UNCHANGED registry
    BY <2>1 DEF Post
  <2>2. ASSUME NEW old \in Topic, NEW new \in Topic, Rename(old, new) \/ Split(old, new)
        PROVE  UNCHANGED registry
    BY <2>2 DEF Rename, Split
  <2>3. ASSUME NEW t \in Topic, MoveAway(t) \/ \E all \in BOOLEAN : Delete(t, all)
        PROVE  UNCHANGED registry
    BY <2>3 DEF Delete, MoveAway
  <2> QED
    BY <1>1, <2>1, <2>2, <2>3 DEF ServerStep
<1>2. CASE DispatchMessage
  <2>1. Resolve(Head(events).topic) /\ Head(events).topic \in Topic
    BY <1>2, EventAhead, EventFields DEF DispatchMessage, NextIs
  <2> QED
    BY <2>1 DEF RegistryNext
<1>3. CASE HandleRename
  <2>1. /\ Head(events).topic \in Topic /\ Head(events).new \in Topic
        /\ Head(events).topic # Head(events).new
    BY <1>3, EventAhead, EventFields DEF HandleRename, NextIs
  <2>2. Repoint(Head(events).topic, Head(events).new) \/ UNCHANGED registry
    BY <1>3 DEF HandleRename
  <2> QED
    BY <2>1, <2>2 DEF RegistryNext
<1>4. CASE HandleMove
  <2>1. Head(events).topic \in Topic
    BY <1>4, EventAhead, EventFields DEF HandleMove, NextIs
  <2>2. Free(Head(events).topic) \/ UNCHANGED registry
    BY <1>4 DEF HandleMove
  <2> QED
    BY <2>1, <2>2 DEF RegistryNext
<1>5. CASE IgnoreSplit \/ SpawnCheck
  BY <1>5 DEF IgnoreSplit, SpawnCheck
<1>6. ASSUME NEW k \in checks, AskServer(k) \/ ListedAsGone(k) \/ MappingKept(k) \/ ApplyDeletion(k)
      PROVE  [RegistryNext]_registry
  <2>1. k.topic \in Topic
    BY DEF RoutingInv, RoutingTypeOK, CheckRecord
  <2> QED
    BY <1>6, <2>1 DEF AskServer, ListedAsGone, MappingKept, ApplyDeletion, RegistryNext
<1>7. ASSUME NEW t \in Topic, NEW c \in Conversation, ContinueCommand(t, c)
      PROVE  [RegistryNext]_registry
  BY <1>7 DEF ContinueCommand, RegistryNext
<1>8. ASSUME NEW m \in Msg, FinishRun(m) PROVE [RegistryNext]_registry
  BY <1>8 DEF FinishRun
<1>9. CASE UNCHANGED vars
  BY <1>9 DEF vars
<1> QED
  BY <1>1, <1>2, <1>3, <1>4, <1>5, <1>6, <1>7, <1>8, <1>9 DEF Next, PollStep, CheckStep

LEMMA EldestIsOne ==
  ASSUME NEW ths \in SUBSET Thread, ths # {}
  PROVE  Eldest(ths) \in ths
BY RoutingAssumption DEF Eldest

\* An event that the server appends keeps the queue in shape.
LEMMA EmittedEvents ==
  ASSUME RoutingInv, NEW e \in Event, e.kind = "rename" => e.topic # e.new, Emit(e)
  PROVE  events' \in Seq(Event) /\ RenamesMove'
<1>1. events \in Seq(Event) /\ events' = Append(events, e)
  BY DEF RoutingInv, RoutingTypeOK, Emit
<1>2. /\ events' \in Seq(Event) /\ Len(events') = Len(events) + 1 /\ events'[Len(events) + 1] = e
      /\ \A i \in 1 .. Len(events) : events'[i] = events[i]
  BY <1>1, AppendProperties
<1>3. Len(events) \in Nat /\ DOMAIN events = 1 .. Len(events) /\ DOMAIN events' = 1 .. Len(events')
  BY <1>1, <1>2, LenProperties
<1> QED
  BY <1>2, <1>3 DEF RoutingInv, RenamesMove

\* What the server does keeps the types of all it touches.
LEMMA ServerTypes ==
  ASSUME RoutingInv, ServerStep
  PROVE  /\ home' \in [Thread -> Topic \cup {Future, Deleted, Moved}]
         /\ kin' \subseteq SUBSET Thread /\ ops' \in 0 .. MaxOps
         /\ msgOf' \in [Msg -> Thread \cup {NoThread}]
         /\ phase' \in [Msg -> {"unsent", "queued", "running", "done"}]
         /\ events' \in Seq(Event) /\ RenamesMove'
         /\ UNCHANGED <<missed, checks, msgConv>>
<1> DEFINE Goal ==
         /\ home' \in [Thread -> Topic \cup {Future, Deleted, Moved}]
         /\ kin' \subseteq SUBSET Thread /\ ops' \in 0 .. MaxOps
         /\ msgOf' \in [Msg -> Thread \cup {NoThread}]
         /\ phase' \in [Msg -> {"unsent", "queued", "running", "done"}]
         /\ events' \in Seq(Event) /\ RenamesMove'
         /\ UNCHANGED <<missed, checks, msgConv>>
<1> USE DEF RoutingInv, RoutingTypeOK
<1>0. \A t : ThreadsAt(t) \in SUBSET Thread
  BY DEF ThreadsAt
<1>c. ASSUME CountOp PROVE ops' \in 0 .. MaxOps /\ ops \in 0 .. MaxOps
  BY <1>c, RoutingAssumption DEF CountOp
<1>1. ASSUME NEW m \in Msg, NEW t \in Topic, Post(m, t) PROVE Goal
  <2> DEFINE e == [kind |-> "message", topic |-> t, msg |-> m]
  <2>1. e \in Event /\ e.kind # "rename" /\ Emit(e)
    BY <1>1 DEF Event, Post
  <2>2. events' \in Seq(Event) /\ RenamesMove'
    BY <2>1, EmittedEvents
  <2>3. msgOf' \in [Msg -> Thread \cup {NoThread}] /\ home' \in [Thread -> Topic \cup {Future, Deleted, Moved}]
    BY <1>0, <1>1, EldestIsOne DEF Post, Exists
  <2> QED
    BY <1>1, <2>2, <2>3 DEF Post
<1>2. ASSUME NEW old \in Topic, NEW new \in Topic, Rename(old, new) PROVE Goal
  <2> DEFINE e == [kind |-> "rename", topic |-> old, new |-> new]
  <2>1. e \in Event /\ e.topic # e.new /\ Emit(e)
    BY <1>2 DEF Event, Rename
  <2>2. events' \in Seq(Event) /\ RenamesMove'
    BY <2>1, EmittedEvents
  <2>3. kin' \subseteq SUBSET Thread
    BY <1>0, <1>2 DEF Rename
  <2> QED
    BY <1>2, <1>c, <2>2, <2>3 DEF Rename
<1>3. ASSUME NEW old \in Topic, NEW new \in Topic, Split(old, new) PROVE Goal
  <2> DEFINE e == [kind |-> "split", topic |-> old, new |-> new]
  <2>1. e \in Event /\ e.kind # "rename" /\ Emit(e)
    BY <1>3 DEF Event, Split
  <2>2. events' \in Seq(Event) /\ RenamesMove'
    BY <2>1, EmittedEvents
  <2>3. home' \in [Thread -> Topic \cup {Future, Deleted, Moved}]
    BY <1>3 DEF Split
  <2> QED
    BY <1>3, <1>c, <2>2, <2>3 DEF Split
<1>4. ASSUME NEW t \in Topic, NEW all \in BOOLEAN, Delete(t, all) PROVE Goal
  <2> DEFINE e == [kind |-> "delete", topic |-> t, op |-> ops]
  <2>1. e \in Event /\ e.kind # "rename" /\ Emit(e)
    BY <1>4, <1>c DEF Event, Delete
  <2>2. events' \in Seq(Event) /\ RenamesMove'
    BY <2>1, EmittedEvents
  <2>3. home' \in [Thread -> Topic \cup {Future, Deleted, Moved}]
    BY <1>4 DEF Delete
  <2> QED
    BY <1>4, <1>c, <2>2, <2>3 DEF Delete
<1>5. ASSUME NEW t \in Topic, MoveAway(t) PROVE Goal
  <2> DEFINE e == [kind |-> "move", topic |-> t]
  <2>1. e \in Event /\ e.kind # "rename" /\ Emit(e)
    BY <1>5 DEF Event, MoveAway
  <2>2. events' \in Seq(Event) /\ RenamesMove'
    BY <2>1, EmittedEvents
  <2>3. home' \in [Thread -> Topic \cup {Future, Deleted, Moved}]
    BY <1>5 DEF MoveAway
  <2> QED
    BY <1>5, <1>c, <2>2, <2>3 DEF MoveAway
<1> QED
  BY <1>1, <1>2, <1>3, <1>4, <1>5 DEF ServerStep

\* So does what the program does.
LEMMA ProgramTypes ==
  ASSUME RoutingInv, RegistryTypeOK',
         \/ PollStep \/ CheckStep \/ UNCHANGED vars
         \/ \E t \in Topic, c \in Conversation : ContinueCommand(t, c)
         \/ \E m \in Msg : FinishRun(m)
  PROVE  /\ checks' \subseteq CheckRecord /\ missed' \subseteq Thread
         /\ msgConv' \in [Msg -> Conversation \cup {NoConv}]
         /\ phase' \in [Msg -> {"unsent", "queued", "running", "done"}]
         /\ events' \in Seq(Event) /\ RenamesMove'
         /\ UNCHANGED server
<1> DEFINE Goal ==
         /\ checks' \subseteq CheckRecord /\ missed' \subseteq Thread
         /\ msgConv' \in [Msg -> Conversation \cup {NoConv}]
         /\ phase' \in [Msg -> {"unsent", "queued", "running", "done"}]
         /\ events' \in Seq(Event) /\ RenamesMove'
         /\ UNCHANGED server
<1>t. /\ checks \subseteq CheckRecord /\ missed \subseteq Thread
      /\ msgConv \in [Msg -> Conversation \cup {NoConv}]
      /\ phase \in [Msg -> {"unsent", "queued", "running", "done"}]
      /\ events \in Seq(Event) /\ RenamesMove
  BY DEF RoutingInv, RoutingTypeOK
<1>k. ASSUME events' = events PROVE RenamesMove'
  BY <1>t, <1>k DEF RenamesMove
<1>e. ASSUME events # <<>>, events' = Tail(events) PROVE events' \in Seq(Event) /\ RenamesMove'
  BY <1>e, EventAhead
<1>1. CASE DispatchMessage
  <2>1. Head(events).topic \in Topic /\ Head(events).msg \in Msg
    BY <1>1, EventAhead, EventFields DEF DispatchMessage, NextIs
  <2>2. live'[Head(events).topic] \in Conversation \cup {NoConv}
    BY <2>1 DEF RegistryTypeOK
  <2> QED
    BY <1>1, <1>t, <1>e, <2>1, <2>2 DEF DispatchMessage, NextIs
<1>2. CASE HandleRename
  BY <1>2, <1>t, <1>e DEF HandleRename, NextIs
<1>3. CASE HandleMove
  BY <1>3, <1>t, <1>e DEF HandleMove, NextIs
<1>4. CASE IgnoreSplit
  BY <1>4, <1>t, <1>e DEF IgnoreSplit, NextIs
<1>5. CASE SpawnCheck
  <2>1. Head(events).topic \in Topic /\ Head(events).op \in 0 .. MaxOps
    BY <1>5, EventAhead, EventFields DEF SpawnCheck, NextIs
  <2>2. checks' \subseteq CheckRecord
    BY <1>5, <1>t, <2>1 DEF SpawnCheck, CheckRecord
  <2> QED
    BY <1>5, <1>t, <1>e, <2>2 DEF SpawnCheck, NextIs
<1>6. ASSUME NEW k \in checks, AskServer(k) \/ ListedAsGone(k) \/ MappingKept(k) \/ ApplyDeletion(k) PROVE Goal
  <2>1. k \in CheckRecord /\ \A at \in {"asked", "gone"} : [k EXCEPT !.at = at] \in CheckRecord
    BY <1>t DEF CheckRecord
  <2>2. checks' \subseteq CheckRecord
    BY <1>6, <1>t, <2>1 DEF AskServer, ListedAsGone, MappingKept, ApplyDeletion, Advance
  <2>3. missed' \subseteq Thread
    BY <1>6, <1>t DEF AskServer, ListedAsGone, MappingKept, ApplyDeletion, ThreadsAt
  <2>4. events' = events /\ UNCHANGED <<server, msgConv, phase>>
    BY <1>6 DEF AskServer, ListedAsGone, MappingKept, ApplyDeletion
  <2> QED
    BY <1>t, <1>k, <2>2, <2>3, <2>4
<1>7. ASSUME NEW t \in Topic, NEW c \in Conversation, ContinueCommand(t, c) PROVE Goal
  BY <1>7, <1>t, <1>k DEF ContinueCommand
<1>8. ASSUME NEW m \in Msg, FinishRun(m) PROVE Goal
  BY <1>8, <1>t, <1>k DEF FinishRun
<1>9. CASE UNCHANGED vars
  BY <1>9, <1>t, <1>k DEF vars
<1> QED
  BY <1>1, <1>2, <1>3, <1>4, <1>5, <1>6, <1>7, <1>8, <1>9 DEF PollStep, CheckStep

LEMMA RoutingInitially == Init => RoutingInv
<1> SUFFICES ASSUME Init PROVE RoutingInv
  OBVIOUS
<1>1. RegistryInv
  BY RegistryAssumption, RegistryInitially DEF Init
<1>2. RegistryTypeOK
  BY <1>1 DEF RegistryInv
<1>3. events \in Seq(Event) /\ DOMAIN events = {}
  BY DEF Init
<1> QED
  BY <1>1, <1>2, <1>3, RoutingAssumption DEF Init, RoutingInv, RoutingTypeOK, RenamesMove

LEMMA RoutingInductive == RoutingInv /\ [Next]_vars => RoutingInv'
<1> SUFFICES ASSUME RoutingInv, [Next]_vars PROVE RoutingInv'
  OBVIOUS
<1>1. RegistryInv'
  BY RegistryAssumption, RegistryInductive, RegistryStep DEF RoutingInv
<1>2. RegistryTypeOK'
  BY <1>1 DEF RegistryInv
<1>3. CASE ServerStep
  BY <1>1, <1>2, <1>3, ServerTypes DEF RoutingInv, RoutingTypeOK
<1>4. CASE ~ServerStep
  <2>1. \/ PollStep \/ CheckStep \/ UNCHANGED vars
        \/ \E t \in Topic, c \in Conversation : ContinueCommand(t, c)
        \/ \E m \in Msg : FinishRun(m)
    BY <1>4 DEF Next
  <2> QED
    BY <1>1, <1>2, <2>1, ProgramTypes DEF RoutingInv, RoutingTypeOK, server
<1> QED
  BY <1>3, <1>4

\* The channel, the event queue, the checks and the messages keep their types.
THEOREM RoutingTypes == Spec => []RoutingTypeOK
<1>1. RoutingInv => RoutingTypeOK
  BY DEF RoutingInv
<1> QED
  BY <1>1, RoutingInitially, RoutingInductive, PTL DEF Spec

\* However events, checks, late answers and /continue interleave, and even when
\* names are reused during a check, what the program does to the registry is a
\* sequence of its operations.
THEOREM RoutingObeysTheRegistry == Spec => RegistrySpec
<1>1. Init => RegistryInit
  BY DEF Init
<1>2. RoutingInv /\ [Next]_vars => [RegistryNext]_registry
  BY RegistryStep
<1> QED
  BY <1>1, <1>2, RoutingInitially, RoutingInductive, PTL DEF Spec, RegistrySpec

\* So the ownership rules hold of the channel as a whole: a session set follows
\* its topic's full renames, and belongs to no topic after a deletion.
THEOREM RoutingImplementsOwnership == Spec => ImplementsOwnership
BY RoutingObeysTheRegistry, RegistryImplementsOwnership, PTL


-----------------------------------------------------------------------------
(* Topics end to end: what the program knows of the channel lags behind by the  *)
(* events that wait.  A history h says where every thread was when the first i   *)
(* of them had happened: h[0] is the channel as the poll loop has seen it.       *)

Place == Topic \cup {Future, Deleted, Moved}

\* What an event of the queue says of the channel before and after it.
Happens(e, a, b) ==
  /\ e.kind \in {"message", "split"} =>
       \A th \in Thread : b[th] = a[th] \/ (a[th] = Future /\ b[th] \in Topic)
  /\ e.kind = "message" => b[msgOf[e.msg]] = e.topic
  /\ e.kind \in {"rename", "move"} => \E th \in Thread : a[th] = e.topic
  /\ e.kind = "rename" => \A th \in Thread : b[th] = IF a[th] = e.topic THEN e.new ELSE a[th]
  /\ e.kind = "move" => \A th \in Thread : b[th] = IF a[th] = e.topic THEN Moved ELSE a[th]
  /\ e.kind = "delete" =>
       \/ \A th \in Thread : b[th] = a[th]
       \/ \A th \in Thread : b[th] = IF a[th] = e.topic THEN Deleted ELSE a[th]

History(h) == h[Len(events)] = home /\ \A i \in DOMAIN events : Happens(events[i], h[i - 1], h[i])

\* A thread that was deleted or moved away stays so.
EndsAreFinal(h) ==
  \A i \in 0 .. Len(events), th \in Thread : h[i][th] \in {Deleted, Moved} => home[th] = h[i][th]

\* Threads under one name are kin.
NamesakesAreKin(h) ==
  \A i \in 0 .. Len(events), a, b \in Thread : h[i][a] = h[i][b] /\ h[i][a] \in Topic => a = b \/ {a, b} \in kin

\* From event i on, nothing arrives under the name t, and what leaves it is deleted.
Frozen(h, i, t) ==
  \A a, b \in i .. Len(events), th \in Thread : a <= b =>
    /\ h[b][th] = t => h[a][th] = t
    /\ h[a][th] = t => h[b][th] \in {t, Deleted}

CheckedNamesAreFrozen(h) ==
  /\ \A k \in checks : Frozen(h, 0, k.topic)
  /\ \A i \in DOMAIN events : events[i].kind = "delete" => Frozen(h, i, events[i].topic)

GoneIsGone == \A k \in checks : k.at = "gone" => ~Exists(k.topic)

\* Messages that were posted have a thread, those that were answered a conversation.
MessagesAreKnown ==
  /\ \A m \in Msg : Dispatched(m) => phase[m] # "unsent" /\ origin[msgConv[m]] # NoTopic
  /\ \A m \in Msg : phase[m] # "unsent" => msgOf[m] \in Thread
  /\ \A i \in DOMAIN events : events[i].kind = "message" => phase[events[i].msg] # "unsent"

Nobodys(c) == \A t \in Topic : c \notin SessionSet(t)

\* The conversation of an answered message, by where its thread was last seen: in
\* the session set of that name; or in none, when the check of an earlier deletion
\* has found that the name is gone.  A deleted thread's is in none, or it was
\* missed, or the check that will see to it is on its way.
Held(p, c) == c \in SessionSet(p) /\ live[p] # NoConv

InItsTopic(h, m) == h[0][msgOf[m]] \in Topic /\ Held(h[0][msgOf[m]], msgConv[m])

GoneAhead(h, m) ==
  /\ h[0][msgOf[m]] \in Topic /\ Nobodys(msgConv[m]) /\ home[msgOf[m]] = Deleted
  /\ \A i \in 0 .. Len(events) : h[i][msgOf[m]] \in {h[0][msgOf[m]], Deleted}

Awaits(h, c, k) == Held(k.topic, c) /\ \A th \in Thread : h[0][th] # k.topic

Erased(h, m) ==
  /\ h[0][msgOf[m]] = Deleted
  /\ Nobodys(msgConv[m]) \/ msgOf[m] \in missed \/ \E k \in checks : Awaits(h, msgConv[m], k)

Placed(h, m) == InItsTopic(h, m) \/ GoneAhead(h, m) \/ Erased(h, m) \/ h[0][msgOf[m]] = Moved

EveryMessageIsPlaced(h) == \A m \in Msg : Dispatched(m) => Placed(h, m)

Explains(h) ==
  /\ History(h) /\ EndsAreFinal(h) /\ NamesakesAreKin(h) /\ CheckedNamesAreFrozen(h) /\ EveryMessageIsPlaced(h)

ChannelInv ==
  /\ RoutingInv /\ GoneIsGone /\ MessagesAreKnown /\ NoLeakAcrossTopics
  /\ \E h \in [0 .. Len(events) -> [Thread -> Place]] : Explains(h)

-----------------------------------------------------------------------------
(* What the operations of the registry do to a session set, seen from one name   *)
(* and one conversation.                                                         *)

LEMMA ResolveSets ==
  ASSUME RegistryInv, NEW t \in Topic, Resolve(t), NEW u \in Topic, NEW c \in Conversation
  PROVE  /\ live'[t] \in Conversation /\ live'[t] \in SessionSet(t)' /\ origin'[live'[t]] # NoTopic
         /\ live[t] # NoConv => live'[t] = live[t]
         /\ live[t] = NoConv => origin[live'[t]] = NoTopic
         /\ Held(u, c) => Held(u, c)'
         /\ origin[c] # NoTopic => origin'[c] # NoTopic /\ (c \in SessionSet(u)' => c \in SessionSet(u))
<1> USE RegistryAssumption DEF RegistryInv, RegistryTypeOK, SessionSet, Held, RecordsAreMinted, IsLive
<1>1. CASE live[t] # NoConv /\ UNCHANGED registry
  BY <1>1 DEF registry
<1>2. ASSUME NEW n \in Fresh, live[t] = NoConv, live' = [live EXCEPT ![t] = n],
             origin' = [origin EXCEPT ![n] = t], UNCHANGED <<member, lastTopic, strays>>
      PROVE  /\ live'[t] \in Conversation /\ live'[t] \in SessionSet(t)' /\ origin'[live'[t]] # NoTopic
             /\ live[t] # NoConv => live'[t] = live[t]
             /\ live[t] = NoConv => origin[live'[t]] = NoTopic
             /\ Held(u, c) => Held(u, c)'
             /\ origin[c] # NoTopic => origin'[c] # NoTopic /\ (c \in SessionSet(u)' => c \in SessionSet(u))
  BY <1>2 DEF Fresh
<1>3. QED BY <1>1, <1>2 DEF Resolve

LEMMA RepointSets ==
  ASSUME RegistryInv, NEW old \in Topic, NEW new \in Topic, old # new, Repoint(old, new),
         NEW u \in Topic, NEW c \in Conversation
  PROVE  /\ Held(old, c) \/ Held(new, c) => Held(new, c)'
         /\ u \notin {old, new} /\ Held(u, c) => Held(u, c)'
         /\ c \in SessionSet(u)' => \E v \in Topic : c \in SessionSet(v)
         /\ UNCHANGED origin
<1> USE RegistryAssumption DEF RegistryInv, RegistryTypeOK, SessionSet, Held, IsLive, OneTopicPerConversation,
                               HeldSessionsAreNotTaken
<1>1. /\ live[old] \in Conversation
      /\ live' = [live EXCEPT ![old] = NoConv, ![new] = live[old]]
      /\ member' = [x \in Conversation |->
              IF x = live[old] THEN NoTopic ELSE IF x = live[new] \/ member[x] = old THEN new ELSE member[x]]
      /\ UNCHANGED origin
  BY DEF Repoint
<1>2. live'[new] = live[old] /\ live'[old] = NoConv /\ \A v \in Topic \ {old, new} : live'[v] = live[v]
  BY <1>1
<1>3. QED BY <1>1, <1>2

LEMMA ContinueSets ==
  ASSUME RegistryInv, NEW t \in Topic, NEW x \in Conversation, Continue(t, x), NEW u \in Topic, NEW c \in Conversation
  PROVE  /\ Held(u, c) => Held(u, c)'
         /\ c \in SessionSet(u)' => c \in SessionSet(u)
         /\ UNCHANGED origin
BY RegistryAssumption, ContinueIsFromOwnSet
DEF RegistryInv, RegistryTypeOK, SessionSet, Held, IsLive, OneTopicPerConversation, HeldSessionsAreNotTaken

LEMMA OrphanSets ==
  ASSUME RegistryInv, NEW t \in Topic, OrphanTopicSessions(t), NEW u \in Topic, NEW c \in Conversation
  PROVE  /\ u # t /\ Held(u, c) => Held(u, c)'
         /\ c \in SessionSet(u)' => u # t /\ c \in SessionSet(u)
         /\ c \in SessionSet(t) => c \notin SessionSet(u)'
         /\ UNCHANGED origin
BY RegistryAssumption
DEF OrphanTopicSessions, SessionsForTopic, RegistryInv, RegistryTypeOK, SessionSet, Held, IsLive,
    OneTopicPerConversation, HeldSessionsAreNotTaken

LEMMA FreeSets ==
  ASSUME RegistryInv, NEW t \in Topic, Free(t), NEW u \in Topic, NEW c \in Conversation
  PROVE  /\ u # t /\ Held(u, c) => Held(u, c)'
         /\ c \in SessionSet(u)' => c \in SessionSet(u)
         /\ UNCHANGED origin
BY RegistryAssumption
DEF Free, RegistryInv, RegistryTypeOK, SessionSet, Held, IsLive, OneTopicPerConversation, HeldSessionsAreNotTaken

\* A conversation is in the session set of at most one name.
LEMMA OneOwner ==
  ASSUME RegistryInv, NEW t \in Topic, NEW u \in Topic, NEW c \in Conversation,
         c \in SessionSet(t), c \in SessionSet(u)
  PROVE  t = u
BY RegistryAssumption
DEF RegistryInv, RegistryTypeOK, SessionSet, IsLive, OneTopicPerConversation, HeldSessionsAreNotTaken

\* Once it is in no session set, a conversation stays out of them.
LEMMA NobodysStay ==
  ASSUME RegistryInv, [RegistryNext]_registry, NEW c \in Conversation, origin[c] # NoTopic, Nobodys(c)
  PROVE  Nobodys(c)'
<1>1. SUFFICES ASSUME NEW u \in Topic PROVE c \notin SessionSet(u)'
  BY DEF Nobodys
<1>2. \A v \in Topic : c \notin SessionSet(v)
  BY DEF Nobodys
<1>3. CASE UNCHANGED registry
  BY <1>2, <1>3 DEF registry, SessionSet
<1>4. ASSUME NEW t \in Topic, Resolve(t) PROVE c \notin SessionSet(u)'
  BY <1>2, <1>4, ResolveSets
<1>5. ASSUME NEW t \in Topic, OrphanTopicSessions(t) PROVE c \notin SessionSet(u)'
  BY <1>2, <1>5, OrphanSets
<1>6. ASSUME NEW t \in Topic, Free(t) PROVE c \notin SessionSet(u)'
  BY <1>2, <1>6, FreeSets
<1>7. ASSUME NEW old \in Topic, NEW new \in Topic, old # new, Repoint(old, new) PROVE c \notin SessionSet(u)'
  BY <1>2, <1>7, RepointSets
<1>8. ASSUME NEW t \in Topic, NEW x \in Conversation, Continue(t, x) PROVE c \notin SessionSet(u)'
  BY <1>2, <1>8, ContinueSets
<1>9. QED BY <1>3, <1>4, <1>5, <1>6, <1>7, <1>8 DEF RegistryNext

\* The places of messages from one history to the next: what is left to show is
\* where the messages go that are in their topic, or await a check.
LEMMA PlacedKept ==
  ASSUME NEW h, NEW g, NEW m \in Msg, NEW th \in Thread, NEW c \in Conversation,
         th = msgOf[m], c = msgConv[m], msgOf'[m] = th, msgConv'[m] = c,
         Placed(h, m), Nobodys(c) => Nobodys(c)',
         InItsTopic(h, m) => Placed(g, m)',
         \A k \in checks : h[0][th] = Deleted /\ Awaits(h, c, k) => Placed(g, m)',
         home[th] = Deleted => home'[th] = Deleted,
         \A i \in 0 .. Len(events') : g[i][th] = home'[th] \/ \E j \in 0 .. Len(events) : g[i][th] = h[j][th],
         0 \in 0 .. Len(events'),
         h[0][th] \in {Deleted, Moved} => g[0][th] = h[0][th],
         missed \subseteq missed'
  PROVE  Placed(g, m)'
<1>1. CASE InItsTopic(h, m)
  BY <1>1
<1>2. CASE GoneAhead(h, m)
  <2>1. h[0][th] \in Topic /\ Nobodys(c)' /\ home'[th] = Deleted
    BY <1>2 DEF GoneAhead
  <2>2. \A i \in 0 .. Len(events') : g[i][th] \in {h[0][th], Deleted}
    BY <1>2, <2>1 DEF GoneAhead
  <2>3. CASE g[0][th] = Deleted
    BY <2>1, <2>3 DEF Placed, Erased
  <2>4. CASE g[0][th] = h[0][th]
    BY <2>1, <2>2, <2>4 DEF Placed, GoneAhead
  <2>5. QED BY <2>2, <2>3, <2>4
<1>3. CASE Erased(h, m)
  <2>1. h[0][th] = Deleted /\ g[0][th] = Deleted
    BY <1>3 DEF Erased
  <2>2. CASE Nobodys(c)
    BY <2>1, <2>2 DEF Placed, Erased
  <2>3. CASE th \in missed
    BY <2>1, <2>3 DEF Placed, Erased
  <2>4. QED BY <1>3, <2>2, <2>3 DEF Erased
<1>4. CASE h[0][msgOf[m]] = Moved
  BY <1>4 DEF Placed
<1>5. QED BY <1>1, <1>2, <1>3, <1>4 DEF Placed

\* A check that is on its way to a message stays so.
LEMMA AwaitedStill ==
  ASSUME NEW h, NEW g, NEW m \in Msg, NEW th \in Thread, NEW c \in Conversation, NEW k \in checks, NEW k2 \in checks',
         k2.topic = k.topic, msgOf'[m] = th, msgConv'[m] = c,
         g[0][th] = Deleted, Awaits(h, c, k), Held(k.topic, c) => Held(k.topic, c)',
         \A x \in Thread : g[0][x] = k.topic => h[0][x] = k.topic
  PROVE  Placed(g, m)'
<1>1. Held(k2.topic, c)'
  BY DEF Awaits
<1>2. \A x \in Thread : g[0][x] # k2.topic
  BY DEF Awaits
<1>3. Awaits(g, c, k2)'
  BY <1>1, <1>2 DEF Awaits
<1>4. QED BY <1>3 DEF Placed, Erased

-----------------------------------------------------------------------------
(* The server acts: the history grows by an event. *)

LEMMA HappensStill ==
  ASSUME NEW e, NEW a, NEW b, Happens(e, a, b), e.kind = "message" => msgOf'[e.msg] = msgOf[e.msg]
  PROVE  Happens(e, a, b)'
BY DEF Happens

LEMMA HistoryGrows ==
  ASSUME RoutingInv, MessagesAreKnown, NEW h, Explains(h),
         NEW e, events' = Append(events, e), NEW a, a = home, NEW b, b = home', Happens(e, a, b)',
         b \in [Thread -> Place], UNCHANGED <<registry, missed, checks, msgConv>>,
         \A m \in Msg : phase[m] # "unsent" => msgOf'[m] = msgOf[m],
         \A th \in Thread : a[th] \in {Deleted, Moved} => b[th] = a[th],
         kin \subseteq kin', \A x, y \in Thread : b[x] = b[y] /\ b[x] \in Topic => x = y \/ {x, y} \in kin',
         \A t \in Topic : BeingChecked(t) =>
           \A th \in Thread : (b[th] = t => a[th] = t) /\ (a[th] = t => b[th] \in {t, Deleted}),
         h \in [0 .. Len(events) -> [Thread -> Place]]
  PROVE  \E g \in [0 .. Len(events') -> [Thread -> Place]] : Explains(g)'
<1>n. PICK n : n = Len(events)
  OBVIOUS
<1>g. PICK g : g = [i \in 0 .. n + 1 |-> IF i <= n THEN h[i] ELSE b]
  OBVIOUS
<1>1. /\ n \in Nat /\ Len(events') = n + 1 /\ DOMAIN events = 1 .. n /\ DOMAIN events' = 1 .. n + 1
      /\ events'[n + 1] = e /\ \A i \in 1 .. n : events'[i] = events[i] /\ events[i] \in Event
  <2>1. events \in Seq(Event) /\ events' = Append(events, e)
    BY DEF RoutingInv, RoutingTypeOK
  <2>2. QED BY <1>n, <2>1
<1>2. g \in [0 .. n + 1 -> [Thread -> Place]] /\ g[n + 1] = b /\ \A i \in 0 .. n : g[i] = h[i]
  BY <1>n, <1>g, <1>1
<1>3. h[n] = a
  BY <1>n DEF Explains, History
<1>4. History(g)'
  <2>1. ASSUME NEW i \in 1 .. n + 1 PROVE Happens(events[i], g[i - 1], g[i])'
    <3>1. CASE i = n + 1
      <4>1. events'[i] = e /\ g[i - 1] = a /\ g[i] = b
        BY <1>1, <1>2, <1>3, <3>1
      <4>2. QED BY <4>1
    <3>2. CASE i # n + 1
      <4>f. PICK f : f = events[i]
        OBVIOUS
      <4>1. events'[i] = f /\ g[i - 1] = h[i - 1] /\ g[i] = h[i] /\ i \in 1 .. n
        BY <1>1, <1>2, <3>2, <4>f
      <4>2. Happens(f, h[i - 1], h[i])
        BY <1>1, <4>1, <4>f DEF Explains, History
      <4>3. f.kind = "message" => msgOf'[f.msg] = msgOf[f.msg]
        <5>1. f \in Event /\ i \in DOMAIN events
          BY <1>1, <4>1, <4>f
        <5>2. QED BY <4>f, <5>1, EventFields DEF MessagesAreKnown
      <4>4. Happens(f, h[i - 1], h[i])'
        BY <4>2, <4>3, HappensStill
      <4>5. QED BY <4>1, <4>4
    <3>3. QED BY <3>1, <3>2
  <2>2. QED BY <1>1, <1>2, <2>1 DEF History
<1>5. EndsAreFinal(g)'
  BY <1>1, <1>2, <1>3, <1>n DEF EndsAreFinal, Explains
<1>6. NamesakesAreKin(g)'
  <2>1. \A i \in 0 .. n, x, y \in Thread : h[i][x] = h[i][y] /\ h[i][x] \in Topic => x = y \/ {x, y} \in kin
    BY <1>n DEF NamesakesAreKin, Explains
  <2>2. SUFFICES ASSUME NEW i \in 0 .. n + 1, NEW x \in Thread, NEW y \in Thread, g[i][x] = g[i][y], g[i][x] \in Topic
                 PROVE  x = y \/ {x, y} \in kin'
    BY <1>1 DEF NamesakesAreKin
  <2>3. CASE i = n + 1
    BY <1>2, <2>2, <2>3
  <2>4. CASE i # n + 1
    <3>1. i \in 0 .. n /\ g[i] = h[i]
      BY <1>1, <1>2, <2>4
    <3>2. QED BY <2>1, <2>2, <3>1
  <2>5. QED BY <2>3, <2>4
<1>7. CheckedNamesAreFrozen(g)'
  <2>1. ASSUME NEW i \in 0 .. n, NEW t \in Topic, Frozen(h, i, t), BeingChecked(t) PROVE Frozen(g, i, t)'
    <3>1. \A th \in Thread : /\ g[n + 1][th] = t => h[n][th] = t
                             /\ h[n][th] = t => g[n + 1][th] \in {t, Deleted}
                             /\ h[n][th] = Deleted => g[n + 1][th] = Deleted
      <4>1. \A th \in Thread : (b[th] = t => a[th] = t) /\ (a[th] = t => b[th] \in {t, Deleted})
        BY <2>1 DEF BeingChecked
      <4>2. QED BY <1>2, <1>3, <4>1
    <3>2. Len(events) = n /\ Len(events') = n + 1 /\ n \in Nat /\ \A j \in 0 .. n : g[j] = h[j]
      BY <1>1, <1>2, <1>n
    <3>3. SUFFICES ASSUME NEW x \in i .. n + 1, NEW y \in i .. n + 1, NEW th \in Thread, x <= y
                   PROVE  (g[y][th] = t => g[x][th] = t) /\ (g[x][th] = t => g[y][th] \in {t, Deleted})
      BY <3>2 DEF Frozen
    <3>4. \A v, w \in i .. n : v <= w => (h[w][th] = t => h[v][th] = t) /\ (h[v][th] = t => h[w][th] \in {t, Deleted})
      BY <2>1, <3>2 DEF Frozen
    <3>5. CASE y <= n
      <4>1. g[x] = h[x] /\ g[y] = h[y] /\ x \in i .. n /\ y \in i .. n
        BY <3>2, <3>3, <3>5
      <4>2. QED BY <3>3, <3>4, <4>1
    <3>6. CASE y = n + 1 /\ x <= n
      <4>1. x \in i .. n /\ n \in i .. n /\ x <= n /\ g[x] = h[x]
        BY <3>2, <3>6
      <4>2. (h[n][th] = t => h[x][th] = t) /\ (h[x][th] = t => h[n][th] \in {t, Deleted})
        BY <3>4, <4>1
      <4>3. QED BY <3>1, <3>6, <4>1, <4>2
    <3>7. CASE x = n + 1
      BY <3>2, <3>3, <3>7
    <3>8. QED BY <3>2, <3>5, <3>6, <3>7
  <2>2. ASSUME NEW k \in checks' PROVE Frozen(g, 0, k.topic)'
    <3>1. k \in checks /\ Frozen(h, 0, k.topic) /\ k.topic \in Topic
      BY DEF Explains, CheckedNamesAreFrozen, RoutingInv, RoutingTypeOK, CheckRecord
    <3>2. BeingChecked(k.topic)
      BY <3>1 DEF BeingChecked
    <3>3. QED BY <1>1, <2>1, <3>1, <3>2
  <2>3. ASSUME NEW i \in DOMAIN events', NEW t, t = events'[i].topic, events'[i].kind = "delete" PROVE Frozen(g, i, t)'
    <3>1. CASE i = n + 1
      BY <1>1, <3>1 DEF Frozen
    <3>2. CASE i # n + 1
      <4>1. i \in DOMAIN events /\ events[i].kind = "delete" /\ t = events[i].topic /\ i \in 0 .. n
        BY <1>1, <2>3, <3>2
      <4>2. Frozen(h, i, t) /\ BeingChecked(t) /\ t \in Topic
        BY <1>1, <4>1, EventFields DEF Explains, CheckedNamesAreFrozen, BeingChecked
      <4>3. QED BY <2>1, <4>1, <4>2
    <3>3. QED BY <3>1, <3>2
  <2>4. QED BY <2>2, <2>3 DEF CheckedNamesAreFrozen
<1>8. EveryMessageIsPlaced(g)'
  <2> SUFFICES ASSUME NEW m \in Msg, Dispatched(m)' PROVE Placed(g, m)'
    BY DEF EveryMessageIsPlaced
  <2>th. PICK th : th = msgOf[m]
    OBVIOUS
  <2>c. PICK c : c = msgConv[m]
    OBVIOUS
  <2>1. Dispatched(m) /\ Placed(h, m)
    BY DEF Dispatched, Explains, EveryMessageIsPlaced
  <2>2. th \in Thread /\ c \in Conversation /\ msgOf'[m] = th /\ msgConv'[m] = c
    BY <2>1, <2>th, <2>c DEF MessagesAreKnown, Dispatched, RoutingInv, RoutingTypeOK
  <2>3. g[0] = h[0] /\ 0 \in 0 .. Len(events')
    BY <1>1, <1>2
  <2>4. \A u : Held(u, c)' <=> Held(u, c)
    BY DEF Held, SessionSet, registry
  <2>5. Nobodys(c) => Nobodys(c)'
    BY DEF Nobodys, SessionSet, registry
  <2>6. InItsTopic(h, m) => Placed(g, m)'
    BY <2>2, <2>3, <2>4, <2>th, <2>c DEF InItsTopic, Placed
  <2>7. ASSUME NEW k \in checks, h[0][th] = Deleted, Awaits(h, c, k) PROVE Placed(g, m)'
    <3>1. k \in checks' /\ (Held(k.topic, c) => Held(k.topic, c)')
      BY <2>4
    <3>2. QED BY <2>2, <2>3, <2>7, <3>1, AwaitedStill
  <2>8. \A i \in 0 .. Len(events') : g[i][th] = home'[th] \/ \E j \in 0 .. Len(events) : g[i][th] = h[j][th]
    BY <1>1, <1>2, <1>n
  <2>9. home[th] = Deleted => home'[th] = Deleted
    BY <2>2
  <2>10. QED BY <2>1, <2>2, <2>3, <2>5, <2>6, <2>7, <2>8, <2>9, <2>th, <2>c, PlacedKept
<1>9. QED BY <1>1, <1>2, <1>4, <1>5, <1>6, <1>7, <1>8 DEF Explains

LEMMA PlacesDiffer ==
  /\ Future # Deleted /\ Future # Moved /\ Deleted # Moved
  /\ Future \notin Topic /\ Deleted \notin Topic /\ Moved \notin Topic
<1>1. ASSUME NEW x, NEW y, NEW z, Cardinality({x, y, z}) = 3 PROVE x # y
  <2>1. SUFFICES ASSUME x = y PROVE FALSE
    OBVIOUS
  <2>2. {x, y, z} = {z} \cup {x}
    BY <2>1
  <2>3. IsFiniteSet({z}) /\ Cardinality({z}) = 1
    BY FS_Singleton
  <2>4. Cardinality({z} \cup {x}) \in {1, 2}
    BY <2>3, FS_AddElement
  <2>5. QED BY <1>1, <2>2, <2>4
<1>2. {Future, Deleted, Moved} = {Future, Moved, Deleted} /\ {Future, Deleted, Moved} = {Deleted, Moved, Future}
  OBVIOUS
<1>3. Future # Deleted
  BY <1>1, RoutingAssumption
<1>4. Future # Moved
  BY <1>1, <1>2, RoutingAssumption
<1>5. Deleted # Moved
  BY <1>1, <1>2, RoutingAssumption
<1>6. QED BY <1>3, <1>4, <1>5, RoutingAssumption

\* Every step of the server is an event that happens to the channel.
LEMMA ServerIsExplained ==
  ASSUME ~Racing, RoutingInv, MessagesAreKnown, ServerStep,
         NEW h \in [0 .. Len(events) -> [Thread -> Place]], Explains(h)
  PROVE  \E g \in [0 .. Len(events') -> [Thread -> Place]] : Explains(g)'
<1> DEFINE Goal == \E g \in [0 .. Len(events') -> [Thread -> Place]] : Explains(g)'
<1>a. PICK a : a = home
  OBVIOUS
<1>b. PICK b : b = home'
  OBVIOUS
<1>0. /\ a \in [Thread -> Place] /\ b \in [Thread -> Place]
      /\ \A x, y \in Thread : a[x] = a[y] /\ a[x] \in Topic => x = y \/ {x, y} \in kin
      /\ msgOf \in [Msg -> Thread \cup {NoThread}]
  <2>1. a \in [Thread -> Place] /\ msgOf \in [Msg -> Thread \cup {NoThread}] /\ Len(events) \in Nat
    BY <1>a DEF RoutingInv, RoutingTypeOK, Place
  <2>2. b \in [Thread -> Place]
    BY <1>b, ServerTypes DEF Place
  <2>3. \A x, y \in Thread : a[x] = a[y] /\ a[x] \in Topic => x = y \/ {x, y} \in kin
    <3>1. h[Len(events)] = a /\ Len(events) \in 0 .. Len(events)
      BY <1>a, <2>1 DEF Explains, History
    <3>2. QED BY <3>1 DEF Explains, NamesakesAreKin
  <2>4. QED BY <2>1, <2>2, <2>3
<1>1. ASSUME NEW e, Emit(e), Happens(e, a, b)', UNCHANGED <<registry, missed, checks, msgConv>>,
             \A m \in Msg : phase[m] # "unsent" => msgOf'[m] = msgOf[m],
             \A th \in Thread : a[th] \in {Deleted, Moved} => b[th] = a[th],
             kin \subseteq kin', \A x, y \in Thread : b[x] = b[y] /\ b[x] \in Topic => x = y \/ {x, y} \in kin',
             \A t \in Topic : BeingChecked(t) =>
               \A th \in Thread : (b[th] = t => a[th] = t) /\ (a[th] = t => b[th] \in {t, Deleted})
      PROVE  Goal
  <2>1. events' = Append(events, e)
    BY <1>1 DEF Emit
  <2>2. QED BY <1>0, <1>1, <1>a, <1>b, <2>1, HistoryGrows
<1>2. \A t : ThreadsAt(t) = {th \in Thread : a[th] = t}
  BY <1>a DEF ThreadsAt
<1>3. ASSUME NEW t \in Topic, NEW u \in Topic, Quiet(t), BeingChecked(u) PROVE u # t
  BY <1>3 DEF Quiet
<1>4. ASSUME NEW m \in Msg, NEW t \in Topic, Post(m, t) PROVE Goal
  <2>e. PICK e : e = [kind |-> "message", topic |-> t, msg |-> m]
    OBVIOUS
  <2>1. /\ Emit(e) /\ UNCHANGED <<registry, missed, checks, msgConv, kin>>
        /\ e.kind = "message" /\ e.topic = t /\ e.msg = m
        /\ phase[m] = "unsent"
    BY <1>4, <2>e DEF Post
  <2>2. CASE Exists(t) /\ msgOf' = [msgOf EXCEPT ![m] = Eldest(ThreadsAt(t))] /\ home' = home
    <3>1. a = b /\ Eldest(ThreadsAt(t)) \in Thread /\ a[Eldest(ThreadsAt(t))] = t
      BY <1>2, <1>a, <1>b, <2>2, EldestIsOne DEF Exists
    <3>2. msgOf'[m] = Eldest(ThreadsAt(t)) /\ \A x \in Msg : x # m => msgOf'[x] = msgOf[x]
      BY <1>0, <2>2
    <3>3. Happens(e, a, b)'
      BY <2>1, <3>1, <3>2 DEF Happens
    <3>4. QED BY <1>0, <1>1, <2>1, <3>1, <3>2, <3>3
  <2>3. CASE /\ ~Exists(t) /\ Quiet(t) /\ ThreadsAt(Future) # {}
             /\ msgOf' = [msgOf EXCEPT ![m] = Eldest(ThreadsAt(Future))]
             /\ home' = [home EXCEPT ![Eldest(ThreadsAt(Future))] = t]
    <3>y. PICK y : y = Eldest(ThreadsAt(Future))
      OBVIOUS
    <3>1. y \in Thread /\ a[y] = Future
      BY <1>2, <2>3, <3>y, EldestIsOne
    <3>2. msgOf'[m] = y /\ \A x \in Msg : x # m => msgOf'[x] = msgOf[x]
      BY <1>0, <2>3, <3>y
    <3>3. b = [a EXCEPT ![y] = t]
      BY <1>a, <1>b, <2>3, <3>y
    <3>4. b[y] = t /\ \A x \in Thread : x # y => b[x] = a[x]
      BY <1>0, <3>1, <3>3
    <3>5. Happens(e, a, b)'
      BY <2>1, <3>1, <3>2, <3>4 DEF Happens
    <3>6. \A x \in Thread : a[x] # t
      BY <1>2, <2>3 DEF Exists
    <3>7. \A x, z \in Thread : b[x] = b[z] /\ b[x] \in Topic => x = z \/ {x, z} \in kin
      BY <1>0, <3>4, <3>6
    <3>8. \A u \in Topic : BeingChecked(u) =>
            \A th \in Thread : (b[th] = u => a[th] = u) /\ (a[th] = u => b[th] \in {u, Deleted})
      <4> TAKE u \in Topic
      <4>1. BeingChecked(u) => u # t
        BY <1>3, <2>3
      <4>2. QED BY <3>1, <3>4, <4>1, PlacesDiffer
    <3>9. \A th \in Thread : a[th] \in {Deleted, Moved} => b[th] = a[th]
      BY <3>1, <3>4, PlacesDiffer
    <3>10. QED BY <1>1, <2>1, <3>2, <3>5, <3>7, <3>8, <3>9
  <2>4. QED BY <1>4, <2>2, <2>3 DEF Post
<1>5. ASSUME NEW old \in Topic, NEW new \in Topic, Rename(old, new) PROVE Goal
  <2>e. PICK e : e = [kind |-> "rename", topic |-> old, new |-> new]
    OBVIOUS
  <2>1. /\ Emit(e) /\ UNCHANGED <<registry, missed, checks, msgConv, msgOf>>
        /\ e.kind = "rename" /\ e.topic = old /\ e.new = new
        /\ Quiet(old) /\ Quiet(new) /\ \E th \in Thread : a[th] = old
    BY <1>2, <1>5, <2>e DEF Rename, Exists
  <2>2. \A th \in Thread : b[th] = IF a[th] = old THEN new ELSE a[th]
    BY <1>5, <1>a, <1>b DEF Rename
  <2>3. Happens(e, a, b)'
    BY <2>1, <2>2 DEF Happens
  <2>4. kin \subseteq kin' /\ \A x, y \in Thread : a[x] = old /\ a[y] = new => {x, y} \in kin'
    <3>1. kin' = kin \cup {{x, y} : x \in ThreadsAt(old), y \in ThreadsAt(new)}
      BY <1>5 DEF Rename
    <3>2. QED BY <1>2, <3>1
  <2>5. \A x, y \in Thread : b[x] = b[y] /\ b[x] \in Topic => x = y \/ {x, y} \in kin'
    <3> TAKE x, y \in Thread
    <3>1. {x, y} = {y, x}
      OBVIOUS
    <3>2. QED BY <1>0, <2>2, <2>4, <3>1
  <2>6. \A u \in Topic : BeingChecked(u) =>
            \A th \in Thread : (b[th] = u => a[th] = u) /\ (a[th] = u => b[th] \in {u, Deleted})
    <3> TAKE u \in Topic
    <3>1. BeingChecked(u) => u # old /\ u # new
      BY <1>3, <2>1
    <3>2. QED BY <2>2, <3>1
  <2>7. \A th \in Thread : a[th] \in {Deleted, Moved} => b[th] = a[th]
    BY <2>2, PlacesDiffer
  <2>8. QED BY <1>1, <2>1, <2>3, <2>4, <2>5, <2>6, <2>7
<1>6. ASSUME NEW old \in Topic, NEW new \in Topic, Split(old, new) PROVE Goal
  <2>e. PICK e : e = [kind |-> "split", topic |-> old, new |-> new]
    OBVIOUS
  <2>1. /\ Emit(e) /\ UNCHANGED <<registry, missed, checks, msgConv, msgOf, kin>>
        /\ e.kind = "split" /\ e.topic = old /\ e.new = new /\ Quiet(new)
    BY <1>6, <2>e DEF Split
  <2>2. CASE home' = home
    <3>1. a = b
      BY <1>a, <1>b, <2>2
    <3>2. Happens(e, a, b)'
      BY <2>1, <3>1 DEF Happens
    <3>3. QED BY <1>0, <1>1, <2>1, <3>1, <3>2
  <2>3. CASE /\ ~Exists(new) /\ ThreadsAt(Future) # {}
             /\ home' = [home EXCEPT ![Eldest(ThreadsAt(Future))] = new]
    <3>y. PICK y : y = Eldest(ThreadsAt(Future))
      OBVIOUS
    <3>1. y \in Thread /\ a[y] = Future
      BY <1>2, <2>3, <3>y, EldestIsOne
    <3>3. b = [a EXCEPT ![y] = new]
      BY <1>a, <1>b, <2>3, <3>y
    <3>4. b[y] = new /\ \A x \in Thread : x # y => b[x] = a[x]
      BY <1>0, <3>1, <3>3
    <3>5. Happens(e, a, b)'
      BY <2>1, <3>1, <3>4 DEF Happens
    <3>6. \A x \in Thread : a[x] # new
      BY <1>2, <2>3 DEF Exists
    <3>7. \A x, z \in Thread : b[x] = b[z] /\ b[x] \in Topic => x = z \/ {x, z} \in kin
      BY <1>0, <3>4, <3>6
    <3>8. \A u \in Topic : BeingChecked(u) =>
            \A th \in Thread : (b[th] = u => a[th] = u) /\ (a[th] = u => b[th] \in {u, Deleted})
      <4> TAKE u \in Topic
      <4>1. BeingChecked(u) => u # new
        BY <1>3, <2>1
      <4>2. QED BY <3>1, <3>4, <4>1, PlacesDiffer
    <3>9. \A th \in Thread : a[th] \in {Deleted, Moved} => b[th] = a[th]
      BY <3>1, <3>4, PlacesDiffer
    <3>10. QED BY <1>1, <2>1, <3>5, <3>7, <3>8, <3>9
  <2>4. QED BY <1>6, <2>2, <2>3 DEF Split
<1>7. ASSUME NEW t \in Topic, NEW all \in BOOLEAN, Delete(t, all) PROVE Goal
  <2>e. PICK e : e = [kind |-> "delete", topic |-> t, op |-> ops]
    OBVIOUS
  <2>1. /\ Emit(e) /\ UNCHANGED <<registry, missed, checks, msgConv, msgOf, kin>>
        /\ e.kind = "delete" /\ e.topic = t
    BY <1>7, <2>e DEF Delete
  <2>2. \/ \A th \in Thread : b[th] = a[th]
        \/ \A th \in Thread : b[th] = IF a[th] = t THEN Deleted ELSE a[th]
    BY <1>7, <1>a, <1>b DEF Delete
  <2>3. Happens(e, a, b)'
    BY <2>1, <2>2 DEF Happens
  <2>4. \A x, y \in Thread : b[x] = b[y] /\ b[x] \in Topic => x = y \/ {x, y} \in kin
    BY <1>0, <2>2, PlacesDiffer
  <2>5. \A u \in Topic, th \in Thread : (b[th] = u => a[th] = u) /\ (a[th] = u => b[th] \in {u, Deleted})
    BY <2>2, PlacesDiffer
  <2>6. \A th \in Thread : a[th] \in {Deleted, Moved} => b[th] = a[th]
    BY <2>2, PlacesDiffer
  <2>7. QED BY <1>1, <2>1, <2>3, <2>4, <2>5, <2>6
<1>8. ASSUME NEW t \in Topic, MoveAway(t) PROVE Goal
  <2>e. PICK e : e = [kind |-> "move", topic |-> t]
    OBVIOUS
  <2>1. /\ Emit(e) /\ UNCHANGED <<registry, missed, checks, msgConv, msgOf, kin>>
        /\ e.kind = "move" /\ e.topic = t /\ Quiet(t) /\ \E th \in Thread : a[th] = t
    BY <1>2, <1>8, <2>e DEF MoveAway, Exists
  <2>2. \A th \in Thread : b[th] = IF a[th] = t THEN Moved ELSE a[th]
    BY <1>8, <1>a, <1>b DEF MoveAway
  <2>3. Happens(e, a, b)'
    BY <2>1, <2>2 DEF Happens
  <2>4. \A x, y \in Thread : b[x] = b[y] /\ b[x] \in Topic => x = y \/ {x, y} \in kin
    BY <1>0, <2>2, PlacesDiffer
  <2>5. \A u \in Topic : BeingChecked(u) =>
            \A th \in Thread : (b[th] = u => a[th] = u) /\ (a[th] = u => b[th] \in {u, Deleted})
    <3> TAKE u \in Topic
    <3>1. BeingChecked(u) => u # t
      BY <1>3, <2>1
    <3>2. QED BY <2>2, <3>1, PlacesDiffer
  <2>6. \A th \in Thread : a[th] \in {Deleted, Moved} => b[th] = a[th]
    BY <2>2, PlacesDiffer
  <2>7. QED BY <1>1, <2>1, <2>3, <2>4, <2>5, <2>6
<1>9. QED BY <1>4, <1>5, <1>6, <1>7, <1>8 DEF ServerStep

-----------------------------------------------------------------------------
(* The poll loop acts: the history loses its first event. *)

LEMMA EndsAreKept ==
  ASSUME NEW e \in Event, NEW a, NEW b, Happens(e, a, b), NEW th \in Thread, a[th] \in {Deleted, Moved}
  PROVE  b[th] = a[th]
<1>1. e.kind \in {"message", "split", "rename", "delete", "move"} /\ e.topic \in Topic
  BY DEF Event
<1>2. QED BY <1>1, PlacesDiffer DEF Happens

\* The name of a check neither gains a thread nor loses one but by deletion.
LEMMA FrozenNow ==
  ASSUME NEW h, NEW k \in checks, CheckedNamesAreFrozen(h), Len(events) \in Nat \ {0}, NEW th \in Thread
  PROVE  /\ h[1][th] = k.topic => h[0][th] = k.topic
         /\ h[0][th] = k.topic => h[1][th] \in {k.topic, Deleted}
<1>1. Frozen(h, 0, k.topic)
  BY DEF CheckedNamesAreFrozen
<1>2. 0 \in 0 .. Len(events) /\ 1 \in 0 .. Len(events) /\ 0 <= 1
  OBVIOUS
<1>3. QED BY <1>1, <1>2 DEF Frozen

LEMMA HistoryShifts ==
  ASSUME RoutingInv, NEW h \in [0 .. Len(events) -> [Thread -> Place]], Explains(h),
         events # <<>>, events' = Tail(events), UNCHANGED server, NEW more, checks' = checks \cup more,
         \A k \in more : Head(events).kind = "delete" /\ k.topic = Head(events).topic,
         NEW g, g = [i \in 0 .. (Len(events) - 1) |-> h[i + 1]]
  PROVE  /\ g \in [0 .. Len(events') -> [Thread -> Place]] /\ 0 \in 0 .. Len(events')
         /\ History(g)' /\ EndsAreFinal(g)' /\ NamesakesAreKin(g)' /\ CheckedNamesAreFrozen(g)'
         /\ \A i \in 0 .. Len(events') : i + 1 \in 0 .. Len(events) /\ g[i] = h[i + 1]
         /\ Happens(Head(events), h[0], g[0]) /\ Len(events) \in Nat \ {0}
<1>n. PICK n : n = Len(events)
  OBVIOUS
<1>1. /\ n \in Nat \ {0} /\ Len(events') = n - 1 /\ DOMAIN events = 1 .. n /\ DOMAIN events' = 1 .. (n - 1)
      /\ Head(events) = events[1] /\ \A i \in 1 .. (n - 1) : events'[i] = events[i + 1]
  <2>1. events \in Seq(Event)
    BY DEF RoutingInv, RoutingTypeOK
  <2>2. QED BY <1>n, <2>1
<1>2. /\ g \in [0 .. (n - 1) -> [Thread -> Place]] /\ 0 \in 0 .. (n - 1)
      /\ \A i \in 0 .. (n - 1) : i + 1 \in 0 .. n /\ g[i] = h[i + 1]
  BY <1>n, <1>1
<1>3. h[n] = home /\ \A i \in 1 .. n : Happens(events[i], h[i - 1], h[i])
  BY <1>n, <1>1 DEF Explains, History
<1>4. Happens(Head(events), h[0], g[0])
  <2>1. Happens(events[1], h[1 - 1], h[1]) /\ 1 - 1 = 0 /\ g[0] = h[0 + 1] /\ 0 + 1 = 1
    BY <1>1, <1>2, <1>3
  <2>2. QED BY <1>1, <2>1
<1>5. History(g)'
  <2>1. ASSUME NEW i \in 1 .. (n - 1) PROVE Happens(events[i], g[i - 1], g[i])'
    <3>f. PICK f : f = events[i + 1]
      OBVIOUS
    <3>1. events'[i] = f /\ g[i] = h[i + 1] /\ g[i - 1] = h[i] /\ i + 1 \in 1 .. n /\ (i + 1) - 1 = i
      BY <1>1, <1>2, <3>f
    <3>2. Happens(f, h[i], h[i + 1])
      BY <1>3, <3>1, <3>f
    <3>3. Happens(f, h[i], h[i + 1])'
      BY <3>2, HappensStill DEF server
    <3>4. QED BY <3>1, <3>3
  <2>2. g[n - 1] = home'
    BY <1>1, <1>2, <1>3 DEF server
  <2>3. QED BY <1>1, <2>1, <2>2 DEF History
<1>6. EndsAreFinal(g)'
  <2>1. \A i \in 0 .. n, th \in Thread : h[i][th] \in {Deleted, Moved} => home[th] = h[i][th]
    BY <1>n DEF EndsAreFinal, Explains
  <2>2. QED BY <1>1, <1>2, <2>1 DEF EndsAreFinal, server
<1>7. NamesakesAreKin(g)'
  <2>1. \A i \in 0 .. n, x, y \in Thread : h[i][x] = h[i][y] /\ h[i][x] \in Topic => x = y \/ {x, y} \in kin
    BY <1>n DEF NamesakesAreKin, Explains
  <2>2. QED BY <1>1, <1>2, <2>1 DEF NamesakesAreKin, server
<1>8. CheckedNamesAreFrozen(g)'
  <2>1. ASSUME NEW i \in 0 .. (n - 1), NEW j \in {i, i + 1}, NEW t, Frozen(h, j, t) PROVE Frozen(g, i, t)'
    <3>1. SUFFICES ASSUME NEW x \in i .. (n - 1), NEW y \in i .. (n - 1), NEW th \in Thread, x <= y
                   PROVE  (g[y][th] = t => g[x][th] = t) /\ (g[x][th] = t => g[y][th] \in {t, Deleted})
      BY <1>1 DEF Frozen
    <3>2. \A v, w \in j .. n : v <= w => (h[w][th] = t => h[v][th] = t) /\ (h[v][th] = t => h[w][th] \in {t, Deleted})
      BY <1>n, <2>1 DEF Frozen
    <3>3. x + 1 \in j .. n /\ y + 1 \in j .. n /\ x + 1 <= y + 1 /\ g[x] = h[x + 1] /\ g[y] = h[y + 1]
      BY <1>1, <1>2, <3>1
    <3>4. QED BY <3>2, <3>3
  <2>2. ASSUME NEW k \in checks' PROVE Frozen(g, 0, k.topic)'
    <3>1. CASE k \in checks
      <4>1. Frozen(h, 0, k.topic) /\ 0 \in {0, 0 + 1}
        BY <3>1 DEF Explains, CheckedNamesAreFrozen
      <4>2. QED BY <1>2, <2>1, <4>1
    <3>2. CASE k \in more
      <4>1. events[1].kind = "delete" /\ k.topic = events[1].topic /\ 1 \in DOMAIN events
        BY <1>1, <3>2
      <4>2. Frozen(h, 1, k.topic) /\ 1 \in {0, 0 + 1}
        BY <4>1 DEF Explains, CheckedNamesAreFrozen
      <4>3. QED BY <1>2, <2>1, <4>2
    <3>3. QED BY <3>1, <3>2
  <2>3. ASSUME NEW i \in DOMAIN events', NEW t, t = events'[i].topic, events'[i].kind = "delete" PROVE Frozen(g, i, t)'
    <3>1. i + 1 \in DOMAIN events /\ events[i + 1].kind = "delete" /\ t = events[i + 1].topic /\ i \in 0 .. (n - 1)
      BY <1>1, <2>3
    <3>2. Frozen(h, i + 1, t) /\ i + 1 \in {i, i + 1}
      BY <3>1 DEF Explains, CheckedNamesAreFrozen
    <3>3. QED BY <2>1, <3>1, <3>2
  <2>4. QED BY <2>2, <2>3 DEF CheckedNamesAreFrozen
<1>9. QED BY <1>1, <1>2, <1>4, <1>5, <1>6, <1>7, <1>8, <1>n

\* A message already answered keeps its place as an event is polled, if it does
\* so from its topic's session set and from the set of a name being checked.
LEMMA PollKeepsPlaces ==
  ASSUME RoutingInv, MessagesAreKnown, NEW h \in [0 .. Len(events) -> [Thread -> Place]], Explains(h),
         events # <<>>, events' = Tail(events), UNCHANGED server, missed' = missed, [RegistryNext]_registry,
         NEW more, checks' = checks \cup more,
         \A k \in more : Head(events).kind = "delete" /\ k.topic = Head(events).topic,
         NEW g, g = [i \in 0 .. (Len(events) - 1) |-> h[i + 1]],
         NEW m \in Msg, NEW c, c = msgConv[m], Dispatched(m), msgConv'[m] = c,
         InItsTopic(h, m) => Placed(g, m)',
         \A k \in checks : Awaits(h, c, k) => Held(k.topic, c)'
  PROVE  Placed(g, m)'
<1>th. PICK th : th = msgOf[m]
  OBVIOUS
<1>1. /\ th \in Thread /\ c \in Conversation /\ origin[c] # NoTopic /\ msgOf'[m] = th /\ Placed(h, m)
      /\ home' = home
  BY <1>th DEF MessagesAreKnown, Dispatched, RoutingInv, RoutingTypeOK, Explains, EveryMessageIsPlaced, server
<1>2. /\ 0 \in 0 .. Len(events') /\ Happens(Head(events), h[0], g[0]) /\ Len(events) \in Nat \ {0}
      /\ \A i \in 0 .. Len(events') : i + 1 \in 0 .. Len(events) /\ g[i] = h[i + 1]
  BY HistoryShifts
<1>3. Nobodys(c) => Nobodys(c)'
  BY <1>1, NobodysStay DEF RoutingInv
<1>4. h[0][th] \in {Deleted, Moved} => g[0][th] = h[0][th]
  BY <1>1, <1>2, EventAhead, EndsAreKept
<1>5. ASSUME NEW k \in checks, h[0][th] = Deleted, Awaits(h, c, k) PROVE Placed(g, m)'
  <2>1. g[0] = h[1]
    <3>1. g[0] = h[0 + 1] /\ 0 + 1 = 1
      BY <1>2
    <3>2. QED BY <3>1
  <2>2. \A x \in Thread : g[0][x] = k.topic => h[0][x] = k.topic
    <3>1. CheckedNamesAreFrozen(h)
      BY DEF Explains
    <3>2. \A x \in Thread : h[1][x] = k.topic => h[0][x] = k.topic
      BY <1>2, <3>1, FrozenNow
    <3>3. QED BY <2>1, <3>2
  <2>3. k \in checks' /\ g[0][th] = Deleted /\ (Held(k.topic, c) => Held(k.topic, c)')
    BY <1>4, <1>5
  <2>4. Awaits(g, c, k)'
    <3>1. Held(k.topic, c)'
      BY <1>5
    <3>2. \A x \in Thread : g[0][x] # k.topic
      BY <1>5, <2>2 DEF Awaits
    <3>3. QED BY <3>1, <3>2 DEF Awaits
  <2>5. QED BY <1>1, <2>3, <2>4 DEF Placed, Erased
<1>6. \A i \in 0 .. Len(events') : g[i][th] = home'[th] \/ \E j \in 0 .. Len(events) : g[i][th] = h[j][th]
  BY <1>2
<1>7. QED BY <1>1, <1>2, <1>3, <1>4, <1>5, <1>6, <1>th, PlacedKept

\* Every event the poll loop applies leaves the messages explained.
LEMMA PollIsExplained ==
  ASSUME RoutingInv, MessagesAreKnown, PollStep, RoutingInv',
         NEW h \in [0 .. Len(events) -> [Thread -> Place]], Explains(h),
         NEW g, g = [i \in 0 .. (Len(events) - 1) |-> h[i + 1]]
  PROVE  /\ Explains(g)' /\ g \in [0 .. Len(events') -> [Thread -> Place]]
         /\ \A m \in Msg : msgConv'[m] = msgConv[m] \/ InItsTopic(g, m)'
<1>e. PICK e : e = Head(events)
  OBVIOUS
<1>p. PICK p : p = h[0]
  OBVIOUS
<1>q. PICK q : q = g[0]
  OBVIOUS
<1>0. /\ events # <<>> /\ events' = Tail(events) /\ UNCHANGED server /\ missed' = missed /\ [RegistryNext]_registry
      /\ e.kind # "message" => msgConv' = msgConv
      /\ e.kind # "delete" => checks' = checks
  <2>1. [RegistryNext]_registry
    BY RegistryStep DEF Next
  <2>2. QED
    BY <1>e, <2>1 DEF PollStep, DispatchMessage, HandleRename, HandleMove, IgnoreSplit, SpawnCheck, NextIs
<1>1. e \in Event /\ e.topic \in Topic /\ (e.kind = "rename" => e.new \in Topic /\ e.topic # e.new)
      /\ (e.kind = "message" => e.msg \in Msg)
  BY <1>0, <1>e, EventAhead, EventFields
<1>2. /\ msgConv \in [Msg -> Conversation \cup {NoConv}] /\ msgOf \in [Msg -> Thread \cup {NoThread}]
      /\ checks \subseteq CheckRecord /\ msgConv' \in [Msg -> Conversation \cup {NoConv}] /\ msgOf' = msgOf
      /\ \A k \in checks : k.topic \in Topic
  BY <1>0 DEF RoutingInv, RoutingTypeOK, server, CheckRecord
<1>more. PICK more : more = checks' \ checks
  OBVIOUS
<1>3. checks' = checks \cup more /\ \A k \in more : e.kind = "delete" /\ k.topic = e.topic
  BY <1>e, <1>more, <1>0 DEF PollStep, DispatchMessage, HandleRename, HandleMove, IgnoreSplit, SpawnCheck, NextIs
<1>4. /\ g \in [0 .. Len(events') -> [Thread -> Place]] /\ 0 \in 0 .. Len(events')
      /\ History(g)' /\ EndsAreFinal(g)' /\ NamesakesAreKin(g)' /\ CheckedNamesAreFrozen(g)'
      /\ Happens(e, p, q) /\ Len(events) \in Nat \ {0}
  BY <1>0, <1>3, <1>e, <1>p, <1>q, HistoryShifts
<1>5. \A k \in checks, x \in Thread : q[x] = k.topic => p[x] = k.topic
  <2>1. \A i \in 0 .. Len(events') : g[i] = h[i + 1]
    BY <1>0, <1>3, <1>e, HistoryShifts
  <2>2. q = h[1]
    BY <1>4, <1>q, <2>1
  <2>3. QED BY <1>4, <1>p, <2>2, FrozenNow DEF Explains
<1>6. ASSUME NEW m \in Msg, NEW c, c = msgConv[m], Dispatched(m), msgConv'[m] = c,
             InItsTopic(h, m) => Placed(g, m)', \A k \in checks : Awaits(h, c, k) => Held(k.topic, c)'
      PROVE  Placed(g, m)'
  BY <1>0, <1>3, <1>6, <1>e, PollKeepsPlaces
<1>7. ASSUME NEW m \in Msg, Dispatched(m), NEW c, c = msgConv[m], NEW th, th = msgOf[m]
      PROVE  /\ c \in Conversation /\ th \in Thread /\ msgOf'[m] = th
             /\ InItsTopic(h, m) <=> p[th] \in Topic /\ Held(p[th], c)
             /\ msgConv'[m] = c => (InItsTopic(g, m)' <=> q[th] \in Topic /\ Held(q[th], c)')
             /\ \A k : Awaits(h, c, k) <=> Held(k.topic, c) /\ \A x \in Thread : p[x] # k.topic
  <2>1. c \in Conversation /\ th \in Thread /\ msgOf'[m] = th
    BY <1>2, <1>7 DEF MessagesAreKnown, Dispatched
  <2>2. msgConv'[m] = c => (InItsTopic(g, m)' <=> q[th] \in Topic /\ Held(q[th], c)')
    BY <1>q, <2>1 DEF InItsTopic
  <2>3. QED BY <1>7, <1>p, <2>1, <2>2 DEF InItsTopic, Awaits
<1>a. ASSUME DispatchMessage PROVE InItsTopic(g, e.msg)'
  <2>1. /\ e.kind = "message" /\ Resolve(e.topic)
        /\ msgConv' = [msgConv EXCEPT ![e.msg] = live'[e.topic]]
    BY <1>e, <1>a DEF DispatchMessage, NextIs
  <2>2. q[msgOf[e.msg]] = e.topic
    BY <1>4, <2>1 DEF Happens
  <2>t. PICK t : t = e.topic
    OBVIOUS
  <2>n. PICK n : n = live'[t]
    OBVIOUS
  <2>z. PICK z \in Conversation : TRUE
    BY <1>1, <2>1 DEF Resolve, Fresh, RoutingInv, RegistryInv, RegistryTypeOK
  <2>3. n \in Conversation /\ n \in SessionSet(t)' /\ n # NoConv
    BY <1>1, <2>1, <2>t, <2>n, <2>z, ResolveSets, RegistryAssumption DEF RoutingInv
  <2>4. Held(t, n)'
    BY <2>3, <2>n DEF Held
  <2>5. msgConv'[e.msg] = n
    BY <1>1, <1>2, <2>1, <2>t, <2>n
  <2>6. QED BY <1>1, <1>2, <1>q, <2>2, <2>4, <2>5, <2>t DEF InItsTopic
<1>8. EveryMessageIsPlaced(g)'
  <2>1. CASE DispatchMessage
    <3>1. /\ e.kind = "message" /\ Resolve(e.topic)
          /\ msgConv' = [msgConv EXCEPT ![e.msg] = live'[e.topic]]
      BY <1>e, <2>1 DEF DispatchMessage, NextIs
    <3>2. \A x \in Thread : q[x] = p[x] \/ (p[x] = Future /\ q[x] \in Topic)
      BY <1>4, <3>1 DEF Happens
    <3>3. q[msgOf[e.msg]] = e.topic
      BY <1>4, <3>1 DEF Happens
    <3>4. SUFFICES ASSUME NEW m \in Msg, Dispatched(m)' PROVE Placed(g, m)'
      BY DEF EveryMessageIsPlaced
    <3>5. CASE m = e.msg
      BY <1>a, <2>1, <3>5 DEF Placed
    <3>6. CASE m # e.msg
      <4>c. PICK c : c = msgConv[m]
        OBVIOUS
      <4>th. PICK th : th = msgOf[m]
        OBVIOUS
      <4>1. msgConv'[m] = c /\ Dispatched(m)
        BY <1>2, <3>1, <3>4, <3>6, <4>c DEF Dispatched
      <4>2. \A u \in Topic : Held(u, c) => Held(u, c)'
        BY <1>1, <1>7, <3>1, <4>1, <4>c, ResolveSets DEF RoutingInv
      <4>3. InItsTopic(h, m) => InItsTopic(g, m)'
        <5>1. /\ th \in Thread
              /\ InItsTopic(h, m) <=> p[th] \in Topic /\ Held(p[th], c)
              /\ InItsTopic(g, m)' <=> q[th] \in Topic /\ Held(q[th], c)'
          BY <1>7, <4>1, <4>c, <4>th
        <5>2. p[th] \in Topic => q[th] = p[th]
          BY <3>2, <5>1, PlacesDiffer
        <5>3. QED BY <4>2, <5>1, <5>2
      <4>4. \A k \in checks : Awaits(h, c, k) => Held(k.topic, c)'
        BY <1>2, <1>7, <4>1, <4>2, <4>c
      <4>5. QED BY <1>6, <4>1, <4>3, <4>4, <4>c DEF Placed
    <3>7. QED BY <3>5, <3>6
  <2>2. CASE HandleRename
    <3>1. e.kind = "rename" /\ (Repoint(e.topic, e.new) \/ (live[e.topic] = NoConv /\ UNCHANGED registry))
      BY <1>e, <2>2 DEF HandleRename, NextIs
    <3>2. \A x \in Thread : q[x] = IF p[x] = e.topic THEN e.new ELSE p[x]
      BY <1>4, <3>1 DEF Happens
    <3>3. \E x \in Thread : p[x] = e.topic
      BY <1>4, <3>1 DEF Happens
    <3>4. SUFFICES ASSUME NEW m \in Msg, Dispatched(m)' PROVE Placed(g, m)'
      BY DEF EveryMessageIsPlaced
    <3>c. PICK c : c = msgConv[m]
      OBVIOUS
    <3>th. PICK th : th = msgOf[m]
      OBVIOUS
    <3>5. msgConv'[m] = c /\ Dispatched(m) /\ c \in Conversation
      BY <1>0, <1>7, <3>1, <3>4, <3>c DEF Dispatched
    <3>6. /\ Held(e.topic, c) \/ Held(e.new, c) => Held(e.new, c)'
          /\ \A u \in Topic \ {e.topic, e.new} : Held(u, c) => Held(u, c)'
      <4>1. CASE Repoint(e.topic, e.new)
        BY <1>1, <3>1, <3>5, <4>1, RepointSets DEF RoutingInv
      <4>2. CASE live[e.topic] = NoConv /\ UNCHANGED registry
        BY <4>2 DEF Held, SessionSet, registry
      <4>3. QED BY <3>1, <4>1, <4>2
    <3>7. InItsTopic(h, m) => InItsTopic(g, m)'
      <4>1. /\ th \in Thread
            /\ InItsTopic(h, m) <=> p[th] \in Topic /\ Held(p[th], c)
            /\ InItsTopic(g, m)' <=> q[th] \in Topic /\ Held(q[th], c)'
        BY <1>7, <3>5, <3>c, <3>th
      <4>2. q[th] = IF p[th] = e.topic THEN e.new ELSE p[th]
        BY <3>2, <4>1
      <4>3. CASE p[th] \in {e.topic, e.new}
        BY <1>1, <3>1, <3>6, <4>1, <4>2, <4>3
      <4>4. CASE p[th] \notin {e.topic, e.new}
        BY <3>6, <4>1, <4>2, <4>4
      <4>5. QED BY <4>3, <4>4
    <3>8. ASSUME NEW k \in checks, Awaits(h, c, k) PROVE Held(k.topic, c)'
      <4>1. k.topic \in Topic /\ Held(k.topic, c) /\ \A x \in Thread : p[x] # k.topic /\ q[x] # k.topic
        BY <1>2, <1>5, <1>7, <3>5, <3>8, <3>c
      <4>2. k.topic # e.topic /\ k.topic # e.new
        BY <3>2, <3>3, <4>1
      <4>3. QED BY <3>6, <4>1, <4>2
    <3>9. QED BY <1>6, <3>5, <3>7, <3>8, <3>c DEF Placed
  <2>3. CASE HandleMove
    <3>1. e.kind = "move" /\ (Free(e.topic) \/ UNCHANGED registry)
      BY <1>e, <2>3 DEF HandleMove, NextIs
    <3>2. \A x \in Thread : q[x] = IF p[x] = e.topic THEN Moved ELSE p[x]
      BY <1>4, <3>1 DEF Happens
    <3>3. \E x \in Thread : p[x] = e.topic
      BY <1>4, <3>1 DEF Happens
    <3>4. SUFFICES ASSUME NEW m \in Msg, Dispatched(m)' PROVE Placed(g, m)'
      BY DEF EveryMessageIsPlaced
    <3>c. PICK c : c = msgConv[m]
      OBVIOUS
    <3>th. PICK th : th = msgOf[m]
      OBVIOUS
    <3>5. msgConv'[m] = c /\ Dispatched(m) /\ c \in Conversation
      BY <1>0, <1>7, <3>1, <3>4, <3>c DEF Dispatched
    <3>6. \A u \in Topic \ {e.topic} : Held(u, c) => Held(u, c)'
      <4>1. CASE Free(e.topic)
        BY <1>1, <3>5, <4>1, FreeSets DEF RoutingInv
      <4>2. CASE UNCHANGED registry
        BY <4>2 DEF Held, SessionSet, registry
      <4>3. QED BY <3>1, <4>1, <4>2
    <3>7. InItsTopic(h, m) => Placed(g, m)'
      <4>1. CASE p[th] = e.topic
        <5>1. q[th] = Moved
          BY <1>7, <3>2, <3>5, <3>c, <3>th, <4>1
        <5>2. QED BY <1>2, <1>q, <3>th, <5>1 DEF Placed
      <4>2. CASE p[th] # e.topic
        <5>1. /\ th \in Thread
              /\ InItsTopic(h, m) <=> p[th] \in Topic /\ Held(p[th], c)
              /\ InItsTopic(g, m)' <=> q[th] \in Topic /\ Held(q[th], c)'
          BY <1>7, <3>5, <3>c, <3>th
        <5>2. q[th] = p[th]
          BY <3>2, <4>2, <5>1
        <5>3. QED BY <3>6, <4>2, <5>1, <5>2 DEF Placed
      <4>3. QED BY <4>1, <4>2
    <3>8. ASSUME NEW k \in checks, Awaits(h, c, k) PROVE Held(k.topic, c)'
      <4>1. k.topic \in Topic /\ Held(k.topic, c) /\ \A x \in Thread : p[x] # k.topic
        BY <1>2, <1>7, <3>5, <3>8, <3>c
      <4>2. QED BY <3>3, <3>6, <4>1
    <3>9. QED BY <1>6, <3>5, <3>7, <3>8, <3>c
  <2>4. CASE IgnoreSplit \/ SpawnCheck
    <3>1. e.kind \in {"split", "delete"} /\ UNCHANGED registry
          /\ (e.kind = "delete" => \E k \in checks' : k.topic = e.topic)
      <4>1. CASE IgnoreSplit
        BY <1>e, <4>1 DEF IgnoreSplit, NextIs
      <4>2. CASE SpawnCheck
        <5>k. PICK k : k = [topic |-> e.topic, op |-> e.op, at |-> "spawned"]
          OBVIOUS
        <5>1. k \in checks' /\ k.topic = e.topic
          BY <1>e, <4>2, <5>k DEF SpawnCheck
        <5>2. e.kind = "delete" /\ UNCHANGED registry
          BY <1>e, <4>2 DEF SpawnCheck, NextIs
        <5>3. QED BY <5>1, <5>2
      <4>3. QED BY <2>4, <4>1, <4>2
    <3>2. \/ \A x \in Thread : q[x] = p[x] \/ p[x] = Future
          \/ /\ e.kind = "delete"
             /\ \A x \in Thread : q[x] = IF p[x] = e.topic THEN Deleted ELSE p[x]
      BY <1>4, <3>1 DEF Happens
    <3>4. SUFFICES ASSUME NEW m \in Msg, Dispatched(m)' PROVE Placed(g, m)'
      BY DEF EveryMessageIsPlaced
    <3>c. PICK c : c = msgConv[m]
      OBVIOUS
    <3>th. PICK th : th = msgOf[m]
      OBVIOUS
    <3>5. msgConv'[m] = c /\ Dispatched(m) /\ c \in Conversation /\ th \in Thread /\ msgOf'[m] = th
      BY <1>0, <1>2, <1>7, <3>1, <3>4, <3>c, <3>th DEF Dispatched
    <3>6. \A u : Held(u, c) => Held(u, c)'
      BY <3>1 DEF Held, SessionSet, registry
    <3>7. ASSUME InItsTopic(h, m) PROVE Placed(g, m)'
      <4>1. p[th] \in Topic /\ Held(p[th], c)
        BY <1>7, <3>5, <3>7, <3>c, <3>th
      <4>2. CASE q[th] = p[th]
        <5>1. InItsTopic(g, m)'
          BY <1>7, <3>5, <3>6, <3>c, <3>th, <4>1, <4>2
        <5>2. QED BY <5>1 DEF Placed
      <4>3. CASE q[th] # p[th]
        <5>1. /\ e.kind = "delete" /\ p[th] = e.topic /\ q[th] = Deleted
              /\ \A x \in Thread : q[x] = IF p[x] = e.topic THEN Deleted ELSE p[x]
          BY <3>2, <3>5, <4>1, <4>3, PlacesDiffer
        <5>2. PICK k \in checks' : k.topic = e.topic
          BY <3>1, <5>1
        <5>3. \A x \in Thread : q[x] # k.topic
          BY <1>1, <5>1, <5>2, PlacesDiffer
        <5>4. Held(k.topic, c)'
          <6>1. Held(k.topic, c)
            BY <4>1, <5>1, <5>2
          <6>2. QED BY <3>6, <6>1
        <5>5. Awaits(g, c, k)'
          BY <1>q, <5>3, <5>4 DEF Awaits
        <5>6. QED BY <1>q, <3>5, <5>1, <5>5 DEF Placed, Erased
      <4>4. QED BY <4>2, <4>3
    <3>8. \A k \in checks : Awaits(h, c, k) => Held(k.topic, c)'
      BY <3>6 DEF Awaits
    <3>9. QED BY <1>6, <3>5, <3>7, <3>8, <3>c
  <2>5. QED BY <2>1, <2>2, <2>3, <2>4 DEF PollStep
<1>9. \A m \in Msg : msgConv'[m] = msgConv[m] \/ InItsTopic(g, m)'
  <2>1. CASE DispatchMessage
    <3>1. msgConv' = [msgConv EXCEPT ![e.msg] = live'[e.topic]]
      BY <1>e, <2>1 DEF DispatchMessage
    <3>2. ASSUME NEW m \in Msg, m # e.msg PROVE msgConv'[m] = msgConv[m]
      BY <1>2, <3>1, <3>2
    <3>3. ASSUME NEW m \in Msg, m = e.msg PROVE InItsTopic(g, m)'
      BY <1>a, <2>1, <3>3
    <3>4. QED BY <3>2, <3>3
  <2>2. CASE HandleRename \/ HandleMove \/ IgnoreSplit \/ SpawnCheck
    BY <2>2 DEF HandleRename, HandleMove, IgnoreSplit, SpawnCheck
  <2>3. QED BY <2>1, <2>2 DEF PollStep
<1>10. QED BY <1>4, <1>8, <1>9 DEF Explains

-----------------------------------------------------------------------------
(* The checks, /continue and the handlers act: the history stays.             *)

LEMMA HistoryStays ==
  ASSUME RoutingInv, MessagesAreKnown, NEW h \in [0 .. Len(events) -> [Thread -> Place]], Explains(h),
         UNCHANGED <<server, events, msgConv>>, missed \subseteq missed', [RegistryNext]_registry,
         \A k \in checks' : \E k0 \in checks : k0.topic = k.topic,
         \A m \in Msg : Dispatched(m) /\ InItsTopic(h, m) => Placed(h, m)',
         \A m \in Msg, k \in checks :
           Dispatched(m) /\ h[0][msgOf[m]] = Deleted /\ Awaits(h, msgConv[m], k) => Placed(h, m)'
  PROVE  Explains(h)' /\ h \in [0 .. Len(events') -> [Thread -> Place]]
<1>1. events' = events /\ home' = home /\ kin' = kin /\ msgOf' = msgOf /\ msgConv' = msgConv
      /\ Len(events) \in Nat
  BY DEF server, RoutingInv, RoutingTypeOK
<1>2. History(h)'
  <2>1. ASSUME NEW i \in DOMAIN events PROVE Happens(events[i], h[i - 1], h[i])'
    <3>e. PICK e : e = events[i]
      OBVIOUS
    <3>1. Happens(e, h[i - 1], h[i])
      BY <3>e DEF Explains, History
    <3>2. Happens(e, h[i - 1], h[i])'
      BY <1>1, <3>1, HappensStill
    <3>3. events'[i] = e
      BY <1>1, <3>e
    <3>4. QED BY <3>2, <3>3
  <2>2. QED BY <1>1, <2>1 DEF Explains, History
<1>3. EndsAreFinal(h)' /\ NamesakesAreKin(h)'
  BY <1>1 DEF Explains, EndsAreFinal, NamesakesAreKin
<1>4. CheckedNamesAreFrozen(h)'
  <2>1. \A i, t : Frozen(h, i, t) => Frozen(h, i, t)'
    BY <1>1 DEF Frozen
  <2>2. ASSUME NEW k \in checks' PROVE Frozen(h, 0, k.topic)'
    <3>1. PICK k0 \in checks : k0.topic = k.topic
      OBVIOUS
    <3>t. PICK t : t = k.topic
      OBVIOUS
    <3>2. Frozen(h, 0, t)
      BY <3>1, <3>t DEF Explains, CheckedNamesAreFrozen
    <3>3. Frozen(h, 0, t)'
      BY <2>1, <3>2
    <3>4. QED BY <3>3, <3>t
  <2>3. ASSUME NEW i \in DOMAIN events', NEW t, t = events'[i].topic, events'[i].kind = "delete" PROVE Frozen(h, i, t)'
    <3>1. Frozen(h, i, t)
      BY <1>1, <2>3 DEF Explains, CheckedNamesAreFrozen
    <3>2. QED BY <2>1, <3>1
  <2>4. QED BY <2>2, <2>3 DEF CheckedNamesAreFrozen
<1>5. EveryMessageIsPlaced(h)'
  <2>1. SUFFICES ASSUME NEW m \in Msg, Dispatched(m)' PROVE Placed(h, m)'
    BY DEF EveryMessageIsPlaced
  <2>th. PICK th : th = msgOf[m]
    OBVIOUS
  <2>c. PICK c : c = msgConv[m]
    OBVIOUS
  <2>2. Dispatched(m) /\ Placed(h, m) /\ th \in Thread /\ c \in Conversation /\ origin[c] # NoTopic
        /\ msgOf'[m] = th /\ msgConv'[m] = c
    BY <1>1, <2>1, <2>th, <2>c
    DEF Dispatched, Explains, EveryMessageIsPlaced, MessagesAreKnown, RoutingInv, RoutingTypeOK
  <2>3. Nobodys(c) => Nobodys(c)'
    BY <2>2, NobodysStay DEF RoutingInv
  <2>4. 0 \in 0 .. Len(events')
    BY <1>1
  <2>5. InItsTopic(h, m) => Placed(h, m)'
    BY <2>2
  <2>6. \A k \in checks : h[0][th] = Deleted /\ Awaits(h, c, k) => Placed(h, m)'
    BY <2>2, <2>th, <2>c
  <2>7. \A i \in 0 .. Len(events') : h[i][th] = home'[th] \/ \E j \in 0 .. Len(events) : h[i][th] = h[j][th]
    BY <1>1
  <2>8. home[th] = Deleted => home'[th] = Deleted
    BY <1>1
  <2>9. QED BY <2>2, <2>3, <2>4, <2>5, <2>6, <2>7, <2>8, <2>th, <2>c, PlacedKept
<1>6. QED BY <1>1, <1>2, <1>3, <1>4, <1>5 DEF Explains

\* What changes neither a session set nor the names being checked.
LEMMA SetsKeepPlaces ==
  ASSUME RoutingInv, MessagesAreKnown, NEW h \in [0 .. Len(events) -> [Thread -> Place]], Explains(h),
         UNCHANGED <<server, msgConv>>, NEW m \in Msg, NEW c, c = msgConv[m], Dispatched(m),
         NEW t, Held(t, c)',
         \/ t \in Topic /\ h[0][msgOf[m]] = t
         \/ /\ h[0][msgOf[m]] = Deleted /\ \A x \in Thread : h[0][x] # t
            /\ \E k \in checks' : k.topic = t
  PROVE  Placed(h, m)'
<1>1. msgOf' = msgOf /\ msgConv' = msgConv
  BY DEF server
<1>2. CASE t \in Topic /\ h[0][msgOf[m]] = t
  <2>1. InItsTopic(h, m)'
    BY <1>1, <1>2 DEF InItsTopic
  <2>2. QED BY <2>1 DEF Placed
<1>3. CASE h[0][msgOf[m]] = Deleted /\ (\A x \in Thread : h[0][x] # t) /\ \E k \in checks' : k.topic = t
  <2>1. PICK k \in checks' : k.topic = t
    BY <1>3
  <2>2. Awaits(h, c, k)'
    BY <1>3, <2>1 DEF Awaits
  <2>3. QED BY <1>1, <1>3, <2>2 DEF Placed, Erased
<1>4. QED BY <1>2, <1>3

\* A check is on the server's side of the history: it applies a deletion that every
\* thread of the name is to meet, or that it has met already.
LEMMA CheckIsExplained ==
  ASSUME RoutingInv, MessagesAreKnown, GoneIsGone,
         \/ CheckStep \/ UNCHANGED vars \/ \E m \in Msg : FinishRun(m)
         \/ \E t \in Topic, c \in Conversation : ContinueCommand(t, c),
         NEW h \in [0 .. Len(events) -> [Thread -> Place]], Explains(h)
  PROVE  Explains(h)' /\ h \in [0 .. Len(events') -> [Thread -> Place]]
<1> DEFINE Goal == Explains(h)' /\ h \in [0 .. Len(events') -> [Thread -> Place]]
<1>0. [RegistryNext]_registry
  BY RegistryStep DEF Next
<1>1. ASSUME UNCHANGED <<server, events, msgConv>>, missed \subseteq missed',
             \A k \in checks' : \E k0 \in checks : k0.topic = k.topic,
             \A m \in Msg : Dispatched(m) /\ InItsTopic(h, m) => Placed(h, m)',
             \A m \in Msg, k \in checks :
               Dispatched(m) /\ h[0][msgOf[m]] = Deleted /\ Awaits(h, msgConv[m], k) => Placed(h, m)'
      PROVE  Goal
  BY <1>0, <1>1, HistoryStays
<1>2. ASSUME UNCHANGED <<server, events, msgConv>>, missed \subseteq missed',
             \A u \in Topic, c \in Conversation : Held(u, c) => Held(u, c)',
             \A k \in checks' : \E k0 \in checks : k0.topic = k.topic,
             \A m \in Msg, k \in checks :
               Dispatched(m) /\ h[0][msgOf[m]] = Deleted /\ Awaits(h, msgConv[m], k) =>
                 Placed(h, m)' \/ \E k2 \in checks' : k2.topic = k.topic
      PROVE  Goal
  <2>1. ASSUME NEW m \in Msg, Dispatched(m), InItsTopic(h, m) PROVE Placed(h, m)'
    <3>c. PICK c : c = msgConv[m]
      OBVIOUS
    <3>t. PICK t : t = h[0][msgOf[m]]
      OBVIOUS
    <3>1. t \in Topic /\ Held(t, c) /\ c \in Conversation
      BY <2>1, <3>c, <3>t DEF InItsTopic, Dispatched, RoutingInv, RoutingTypeOK
    <3>2. Held(t, c)'
      BY <1>2, <3>1
    <3>3. UNCHANGED <<server, msgConv>>
      BY <1>2
    <3>4. QED BY <2>1, <3>1, <3>2, <3>3, <3>c, <3>t, SetsKeepPlaces
  <2>2. ASSUME NEW m \in Msg, NEW k \in checks, Dispatched(m), h[0][msgOf[m]] = Deleted, Awaits(h, msgConv[m], k)
        PROVE  Placed(h, m)'
    <3>1. CASE Placed(h, m)'
      BY <3>1
    <3>2. CASE \E k2 \in checks' : k2.topic = k.topic
      <4>c. PICK c : c = msgConv[m]
        OBVIOUS
      <4>t. PICK t : t = k.topic
        OBVIOUS
      <4>1. t \in Topic /\ Held(t, c) /\ c \in Conversation /\ \A x \in Thread : h[0][x] # t
        BY <2>2, <4>c, <4>t DEF Awaits, Dispatched, RoutingInv, RoutingTypeOK, CheckRecord
      <4>2. Held(t, c)'
        BY <1>2, <4>1
      <4>3. UNCHANGED <<server, msgConv>>
        BY <1>2
      <4>4. \E k2 \in checks' : k2.topic = t
        BY <3>2, <4>t
      <4>5. QED BY <2>2, <4>1, <4>2, <4>3, <4>4, <4>c, <4>t, SetsKeepPlaces
    <3>3. QED BY <1>2, <2>2, <3>1, <3>2
  <2>3. UNCHANGED <<server, events, msgConv>> /\ missed \subseteq missed'
        /\ \A k \in checks' : \E k0 \in checks : k0.topic = k.topic
    BY <1>2
  <2>4. QED BY <1>1, <2>1, <2>2, <2>3
<1>3. ASSUME UNCHANGED registry PROVE \A u \in Topic, c \in Conversation : Held(u, c) => Held(u, c)'
  BY <1>3 DEF Held, SessionSet, registry
<1>4. ASSUME NEW k \in checks, NEW at, Advance(k, at)
      PROVE  /\ \A k1 \in checks' : \E k0 \in checks : k0.topic = k1.topic
             /\ \A k0 \in checks : \E k2 \in checks' : k2.topic = k0.topic
  <2>k. PICK n : n = [k EXCEPT !.at = at]
    OBVIOUS
  <2>1. checks' = (checks \ {k}) \cup {n} /\ n.topic = k.topic
    <3>1. k \in CheckRecord
      BY DEF RoutingInv, RoutingTypeOK
    <3>2. QED BY <1>4, <2>k, <3>1 DEF Advance, CheckRecord
  <2>2. QED BY <2>1
<1>5. ASSUME NEW k \in checks, AskServer(k) PROVE Goal
  <2>1. UNCHANGED <<registry, server, missed, events, msgConv>>
    BY <1>5 DEF AskServer
  <2>2. CASE Advance(k, "asked")
    BY <1>2, <1>3, <1>4, <2>1, <2>2
  <2>3. CASE Lookup(k.topic) = NoConv /\ checks' = checks \ {k}
    <3>1. ASSUME NEW m \in Msg, NEW k0 \in checks, Dispatched(m), h[0][msgOf[m]] = Deleted, Awaits(h, msgConv[m], k0)
          PROVE  \E k2 \in checks' : k2.topic = k0.topic
      <4>1. k0 # k
        BY <2>3, <3>1 DEF Awaits, Held, Lookup
      <4>2. QED BY <2>3, <4>1
    <3>2. QED BY <1>2, <1>3, <2>1, <2>3, <3>1
  <2>4. QED BY <1>5, <2>2, <2>3 DEF AskServer
<1>6. ASSUME NEW k \in checks, ListedAsGone(k) PROVE Goal
  <2>1. UNCHANGED <<registry, server, missed, events, msgConv>> /\ Advance(k, "gone")
    BY <1>6 DEF ListedAsGone
  <2>2. QED BY <1>2, <1>3, <1>4, <2>1
<1>7. ASSUME NEW k \in checks, MappingKept(k) PROVE Goal
  <2>1. /\ UNCHANGED <<registry, server, events, msgConv>> /\ checks' = checks \ {k}
        /\ missed' = IF Exists(k.topic) THEN missed ELSE missed \cup ThreadsAt(Deleted)
    BY <1>7 DEF MappingKept
  <2>2. ASSUME NEW m \in Msg, NEW k0 \in checks, Dispatched(m), h[0][msgOf[m]] = Deleted, Awaits(h, msgConv[m], k0)
        PROVE  Placed(h, m)' \/ \E k2 \in checks' : k2.topic = k0.topic
    <3>1. CASE k0 # k
      BY <2>1, <3>1
    <3>2. CASE k0 = k
      <4>1. 0 \in 0 .. Len(events) /\ Len(events) \in 0 .. Len(events) /\ 0 <= Len(events) /\ h[Len(events)] = home
        BY DEF Explains, History, RoutingInv, RoutingTypeOK
      <4>2. Frozen(h, 0, k.topic)
        BY DEF Explains, CheckedNamesAreFrozen
      <4>3. \A x \in Thread : home[x] # k.topic
        BY <2>2, <3>2, <4>1, <4>2 DEF Frozen, Awaits
      <4>4. msgOf[m] \in Thread /\ home[msgOf[m]] = Deleted
        BY <2>2, <4>1 DEF Explains, EndsAreFinal, MessagesAreKnown
      <4>5. msgOf[m] \in missed'
        BY <2>1, <4>3, <4>4 DEF Exists, ThreadsAt
      <4>6. QED BY <2>1, <2>2, <4>5 DEF Placed, Erased, server
    <3>3. QED BY <3>1, <3>2
  <2>3. missed \subseteq missed' /\ \A k1 \in checks' : \E k0 \in checks : k0.topic = k1.topic
    BY <2>1
  <2>4. QED BY <1>2, <1>3, <2>1, <2>2, <2>3
<1>8. ASSUME NEW k \in checks, ApplyDeletion(k) PROVE Goal
  <2>t. PICK t : t = k.topic
    OBVIOUS
  <2>1. /\ OrphanTopicSessions(t) /\ t \in Topic /\ checks' = checks \ {k}
        /\ UNCHANGED <<server, events, msgConv, missed>>
    BY <1>8, <2>t DEF ApplyDeletion, RoutingInv, RoutingTypeOK, CheckRecord
  <2>2. \A x \in Thread : home[x] # t
    BY <1>8, <2>t DEF ApplyDeletion, GoneIsGone, Exists, ThreadsAt
  <2>3. ASSUME NEW c \in Conversation, Held(t, c) PROVE Nobodys(c)'
    <3>1. c \in SessionSet(t)
      BY <2>3 DEF Held
    <3>2. ASSUME NEW u \in Topic PROVE c \notin SessionSet(u)'
      BY <2>1, <3>1, OrphanSets DEF RoutingInv
    <3>3. QED BY <3>2 DEF Nobodys
  <2>4. \A u \in Topic, c \in Conversation : u # t /\ Held(u, c) => Held(u, c)'
    BY <2>1, OrphanSets DEF RoutingInv
  <2>5. UNCHANGED <<server, msgConv>> /\ msgOf' = msgOf /\ msgConv' = msgConv /\ home' = home /\ events' = events
    BY <2>1 DEF server
  <2>6. ASSUME NEW m \in Msg, Dispatched(m), InItsTopic(h, m) PROVE Placed(h, m)'
    <3>c. PICK c : c = msgConv[m]
      OBVIOUS
    <3>p. PICK p : p = h[0][msgOf[m]]
      OBVIOUS
    <3>1. p \in Topic /\ Held(p, c) /\ c \in Conversation /\ msgOf[m] \in Thread
      BY <2>6, <3>c, <3>p DEF InItsTopic, Dispatched, RoutingInv, RoutingTypeOK, MessagesAreKnown
    <3>2. CASE p # t
      <4>1. Held(p, c)'
        BY <2>4, <3>1, <3>2
      <4>2. QED BY <2>5, <2>6, <3>1, <3>c, <3>p, <4>1, SetsKeepPlaces
    <3>3. CASE p = t
      <4>1. Nobodys(c)'
        BY <2>3, <3>1, <3>3
      <4>2. \A i \in 0 .. Len(events) : h[i][msgOf[m]] \in {p, Deleted}
        <5>1. Frozen(h, 0, t)
          BY <2>t DEF Explains, CheckedNamesAreFrozen
        <5>2. QED BY <3>1, <3>3, <3>p, <5>1 DEF Frozen
      <4>3. home[msgOf[m]] = Deleted
        <5>1. Len(events) \in 0 .. Len(events) /\ h[Len(events)] = home
          BY DEF Explains, History, RoutingInv, RoutingTypeOK
        <5>2. home[msgOf[m]] \in {p, Deleted}
          BY <4>2, <5>1
        <5>3. QED BY <2>2, <3>1, <3>3, <5>2
      <4>4. GoneAhead(h, m)'
        BY <2>5, <3>1, <3>c, <3>p, <4>1, <4>2, <4>3 DEF GoneAhead
      <4>5. QED BY <4>4 DEF Placed
    <3>4. QED BY <3>2, <3>3
  <2>7. ASSUME NEW m \in Msg, NEW k0 \in checks, Dispatched(m), h[0][msgOf[m]] = Deleted, Awaits(h, msgConv[m], k0)
        PROVE  Placed(h, m)'
    <3>c. PICK c : c = msgConv[m]
      OBVIOUS
    <3>u. PICK u : u = k0.topic
      OBVIOUS
    <3>1. u \in Topic /\ Held(u, c) /\ c \in Conversation /\ \A x \in Thread : h[0][x] # u
      BY <2>7, <3>c, <3>u DEF Awaits, Dispatched, RoutingInv, RoutingTypeOK, CheckRecord
    <3>2. CASE u = t
      <4>1. Nobodys(c)'
        BY <2>3, <3>1, <3>2
      <4>2. QED BY <2>5, <2>7, <3>c, <4>1 DEF Placed, Erased
    <3>3. CASE u # t
      <4>1. Held(u, c)' /\ \E k2 \in checks' : k2.topic = u
        BY <2>1, <2>4, <2>t, <3>1, <3>3, <3>u
      <4>2. QED BY <2>5, <2>7, <3>1, <3>c, <4>1, SetsKeepPlaces
    <3>4. QED BY <3>2, <3>3
  <2>8. missed \subseteq missed' /\ (\A k1 \in checks' : \E k0 \in checks : k0.topic = k1.topic)
        /\ UNCHANGED <<server, events, msgConv>>
    BY <2>1
  <2>9. QED BY <1>1, <2>6, <2>7, <2>8
<1>9. ASSUME NEW t \in Topic, NEW x \in Conversation, ContinueCommand(t, x) PROVE Goal
  <2>1. Continue(t, x) /\ UNCHANGED <<server, events, missed, checks, msgConv>>
    BY <1>9 DEF ContinueCommand
  <2>2. \A u \in Topic, c \in Conversation : Held(u, c) => Held(u, c)'
    BY <2>1, ContinueSets DEF RoutingInv
  <2>3. QED BY <1>2, <2>1, <2>2
<1>10. ASSUME UNCHANGED <<registry, server, events, missed, checks, msgConv>> PROVE Goal
  <2>1. \A u \in Topic, c \in Conversation : Held(u, c) => Held(u, c)'
    BY <1>3, <1>10
  <2>2. QED BY <1>2, <1>10, <2>1
<1>11. QED
  BY <1>5, <1>6, <1>7, <1>8, <1>9, <1>10 DEF CheckStep, FinishRun, vars

-----------------------------------------------------------------------------
(* The parts of the invariant beside the history.                             *)

\* While a name is being checked no thread arrives there, so a name that was told
\* to be gone stays so.
LEMMA GoneStaysGone ==
  ASSUME ~Racing, RoutingInv, GoneIsGone, [Next]_vars
  PROVE  GoneIsGone'
<1>1. ASSUME ServerStep PROVE GoneIsGone'
  <2>0. checks' = checks
    BY <1>1, ServerTypes
  <2>1. SUFFICES ASSUME NEW k \in checks, k.at = "gone", NEW t, t = k.topic, NEW x \in Thread, home'[x] = t
                 PROVE  FALSE
    BY <2>0 DEF GoneIsGone, Exists, ThreadsAt
  <2>2. t \in Topic /\ BeingChecked(t) /\ (\A y \in Thread : home[y] # t) /\ home \in [Thread -> Place]
    BY <2>1 DEF GoneIsGone, Exists, ThreadsAt, BeingChecked, RoutingInv, RoutingTypeOK, CheckRecord, Place
  <2>3. \A u \in Topic : Quiet(u) => u # t
    BY <2>2 DEF Quiet
  <2>4. ASSUME NEW m \in Msg, NEW u \in Topic, Post(m, u) PROVE FALSE
    <3>1. home' = home \/ (u # t /\ home' = [home EXCEPT ![Eldest(ThreadsAt(Future))] = u])
      BY <2>3, <2>4 DEF Post
    <3>2. QED BY <2>1, <2>2, <3>1
  <2>5. ASSUME NEW old \in Topic, NEW new \in Topic, Rename(old, new) PROVE FALSE
    BY <2>1, <2>2, <2>3, <2>5 DEF Rename
  <2>6. ASSUME NEW old \in Topic, NEW new \in Topic, Split(old, new) PROVE FALSE
    <3>1. home' = home \/ (new # t /\ home' = [home EXCEPT ![Eldest(ThreadsAt(Future))] = new])
      BY <2>3, <2>6 DEF Split
    <3>2. QED BY <2>1, <2>2, <3>1
  <2>7. ASSUME NEW u \in Topic, NEW all \in BOOLEAN, Delete(u, all) PROVE FALSE
    BY <2>1, <2>2, <2>7, PlacesDiffer DEF Delete
  <2>8. ASSUME NEW u \in Topic, MoveAway(u) PROVE FALSE
    BY <2>1, <2>2, <2>8, PlacesDiffer DEF MoveAway
  <2>9. QED BY <1>1, <2>4, <2>5, <2>6, <2>7, <2>8 DEF ServerStep
<1>2. ASSUME home' = home, \A k \in checks' : k.at = "gone" => k \in checks \/ ~Exists(k.topic) PROVE GoneIsGone'
  BY <1>2 DEF GoneIsGone, Exists, ThreadsAt
<1>3. CASE ~ServerStep
  <2>1. ASSUME PollStep PROVE home' = home /\ \A k \in checks' : k.at = "gone" => k \in checks
    <3>1. home' = home
      BY <2>1 DEF PollStep, DispatchMessage, HandleRename, HandleMove, IgnoreSplit, SpawnCheck, server
    <3>2. CASE SpawnCheck
      <4>n. PICK n : n = [topic |-> Head(events).topic, op |-> Head(events).op, at |-> "spawned"]
        OBVIOUS
      <4>1. checks' = checks \cup {n} /\ n.at # "gone"
        BY <3>2, <4>n DEF SpawnCheck
      <4>2. QED BY <3>1, <4>1
    <3>3. CASE ~SpawnCheck
      BY <2>1, <3>1, <3>3 DEF PollStep, DispatchMessage, HandleRename, HandleMove, IgnoreSplit
    <3>4. QED BY <3>2, <3>3
  <2>2. ASSUME NEW k \in checks, AskServer(k) \/ ListedAsGone(k) \/ MappingKept(k) \/ ApplyDeletion(k)
        PROVE  home' = home /\ \A j \in checks' : j.at = "gone" => j \in checks \/ ~Exists(j.topic)
    <3>1. home' = home
      BY <2>2 DEF AskServer, ListedAsGone, MappingKept, ApplyDeletion, server
    <3>2. ASSUME NEW at, Advance(k, at), at = "asked" \/ ~Exists(k.topic), at \in {"asked", "gone"}
          PROVE  \A j \in checks' : j.at = "gone" => j \in checks \/ ~Exists(j.topic)
      <4>n. PICK n : n = [k EXCEPT !.at = at]
        OBVIOUS
      <4>1. n.topic = k.topic /\ n.at = at /\ checks' = (checks \ {k}) \cup {n}
        <5>1. k \in CheckRecord
          BY DEF RoutingInv, RoutingTypeOK
        <5>2. QED BY <3>2, <4>n, <5>1 DEF Advance, CheckRecord
      <4>2. QED BY <3>2, <4>1
    <3>3. QED BY <2>2, <3>1, <3>2 DEF AskServer, ListedAsGone, MappingKept, ApplyDeletion
  <2>3. CASE \/ UNCHANGED vars \/ \E m \in Msg : FinishRun(m)
             \/ \E t \in Topic, c \in Conversation : ContinueCommand(t, c)
    BY <1>2, <2>3 DEF vars, FinishRun, ContinueCommand, server
  <2>4. QED BY <1>2, <1>3, <2>1, <2>2, <2>3 DEF Next, CheckStep
<1>4. QED BY <1>1, <1>3

\* What was minted, posted, answered or moved away stays so.
LEMMA WhatIsDoneStays ==
  ASSUME RoutingInv, [Next]_vars
  PROVE  /\ \A c \in Conversation : origin[c] # NoTopic => origin'[c] # NoTopic
         /\ \A m \in Msg : phase[m] # "unsent" => phase'[m] # "unsent" /\ msgOf'[m] = msgOf[m]
         /\ \A x \in Thread : home[x] = Moved => home'[x] = Moved
         /\ kin \subseteq kin' /\ missed \subseteq missed'
<1>1. \A c \in Conversation : origin[c] # NoTopic => origin'[c] # NoTopic
  <2>1. [RegistryNext]_registry
    BY RegistryStep
  <2>2. SUFFICES ASSUME NEW c \in Conversation, origin[c] # NoTopic PROVE origin'[c] # NoTopic
    OBVIOUS
  <2>3. ASSUME NEW t \in Topic, Resolve(t) PROVE origin'[c] # NoTopic
    BY <2>2, <2>3, ResolveSets DEF RoutingInv
  <2>4. ASSUME NEW t \in Topic, NEW x \in Conversation, Continue(t, x) PROVE UNCHANGED origin
    BY <2>4, ContinueSets DEF RoutingInv
  <2>5. QED BY <2>1, <2>2, <2>3, <2>4 DEF RegistryNext, OrphanTopicSessions, Free, Repoint, registry
<1>2. home \in [Thread -> Place] /\ msgOf \in [Msg -> Thread \cup {NoThread}]
      /\ phase \in [Msg -> {"unsent", "queued", "running", "done"}]
  BY DEF RoutingInv, RoutingTypeOK, Place
<1>3. CASE ServerStep
  <2>1. missed' = missed
    BY <1>3, ServerTypes
  <2>2. ASSUME NEW m \in Msg, NEW u \in Topic, Post(m, u)
        PROVE  /\ \A x \in Msg : phase[x] # "unsent" => phase'[x] # "unsent" /\ msgOf'[x] = msgOf[x]
               /\ (\A x \in Thread : home[x] = Moved => home'[x] = Moved) /\ kin \subseteq kin'
    <3>1. phase[m] = "unsent" /\ phase' = [phase EXCEPT ![m] = "queued"] /\ kin' = kin
          /\ \E y : msgOf' = [msgOf EXCEPT ![m] = y]
      BY <2>2 DEF Post
    <3>2. \A x \in Thread : home[x] = Moved => home'[x] = Moved
      <4>y. PICK y : y = Eldest(ThreadsAt(Future))
        OBVIOUS
      <4>1. ThreadsAt(Future) # {} => home[y] = Future
        <5>1. ThreadsAt(Future) \in SUBSET Thread
          BY DEF ThreadsAt
        <5>2. ThreadsAt(Future) # {} => y \in ThreadsAt(Future)
          BY <4>y, <5>1, EldestIsOne
        <5>3. QED BY <5>2 DEF ThreadsAt
      <4>2. home' = home \/ (ThreadsAt(Future) # {} /\ home' = [home EXCEPT ![y] = u])
        BY <2>2, <4>y DEF Post
      <4>3. QED BY <1>2, <4>1, <4>2, PlacesDiffer
    <3>3. QED BY <1>2, <3>1, <3>2
  <2>3. ASSUME NEW old \in Topic, NEW new \in Topic, Rename(old, new)
        PROVE  /\ phase' = phase /\ msgOf' = msgOf
               /\ (\A x \in Thread : home[x] = Moved => home'[x] = Moved) /\ kin \subseteq kin'
    BY <2>3, PlacesDiffer DEF Rename
  <2>4. ASSUME NEW old \in Topic, NEW new \in Topic, Split(old, new)
        PROVE  /\ phase' = phase /\ msgOf' = msgOf
               /\ (\A x \in Thread : home[x] = Moved => home'[x] = Moved) /\ kin \subseteq kin'
    <3>y. PICK y : y = Eldest(ThreadsAt(Future))
      OBVIOUS
    <3>1. ThreadsAt(Future) # {} => home[y] = Future
      <4>1. ThreadsAt(Future) \in SUBSET Thread
        BY DEF ThreadsAt
      <4>2. ThreadsAt(Future) # {} => y \in ThreadsAt(Future)
        BY <3>y, <4>1, EldestIsOne
      <4>3. QED BY <4>2 DEF ThreadsAt
    <3>2. home' = home \/ (ThreadsAt(Future) # {} /\ home' = [home EXCEPT ![y] = new])
      BY <2>4, <3>y DEF Split
    <3>3. phase' = phase /\ msgOf' = msgOf /\ kin' = kin
      BY <2>4 DEF Split
    <3>4. QED BY <1>2, <3>1, <3>2, <3>3, PlacesDiffer
  <2>5. ASSUME NEW u \in Topic, NEW all \in BOOLEAN, Delete(u, all) \/ MoveAway(u)
        PROVE  /\ phase' = phase /\ msgOf' = msgOf
               /\ (\A x \in Thread : home[x] = Moved => home'[x] = Moved) /\ kin \subseteq kin'
    BY <2>5, PlacesDiffer DEF Delete, MoveAway
  <2>6. QED BY <1>1, <1>3, <2>1, <2>2, <2>3, <2>4, <2>5 DEF ServerStep
<1>4. CASE ~ServerStep
  <2>1. UNCHANGED server /\ missed \subseteq missed' /\ \A m \in Msg : phase[m] # "unsent" => phase'[m] # "unsent"
    BY <1>2, <1>4
    DEF Next, PollStep, DispatchMessage, HandleRename, HandleMove, IgnoreSplit, SpawnCheck, CheckStep, AskServer,
        ListedAsGone, MappingKept, ApplyDeletion, FinishRun, ContinueCommand, vars
  <2>2. QED BY <1>1, <2>1 DEF server
<1>5. QED BY <1>3, <1>4

LEMMA MessagesStayKnown ==
  ASSUME RoutingInv, MessagesAreKnown, [Next]_vars
  PROVE  MessagesAreKnown'
<1>t. /\ msgConv \in [Msg -> Conversation \cup {NoConv}] /\ msgOf \in [Msg -> Thread \cup {NoThread}]
      /\ phase \in [Msg -> {"unsent", "queued", "running", "done"}] /\ events \in Seq(Event)
  BY DEF RoutingInv, RoutingTypeOK
<1>1. ASSUME UNCHANGED msgConv, \A m \in Msg : phase[m] = "unsent" /\ phase'[m] # "unsent" => msgOf'[m] \in Thread,
             \A i \in DOMAIN events' : events'[i].kind = "message" =>
               \/ \E j \in DOMAIN events : events[j] = events'[i]
               \/ phase'[events'[i].msg] # "unsent"
      PROVE  MessagesAreKnown'
  <2>1. \A m \in Msg : Dispatched(m)' => phase'[m] # "unsent" /\ origin'[msgConv'[m]] # NoTopic
    BY <1>1, <1>t, WhatIsDoneStays DEF MessagesAreKnown, Dispatched
  <2>2. \A m \in Msg : phase'[m] # "unsent" => msgOf'[m] \in Thread
    BY <1>1, WhatIsDoneStays DEF MessagesAreKnown
  <2>3. \A i \in DOMAIN events : events[i].kind = "message" => events[i].msg \in Msg /\ phase[events[i].msg] # "unsent"
    BY <1>t, EventFields DEF MessagesAreKnown
  <2>4. \A i \in DOMAIN events' : events'[i].kind = "message" => phase'[events'[i].msg] # "unsent"
    BY <1>1, <2>3, WhatIsDoneStays
  <2>5. QED BY <2>1, <2>2, <2>4 DEF MessagesAreKnown
<1>2. ASSUME NEW e, Emit(e)
      PROVE  \A i \in DOMAIN events' : (\E j \in DOMAIN events : events[j] = events'[i]) \/ events'[i] = e
  <2>1. events' = Append(events, e)
    BY <1>2 DEF Emit
  <2>2. QED BY <1>t, <2>1
<1>3. ASSUME NEW m \in Msg, NEW u \in Topic, Post(m, u) PROVE MessagesAreKnown'
  <2>e. PICK e : e = [kind |-> "message", topic |-> u, msg |-> m]
    OBVIOUS
  <2>1. Emit(e) /\ e.msg = m /\ phase' = [phase EXCEPT ![m] = "queued"] /\ UNCHANGED msgConv
    BY <1>3, <2>e DEF Post
  <2>2. msgOf'[m] \in Thread
    <3>1. \A p : ThreadsAt(p) \in SUBSET Thread
      BY DEF ThreadsAt
    <3>2. QED BY <1>3, <1>t, <3>1, EldestIsOne DEF Post, Exists
  <2>3. phase'[m] # "unsent" /\ \A x \in Msg : x # m => phase'[x] = phase[x]
    BY <1>t, <2>1
  <2>4. QED BY <1>1, <1>2, <2>1, <2>2, <2>3
<1>4. ASSUME NEW e, Emit(e), e.kind # "message", UNCHANGED <<msgConv, phase>> PROVE MessagesAreKnown'
  BY <1>1, <1>2, <1>4
<1>5. ASSUME NEW old \in Topic, NEW new \in Topic, Rename(old, new) \/ Split(old, new) PROVE MessagesAreKnown'
  <2>1. CASE Rename(old, new)
    <3>e. PICK e : e = [kind |-> "rename", topic |-> old, new |-> new]
      OBVIOUS
    <3>1. QED BY <1>4, <2>1, <3>e DEF Rename
  <2>2. CASE Split(old, new)
    <3>e. PICK e : e = [kind |-> "split", topic |-> old, new |-> new]
      OBVIOUS
    <3>1. QED BY <1>4, <2>2, <3>e DEF Split
  <2>3. QED BY <1>5, <2>1, <2>2
<1>6. ASSUME NEW u \in Topic, NEW all \in BOOLEAN, Delete(u, all) PROVE MessagesAreKnown'
  <2>e. PICK e : e = [kind |-> "delete", topic |-> u, op |-> ops]
    OBVIOUS
  <2>1. QED BY <1>4, <1>6, <2>e DEF Delete
<1>7. ASSUME NEW u \in Topic, MoveAway(u) PROVE MessagesAreKnown'
  <2>e. PICK e : e = [kind |-> "move", topic |-> u]
    OBVIOUS
  <2>1. QED BY <1>4, <1>7, <2>e DEF MoveAway
<1>8. ASSUME events # <<>>, events' = Tail(events)
      PROVE  \A i \in DOMAIN events' : \E j \in DOMAIN events : events[j] = events'[i]
  <2>1. \A i \in DOMAIN Tail(events) : i + 1 \in DOMAIN events /\ Tail(events)[i] = events[i + 1]
    BY <1>8, <1>t
  <2>2. QED BY <1>8, <2>1
<1>9. ASSUME DispatchMessage PROVE MessagesAreKnown'
  <2>m. PICK m : m = Head(events).msg
    OBVIOUS
  <2>u. PICK u : u = Head(events).topic
    OBVIOUS
  <2>1. /\ events # <<>> /\ events' = Tail(events) /\ Resolve(u) /\ UNCHANGED server /\ m \in Msg /\ u \in Topic
        /\ msgConv' = [msgConv EXCEPT ![m] = live'[u]] /\ phase' = [phase EXCEPT ![m] = "running"]
    BY <1>9, <2>m, <2>u, EventAhead, EventFields DEF DispatchMessage, NextIs
  <2>2. \A i \in DOMAIN events : events[i].kind = "message" => events[i].msg \in Msg /\ phase[events[i].msg] # "unsent"
    BY <1>t, EventFields DEF MessagesAreKnown
  <2>3. phase[m] # "unsent"
    <3>1. Head(events) = events[1] /\ 1 \in DOMAIN events
      BY <1>t, <2>1
    <3>2. Head(events).kind = "message"
      BY <1>9 DEF DispatchMessage, NextIs
    <3>3. QED BY <2>2, <2>m, <3>1, <3>2
  <2>4. origin'[live'[u]] # NoTopic
    <3>1. PICK z \in Conversation : TRUE
      BY <2>1 DEF Resolve, Fresh, RoutingInv, RegistryInv, RegistryTypeOK
    <3>2. QED BY <2>1, <3>1, ResolveSets DEF RoutingInv
  <2>5. \A x \in Msg : Dispatched(x)' => phase'[x] # "unsent" /\ origin'[msgConv'[x]] # NoTopic
    BY <1>t, <2>1, <2>4, WhatIsDoneStays DEF MessagesAreKnown, Dispatched
  <2>6. \A x \in Msg : phase'[x] # "unsent" => msgOf'[x] \in Thread
    BY <1>t, <2>1, <2>3, WhatIsDoneStays DEF MessagesAreKnown
  <2>7. \A i \in DOMAIN events' : events'[i].kind = "message" => phase'[events'[i].msg] # "unsent"
    BY <1>8, <2>1, <2>2, WhatIsDoneStays
  <2>8. QED BY <2>5, <2>6, <2>7 DEF MessagesAreKnown
<1>10. ASSUME HandleRename \/ HandleMove \/ IgnoreSplit \/ SpawnCheck PROVE MessagesAreKnown'
  <2>1. events # <<>> /\ events' = Tail(events) /\ UNCHANGED <<msgConv, phase>>
    BY <1>10 DEF HandleRename, HandleMove, IgnoreSplit, SpawnCheck, NextIs
  <2>2. QED BY <1>1, <1>8, <2>1
<1>11. ASSUME UNCHANGED <<events, msgConv>>, \A m \in Msg : phase[m] = "unsent" => phase'[m] = "unsent"
       PROVE  MessagesAreKnown'
  BY <1>1, <1>11
<1>12. ASSUME \/ CheckStep \/ UNCHANGED vars \/ \E m \in Msg : FinishRun(m)
              \/ \E t \in Topic, c \in Conversation : ContinueCommand(t, c)
       PROVE  UNCHANGED <<events, msgConv>> /\ \A m \in Msg : phase[m] = "unsent" => phase'[m] = "unsent"
  BY <1>12, <1>t
  DEF CheckStep, AskServer, ListedAsGone, MappingKept, ApplyDeletion, FinishRun, ContinueCommand, vars
<1>13. QED
  BY <1>3, <1>5, <1>6, <1>7, <1>9, <1>10, <1>11, <1>12 DEF Next, ServerStep, PollStep

\* A message that is in its topic was answered in the same conversation as another
\* one only where NoLeakAcrossTopics allows it.
LEMMA AnswersMeetKin ==
  ASSUME RoutingInv', NEW g, Explains(g)', NEW m \in Msg, NEW n \in Msg, InItsTopic(g, m)', Dispatched(n)',
         msgOf'[m] \in Thread, msgOf'[n] \in Thread, NEW c \in Conversation, c = msgConv'[m], c = msgConv'[n]
  PROVE  \/ msgOf'[m] = msgOf'[n] \/ {msgOf'[m], msgOf'[n]} \in kin'
         \/ home'[msgOf'[n]] = Moved \/ msgOf'[n] \in missed'
<1>x. PICK x : x = msgOf'[m]
  OBVIOUS
<1>y. PICK y : y = msgOf'[n]
  OBVIOUS
<1>p. PICK p : p = g[0]
  OBVIOUS
<1>1. p[x] \in Topic /\ c \in SessionSet(p[x])' /\ x \in Thread /\ y \in Thread
  BY <1>x, <1>y, <1>p DEF InItsTopic, Held
<1>2. ASSUME NEW t \in Topic, c \in SessionSet(t)' PROVE t = p[x]
  <2>u. PICK u : u = p[x]
    OBVIOUS
  <2>1. u \in Topic /\ c \in SessionSet(u)'
    BY <1>1, <2>u
  <2>2. t = u
    BY <1>2, <2>1, RegistryAssumption
    DEF RoutingInv, RegistryInv, RegistryTypeOK, SessionSet, IsLive, OneTopicPerConversation, HeldSessionsAreNotTaken
  <2>3. QED BY <2>2, <2>u
<1>3. 0 \in 0 .. Len(events')
  BY DEF RoutingInv, RoutingTypeOK
<1>4. Placed(g, n)'
  BY DEF Explains, EveryMessageIsPlaced
<1>5. ~Nobodys(c)'
  BY <1>1 DEF Nobodys
<1>6. CASE InItsTopic(g, n)'
  <2>t. PICK t : t = p[y]
    OBVIOUS
  <2>1. t \in Topic /\ c \in SessionSet(t)'
    BY <1>6, <1>y, <1>p, <2>t DEF InItsTopic, Held
  <2>2. p[y] = p[x] /\ p[x] \in Topic
    BY <1>1, <1>2, <2>1, <2>t
  <2>3. x = y \/ {x, y} \in kin'
    BY <1>1, <1>3, <1>p, <2>2 DEF Explains, NamesakesAreKin
  <2>4. QED BY <1>x, <1>y, <2>3
<1>7. CASE GoneAhead(g, n)'
  BY <1>5, <1>7 DEF GoneAhead
<1>8. CASE Erased(g, n)'
  <2>1. ASSUME NEW k \in checks', Awaits(g, c, k)' PROVE FALSE
    <3>t. PICK t : t = k.topic
      OBVIOUS
    <3>1. k \in CheckRecord
      BY DEF RoutingInv, RoutingTypeOK
    <3>2. t \in Topic /\ c \in SessionSet(t)' /\ \A z \in Thread : p[z] # t
      BY <1>p, <2>1, <3>t, <3>1 DEF Awaits, Held, CheckRecord
    <3>3. QED BY <1>1, <1>2, <3>2
  <2>2. QED BY <1>5, <1>8, <2>1 DEF Erased
<1>9. CASE g[0][msgOf'[n]] = Moved
  BY <1>1, <1>3, <1>9, <1>y DEF Explains, EndsAreFinal
<1>10. QED BY <1>4, <1>6, <1>7, <1>8, <1>9 DEF Placed

LEMMA NothingLeaks ==
  ASSUME RoutingInv, RoutingInv', MessagesAreKnown, MessagesAreKnown', NoLeakAcrossTopics, [Next]_vars,
         NEW g, Explains(g)', \A m \in Msg : msgConv'[m] = msgConv[m] \/ InItsTopic(g, m)'
  PROVE  NoLeakAcrossTopics'
<1>1. SUFFICES ASSUME NEW m \in Msg, NEW n \in Msg, NEW c, c = msgConv'[m], c = msgConv'[n], c # NoConv
               PROVE  \/ msgOf'[m] = msgOf'[n] \/ {msgOf'[m], msgOf'[n]} \in kin'
                      \/ Moved \in {home'[msgOf'[m]], home'[msgOf'[n]]}
                      \/ {msgOf'[m], msgOf'[n]} \cap missed' # {}
  BY DEF NoLeakAcrossTopics, HomeOf, Dispatched
<1>2. c \in Conversation /\ msgOf'[m] \in Thread /\ msgOf'[n] \in Thread /\ Dispatched(m)' /\ Dispatched(n)'
  BY <1>1 DEF Dispatched, MessagesAreKnown, RoutingInv, RoutingTypeOK
<1>3. CASE InItsTopic(g, m)'
  BY <1>1, <1>2, <1>3, AnswersMeetKin
<1>4. CASE InItsTopic(g, n)'
  <2>1. {msgOf'[m], msgOf'[n]} = {msgOf'[n], msgOf'[m]}
    OBVIOUS
  <2>2. \/ msgOf'[n] = msgOf'[m] \/ {msgOf'[n], msgOf'[m]} \in kin'
        \/ home'[msgOf'[m]] = Moved \/ msgOf'[m] \in missed'
    BY <1>1, <1>2, <1>4, AnswersMeetKin
  <2>3. QED BY <2>1, <2>2
<1>5. CASE msgConv'[m] = msgConv[m] /\ msgConv'[n] = msgConv[n]
  <2>1. Dispatched(m) /\ Dispatched(n) /\ msgConv[m] = msgConv[n]
    BY <1>1, <1>5 DEF Dispatched
  <2>2. msgOf'[m] = msgOf[m] /\ msgOf'[n] = msgOf[n] /\ msgOf[m] \in Thread /\ msgOf[n] \in Thread
    BY <2>1, WhatIsDoneStays DEF MessagesAreKnown
  <2>3. \/ msgOf[m] = msgOf[n] \/ {msgOf[m], msgOf[n]} \in kin
        \/ Moved \in {home[msgOf[m]], home[msgOf[n]]}
        \/ {msgOf[m], msgOf[n]} \cap missed # {}
    BY <2>1 DEF NoLeakAcrossTopics, HomeOf
  <2>4. QED BY <2>2, <2>3, WhatIsDoneStays
<1>6. QED BY <1>3, <1>4, <1>5

LEMMA ChannelInitially == Init => ChannelInv
<1>1. SUFFICES ASSUME Init PROVE ChannelInv
  OBVIOUS
<1>2. RoutingInv
  BY <1>1, RoutingInitially
<1>3. events = <<>> /\ checks = {} /\ Len(events) = 0 /\ DOMAIN events = {} /\ home = [th \in Thread |-> Future]
      /\ \A m \in Msg : ~Dispatched(m) /\ phase[m] = "unsent"
  BY <1>1 DEF Init, Dispatched
<1>4. GoneIsGone /\ MessagesAreKnown /\ NoLeakAcrossTopics
  BY <1>3 DEF GoneIsGone, MessagesAreKnown, NoLeakAcrossTopics
<1>h. PICK h : h = [i \in 0 .. Len(events) |-> home]
  OBVIOUS
<1>5. h \in [0 .. Len(events) -> [Thread -> Place]] /\ \A i \in 0 .. Len(events) : h[i] = home
  BY <1>h, <1>3 DEF Place
<1>6. History(h) /\ EndsAreFinal(h) /\ CheckedNamesAreFrozen(h) /\ EveryMessageIsPlaced(h)
  BY <1>3, <1>5 DEF History, EndsAreFinal, CheckedNamesAreFrozen, EveryMessageIsPlaced
<1>7. NamesakesAreKin(h)
  BY <1>3, <1>5, PlacesDiffer DEF NamesakesAreKin
<1>8. QED BY <1>2, <1>4, <1>5, <1>6, <1>7 DEF ChannelInv, Explains

\* The invariant of the channel, when nobody reuses a name that is being checked.
LEMMA ChannelInductive ==
  ASSUME ~Racing, ChannelInv, [Next]_vars
  PROVE  ChannelInv'
<1>1. RoutingInv /\ GoneIsGone /\ MessagesAreKnown /\ NoLeakAcrossTopics
  BY DEF ChannelInv
<1>2. RoutingInv' /\ GoneIsGone' /\ MessagesAreKnown'
  BY <1>1, RoutingInductive, GoneStaysGone, MessagesStayKnown
<1>3. PICK h \in [0 .. Len(events) -> [Thread -> Place]] : Explains(h)
  BY DEF ChannelInv
<1>4. ASSUME NEW g \in [0 .. Len(events') -> [Thread -> Place]], Explains(g)',
             \A m \in Msg : msgConv'[m] = msgConv[m] \/ InItsTopic(g, m)'
      PROVE  ChannelInv'
  <2>1. NoLeakAcrossTopics'
    BY <1>1, <1>2, <1>4, NothingLeaks
  <2>2. QED BY <1>2, <1>4, <2>1 DEF ChannelInv
<1>5. CASE ServerStep
  <2>1. PICK g \in [0 .. Len(events') -> [Thread -> Place]] : Explains(g)'
    BY <1>1, <1>3, <1>5, ServerIsExplained
  <2>2. msgConv' = msgConv
    BY <1>1, <1>5, ServerTypes
  <2>3. QED BY <1>4, <2>1, <2>2
<1>6. CASE PollStep
  <2>g. PICK g : g = [i \in 0 .. (Len(events) - 1) |-> h[i + 1]]
    OBVIOUS
  <2>1. /\ Explains(g)' /\ g \in [0 .. Len(events') -> [Thread -> Place]]
        /\ \A m \in Msg : msgConv'[m] = msgConv[m] \/ InItsTopic(g, m)'
    BY <1>1, <1>2, <1>3, <1>6, <2>g, PollIsExplained
  <2>2. QED BY <1>4, <2>1
<1>7. CASE \/ CheckStep \/ UNCHANGED vars \/ \E m \in Msg : FinishRun(m)
           \/ \E t \in Topic, c \in Conversation : ContinueCommand(t, c)
  <2>1. Explains(h)' /\ h \in [0 .. Len(events') -> [Thread -> Place]]
    BY <1>1, <1>3, <1>7, CheckIsExplained
  <2>2. msgConv' = msgConv
    BY <1>7
    DEF CheckStep, AskServer, ListedAsGone, MappingKept, ApplyDeletion, FinishRun, ContinueCommand, vars
  <2>3. QED BY <1>4, <2>1, <2>2
<1>8. QED BY <1>5, <1>6, <1>7 DEF Next

\* What is running has been resolved to a conversation.
RunsAreDispatched == \A m \in Msg : phase[m] = "running" => Dispatched(m)

LEMMA RunsStayDispatched == RoutingInv /\ RunsAreDispatched /\ [Next]_vars => RunsAreDispatched'
<1>1. SUFFICES ASSUME RoutingInv, RunsAreDispatched, [Next]_vars PROVE RunsAreDispatched'
  OBVIOUS
<1>t. /\ msgConv \in [Msg -> Conversation \cup {NoConv}]
      /\ phase \in [Msg -> {"unsent", "queued", "running", "done"}]
  BY <1>1 DEF RoutingInv, RoutingTypeOK
<1>2. CASE DispatchMessage
  <2>m. PICK m : m = Head(events).msg
    OBVIOUS
  <2>u. PICK u : u = Head(events).topic
    OBVIOUS
  <2>1. /\ m \in Msg /\ u \in Topic /\ Resolve(u)
        /\ msgConv' = [msgConv EXCEPT ![m] = live'[u]] /\ phase' = [phase EXCEPT ![m] = "running"]
    BY <1>1, <1>2, <2>m, <2>u, EventAhead, EventFields DEF DispatchMessage, NextIs
  <2>2. PICK z \in Conversation : TRUE
    BY <1>1, <2>1 DEF Resolve, Fresh, RoutingInv, RegistryInv, RegistryTypeOK
  <2>3. live'[u] # NoConv
    BY <1>1, <2>1, <2>2, ResolveSets, RegistryAssumption DEF RoutingInv
  <2>4. QED BY <1>1, <1>t, <2>1, <2>3 DEF RunsAreDispatched, Dispatched
<1>3. ASSUME msgConv' = msgConv, \A m \in Msg : phase'[m] = "running" => phase[m] = "running" PROVE RunsAreDispatched'
  BY <1>1, <1>3 DEF RunsAreDispatched, Dispatched
<1>4. CASE ~DispatchMessage
  <2>1. msgConv' = msgConv /\ \A m \in Msg : phase'[m] = "running" => phase[m] = "running"
    <3>1. CASE ServerStep
      <4>1. ASSUME NEW m \in Msg, NEW u \in Topic, Post(m, u)
            PROVE  \A x \in Msg : phase'[x] = "running" => phase[x] = "running"
        BY <1>t, <4>1 DEF Post
      <4>2. ASSUME NEW u \in Topic, NEW v \in Topic, NEW all \in BOOLEAN,
                   Rename(u, v) \/ Split(u, v) \/ Delete(u, all) \/ MoveAway(u)
            PROVE  phase' = phase
        BY <4>2 DEF Rename, Split, Delete, MoveAway
      <4>3. msgConv' = msgConv
        BY <1>1, <3>1, ServerTypes
      <4>4. \/ \E m \in Msg, u \in Topic : Post(m, u)
            \/ \E u, v \in Topic : Rename(u, v) \/ Split(u, v)
            \/ \E u \in Topic, all \in BOOLEAN : Delete(u, all)
            \/ \E u \in Topic : MoveAway(u)
        BY <3>1 DEF ServerStep
      <4>5. QED BY <4>1, <4>2, <4>3, <4>4
    <3>2. CASE HandleRename \/ HandleMove \/ IgnoreSplit \/ SpawnCheck
      BY <3>2 DEF HandleRename, HandleMove, IgnoreSplit, SpawnCheck
    <3>3. CASE CheckStep
      BY <3>3 DEF CheckStep, AskServer, ListedAsGone, MappingKept, ApplyDeletion
    <3>4. ASSUME NEW m \in Msg, FinishRun(m)
          PROVE  msgConv' = msgConv /\ \A x \in Msg : phase'[x] = "running" => phase[x] = "running"
      BY <1>t, <3>4 DEF FinishRun
    <3>5. CASE UNCHANGED vars \/ \E u \in Topic, c \in Conversation : ContinueCommand(u, c)
      BY <3>5 DEF ContinueCommand, vars
    <3>6. QED BY <1>1, <1>4, <3>1, <3>2, <3>3, <3>4, <3>5 DEF Next, PollStep
  <2>2. QED BY <1>3, <2>1
<1>5. QED BY <1>2, <1>4

\* When nothing waits, the history is the channel as it is.
LEMMA SettledPlaces ==
  ASSUME ChannelInv, Settled, NEW m \in Msg, Dispatched(m)
  PROVE  /\ HomeOf(m) \in Topic => Held(HomeOf(m), msgConv[m])
         /\ HomeOf(m) = Deleted /\ msgOf[m] \notin missed => Nobodys(msgConv[m])
<1>1. PICK h \in [0 .. Len(events) -> [Thread -> Place]] : Explains(h)
  BY DEF ChannelInv
<1>2. Len(events) = 0 /\ checks = {}
  BY DEF Settled
<1>3. h[0] = home /\ Placed(h, m)
  BY <1>1, <1>2 DEF Explains, History, EveryMessageIsPlaced
<1>4. QED BY <1>2, <1>3, PlacesDiffer DEF Placed, InItsTopic, GoneAhead, Erased, HomeOf

\* Nobody reads in one topic what was said in another: as long as no name is reused
\* while its deletion is being checked, two messages that any sequence of renames,
\* merges, splits, deletions, moves, events, checks, late answers and /continue has
\* answered in one conversation are of one topic, or of topics that became one.
THEOREM TopicsDoNotLeak == ASSUME ~Racing PROVE Spec => []NoLeakAcrossTopics
<1>1. ChannelInv /\ [Next]_vars => ChannelInv'
  BY ChannelInductive
<1>2. ChannelInv => NoLeakAcrossTopics
  BY DEF ChannelInv
<1>3. QED BY <1>1, <1>2, ChannelInitially, PTL DEF Spec

\* Once the events and checks are worked off, a topic that lives holds every
\* conversation in which its messages were answered, whatever it was called then.
THEOREM LivingTopicsAreServed == ASSUME ~Racing PROVE Spec => []LivingTopicsKeepTheirSessions
<1>1. ChannelInv /\ [Next]_vars => ChannelInv'
  BY ChannelInductive
<1>2. ChannelInv => LivingTopicsKeepTheirSessions
  BY SettledPlaces DEF LivingTopicsKeepTheirSessions, Held
<1>3. QED BY <1>1, <1>2, ChannelInitially, PTL DEF Spec

\* Once the events and checks are worked off, no name of the channel reaches the
\* conversations of a topic whose deletion the server has confirmed.
THEOREM DeletedTopicsAreForgotten == ASSUME ~Racing PROVE Spec => []DeletedSessionsAreUnreachable
<1>1. ChannelInv /\ [Next]_vars => ChannelInv'
  BY ChannelInductive
<1>2. ChannelInv => DeletedSessionsAreUnreachable
  BY SettledPlaces DEF DeletedSessionsAreUnreachable, Nobodys
<1>3. QED BY <1>1, <1>2, ChannelInitially, PTL DEF Spec

\* The reply of a run in flight lands under the present name of the topic it
\* answers, if that topic still talks in the conversation of the run.
THEOREM RepliesFindTheirTopic == ASSUME ~Racing PROVE Spec => []RepliesLandInTheirTopic
<1>1. ChannelInv /\ [Next]_vars => ChannelInv'
  BY ChannelInductive
<1>2. ChannelInv => RoutingInv
  BY DEF ChannelInv
<1>3. Init => RunsAreDispatched
  BY DEF Init, RunsAreDispatched
<1>4. ChannelInv /\ RunsAreDispatched => RepliesLandInTheirTopic
  <2>1. SUFFICES ASSUME ChannelInv, RunsAreDispatched, Settled, NEW m \in Msg, phase[m] = "running",
                        HomeOf(m) \in Topic, IsLive(msgConv[m])
                 PROVE  RoutedTopic(msgConv[m]) = HomeOf(m)
    BY DEF RepliesLandInTheirTopic
  <2>c. PICK c : c = msgConv[m]
    OBVIOUS
  <2>t. PICK t : t = HomeOf(m)
    OBVIOUS
  <2>2. Dispatched(m) /\ c \in Conversation /\ t \in Topic /\ IsLive(c)
    BY <2>1, <2>c, <2>t DEF RunsAreDispatched, Dispatched, ChannelInv, RoutingInv, RoutingTypeOK
  <2>3. live[t] = c \/ member[c] = t
    BY <2>1, <2>2, <2>c, <2>t, SettledPlaces DEF Held, SessionSet
  <2>4. t # NoTopic /\ c # NoConv
    BY <2>2, RegistryAssumption
  <2>5. live[t] = c
    BY <2>1, <2>2, <2>3, <2>4 DEF ChannelInv, RoutingInv, RegistryInv, HeldSessionsAreNotTaken
  <2>6. \A u \in Topic : live[u] = c => u = t
    BY <2>1, <2>2, <2>4, <2>5 DEF ChannelInv, RoutingInv, RegistryInv, OneTopicPerConversation
  <2>7. CurrentName(c) = t
    BY <2>2, <2>5, <2>6 DEF CurrentName
  <2>8. QED BY <2>4, <2>7, <2>c, <2>t DEF RoutedTopic
<1>5. QED BY <1>1, <1>2, <1>3, <1>4, ChannelInitially, RunsStayDispatched, PTL DEF Spec
=============================================================================
