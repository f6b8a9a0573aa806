---------------------------- MODULE TopicRouting ----------------------------
(***************************************************************************)
(* Stable topic sessions end to end: a Zulip channel whose members post,   *)
(* rename, split, delete and move topics; the event queue; the poll loop   *)
(* that applies events in order (zulip/connection.py, zulip/routing.py);   *)
(* the deletion checks it spawns; and the message handlers in flight.      *)
(*                                                                         *)
(* A thread is one life of a server topic: renames carry it along, a full  *)
(* rename onto a living topic makes both threads share a name, and a name  *)
(* used again starts a new thread.  The program never sees threads; the    *)
(* properties are about them.                                              *)
(***************************************************************************)
EXTENDS TopicConversations, Naturals, Sequences, FiniteSets

CONSTANTS
  Thread,     \* lives of server topics, numbered in order of birth
  Msg,        \* messages addressed to the bot
  MaxOps,     \* how many renames, splits, deletions and moves the server sees
  MaxEvents,  \* how many events wait to be polled
  Racing,     \* do members rename or reuse a name whose deletion is being checked?
  Future, Deleted, Moved   \* where a thread is when it has no topic name

ASSUME RoutingAssumption ==
  /\ Thread \subseteq Nat \ {0}
  /\ \A ths \in SUBSET Thread : ths # {} => \E th \in ths : \A other \in ths : th <= other
  /\ MaxOps \in Nat /\ MaxEvents \in Nat
  /\ Racing \in BOOLEAN
  /\ Cardinality({Future, Deleted, Moved}) = 3
  /\ {Future, Deleted, Moved} \cap (Topic \cup {NoTopic}) = {}

VARIABLES
  home,     \* the topic name each thread lives under
  kin,      \* pairs of threads that a merge has put under one name
  missed,   \* deleted threads whose check found no usable topic list
  ops,      \* server operations so far
  events,   \* the event queue, oldest first
  checks,   \* deletion checks: spawned, asked the server, or told "gone"
  msgConv,  \* the conversation a message was resolved to (the stash)
  msgOf,    \* the thread a message was posted in
  phase     \* of a message: "unsent", "queued", "running", "done"

server == <<home, kin, ops, msgOf>>
vars == <<registry, server, missed, events, checks, msgConv, phase>>

NoThread == 0

Init ==
  /\ RegistryInit
  /\ home = [th \in Thread |-> Future]
  /\ kin = {}
  /\ missed = {}
  /\ ops = 0
  /\ events = <<>>
  /\ checks = {}
  /\ msgConv = [m \in Msg |-> NoConv]
  /\ msgOf = [m \in Msg |-> NoThread]
  /\ phase = [m \in Msg |-> "unsent"]

-----------------------------------------------------------------------------
(* The Zulip server, as the event stream shows it. *)

ThreadsAt(t) == {th \in Thread : home[th] = t}

Exists(t) == ThreadsAt(t) # {}

Eldest(ths) == CHOOSE th \in ths : \A other \in ths : th <= other

\* Is a deletion of the name t still to be polled, or being checked?
BeingChecked(t) ==
  \/ \E i \in DOMAIN events : events[i].kind = "delete" /\ events[i].topic = t
  \/ \E k \in checks : k.topic = t

Quiet(t) == Racing \/ ~BeingChecked(t)

Emit(event) ==
  /\ Len(events) < MaxEvents
  /\ events' = Append(events, event)

CountOp == ops < MaxOps /\ ops' = ops + 1

Post(m, t) ==
  /\ phase[m] = "unsent"
  /\ \/ /\ Exists(t)
        /\ msgOf' = [msgOf EXCEPT ![m] = Eldest(ThreadsAt(t))]
        /\ UNCHANGED home
     \/ /\ ~Exists(t) /\ Quiet(t)
        /\ ThreadsAt(Future) # {}
        /\ msgOf' = [msgOf EXCEPT ![m] = Eldest(ThreadsAt(Future))]
        /\ home' = [home EXCEPT ![Eldest(ThreadsAt(Future))] = t]
  /\ phase' = [phase EXCEPT ![m] = "queued"]
  /\ Emit([kind |-> "message", topic |-> t, msg |-> m])
  /\ UNCHANGED <<registry, kin, ops, missed, checks, msgConv>>

\* propagate_mode change_all within the channel; onto a living name it merges.
Rename(old, new) ==
  /\ old # new
  /\ Exists(old)
  /\ Quiet(old) /\ Quiet(new)
  /\ CountOp
  /\ home' = [th \in Thread |-> IF home[th] = old THEN new ELSE home[th]]
  /\ kin' = kin \cup {{a, b} : a \in ThreadsAt(old), b \in ThreadsAt(new)}
  /\ Emit([kind |-> "rename", topic |-> old, new |-> new])
  /\ UNCHANGED <<registry, msgOf, missed, checks, msgConv, phase>>

\* change_one or change_later: some messages leave for another name.
Split(old, new) ==
  /\ old # new
  /\ Exists(old)
  /\ Quiet(new)
  /\ CountOp
  /\ \/ Exists(new) /\ UNCHANGED home
     \/ /\ ~Exists(new) /\ ThreadsAt(Future) # {}
        /\ home' = [home EXCEPT ![Eldest(ThreadsAt(Future))] = new]
  /\ Emit([kind |-> "split", topic |-> old, new |-> new])
  /\ UNCHANGED <<registry, kin, msgOf, missed, checks, msgConv, phase>>

\* Messages of a topic are deleted, all of them or only some.
Delete(t, all) ==
  /\ Exists(t)
  /\ CountOp
  /\ home' = IF all THEN [th \in Thread |-> IF home[th] = t THEN Deleted ELSE home[th]]
             ELSE home
  /\ Emit([kind |-> "delete", topic |-> t, op |-> ops])
  /\ UNCHANGED <<registry, kin, msgOf, missed, checks, msgConv, phase>>

\* change_all to another channel.
MoveAway(t) ==
  /\ Exists(t)
  /\ Quiet(t)
  /\ CountOp
  /\ home' = [th \in Thread |-> IF home[th] = t THEN Moved ELSE home[th]]
  /\ Emit([kind |-> "move", topic |-> t])
  /\ UNCHANGED <<registry, kin, msgOf, missed, checks, msgConv, phase>>

-----------------------------------------------------------------------------
(* The poll loop: one event at a time, in order. *)

NextIs(kind) == events # <<>> /\ Head(events).kind = kind

\* pre_resolve_conversation, inline; the handler task pops the stashed id.
DispatchMessage ==
  /\ NextIs("message")
  /\ LET m == Head(events).msg
     IN  /\ Resolve(Head(events).topic)
         /\ msgConv' = [msgConv EXCEPT ![m] = live'[Head(events).topic]]
         /\ phase' = [phase EXCEPT ![m] = "running"]
  /\ events' = Tail(events)
  /\ UNCHANGED <<server, missed, checks>>

\* handle_topic_update, inline.
HandleRename ==
  /\ NextIs("rename")
  /\ LET old == Head(events).topic
     IN  \/ Repoint(old, Head(events).new)
         \/ live[old] = NoConv /\ UNCHANGED registry
  /\ events' = Tail(events)
  /\ UNCHANGED <<server, missed, checks, msgConv, phase>>

HandleMove ==
  /\ NextIs("move")
  /\ LET t == Head(events).topic
     IN  Free(t) \/ (live[t] = NoConv /\ UNCHANGED registry)
  /\ events' = Tail(events)
  /\ UNCHANGED <<server, missed, checks, msgConv, phase>>

IgnoreSplit ==
  /\ NextIs("split")
  /\ events' = Tail(events)
  /\ UNCHANGED <<registry, server, missed, checks, msgConv, phase>>

\* A delete event only spawns a check.
SpawnCheck ==
  /\ NextIs("delete")
  /\ checks' = checks \cup {[topic |-> Head(events).topic, op |-> Head(events).op,
                            at |-> "spawned"]}
  /\ events' = Tail(events)
  /\ UNCHANGED <<registry, server, msgConv, phase, missed>>

-----------------------------------------------------------------------------
(* The spawned check: lookup, get_stream_topics, orphan_topic_sessions. *)

Advance(k, at) == checks' = (checks \ {k}) \cup {[k EXCEPT !.at = at]}

AskServer(k) ==
  /\ k.at = "spawned"
  /\ \/ Lookup(k.topic) # NoConv /\ Advance(k, "asked")
     \/ Lookup(k.topic) = NoConv /\ checks' = checks \ {k}
  /\ UNCHANGED <<registry, server, missed, events, msgConv, phase>>

\* A topic list without the name: the topic is gone.
ListedAsGone(k) ==
  /\ k.at = "asked"
  /\ ~Exists(k.topic)
  /\ Advance(k, "gone")
  /\ UNCHANGED <<registry, server, missed, events, msgConv, phase>>

\* A list with the name, an error or a timeout: the mapping is kept.
MappingKept(k) ==
  /\ k.at = "asked"
  /\ checks' = checks \ {k}
  /\ missed' = IF Exists(k.topic) THEN missed ELSE missed \cup ThreadsAt(Deleted)
  /\ UNCHANGED <<registry, server, events, msgConv, phase>>

ApplyDeletion(k) ==
  /\ k.at = "gone"
  /\ OrphanTopicSessions(k.topic)
  /\ checks' = checks \ {k}
  /\ UNCHANGED <<server, events, msgConv, phase, missed>>

-----------------------------------------------------------------------------

\* /continue handled by some message's task.
ContinueCommand(t, c) ==
  /\ Continue(t, c)
  /\ UNCHANGED <<server, events, missed, checks, msgConv, phase>>

\* The run of a message ends: its reply went to RoutedTopic(msgConv[m]).
FinishRun(m) ==
  /\ phase[m] = "running"
  /\ phase' = [phase EXCEPT ![m] = "done"]
  /\ UNCHANGED <<registry, server, events, missed, checks, msgConv>>

ServerStep ==
  \/ \E m \in Msg, t \in Topic : Post(m, t)
  \/ \E old, new \in Topic : Rename(old, new) \/ Split(old, new)
  \/ \E t \in Topic, all \in BOOLEAN : Delete(t, all)
  \/ \E t \in Topic : MoveAway(t)

PollStep == DispatchMessage \/ HandleRename \/ HandleMove \/ IgnoreSplit \/ SpawnCheck

CheckStep == \E k \in checks :
  \/ AskServer(k) \/ ListedAsGone(k) \/ MappingKept(k) \/ ApplyDeletion(k)

Next ==
  \/ ServerStep \/ PollStep \/ CheckStep
  \/ \E t \in Topic, c \in Conversation : ContinueCommand(t, c)
  \/ \E m \in Msg : FinishRun(m)

Spec == Init /\ [][Next]_vars

-----------------------------------------------------------------------------
(* Properties *)

CheckRecord == [topic : Topic, op : 0 .. MaxOps, at : {"spawned", "asked", "gone"}]

Event ==
  [kind : {"message"}, topic : Topic, msg : Msg]
    \cup [kind : {"rename", "split"}, topic : Topic, new : Topic]
    \cup [kind : {"delete"}, topic : Topic, op : 0 .. MaxOps]
    \cup [kind : {"move"}, topic : Topic]

\* The shape of the channel, the queue, the checks and the messages.
RoutingTypeOK ==
  /\ RegistryTypeOK
  /\ home \in [Thread -> Topic \cup {Future, Deleted, Moved}]
  /\ kin \subseteq SUBSET Thread
  /\ missed \subseteq Thread
  /\ ops \in 0 .. MaxOps
  /\ events \in Seq(Event)
  /\ checks \subseteq CheckRecord
  /\ msgConv \in [Msg -> Conversation \cup {NoConv}]
  /\ msgOf \in [Msg -> Thread \cup {NoThread}]
  /\ phase \in [Msg -> {"unsent", "queued", "running", "done"}]

\* The registry has caught up with the server.
Settled == events = <<>> /\ checks = {}

Dispatched(m) == msgConv[m] # NoConv

HomeOf(m) == home[msgOf[m]]

\* Two messages answered in one conversation come from one topic, however it was
\* renamed, merged, split, deleted or its names reused: nobody reads in a topic
\* what was said in another.  Apart are whole moves to another channel (below)
\* and deletions whose check failed, which the program keeps mapped by design.
NoLeakAcrossTopics ==
  \A m, n \in Msg :
    Dispatched(m) /\ msgConv[m] = msgConv[n] =>
      \/ msgOf[m] = msgOf[n] \/ {msgOf[m], msgOf[n]} \in kin
      \/ Moved \in {HomeOf(m), HomeOf(n)}
      \/ {msgOf[m], msgOf[n]} \cap missed # {}

\* A living topic keeps in its session set every conversation its messages were
\* answered in.
LivingTopicsKeepTheirSessions ==
  Settled => \A m \in Msg :
    Dispatched(m) /\ HomeOf(m) \in Topic => msgConv[m] \in SessionSet(HomeOf(m))

\* R10: the conversations of a topic whose deletion was verified are in no topic's
\* session set.
DeletedSessionsAreUnreachable ==
  Settled => \A m \in Msg :
    Dispatched(m) /\ HomeOf(m) = Deleted /\ msgOf[m] \notin missed =>
      \A t \in Topic : msgConv[m] \notin SessionSet(t)

\* The reply of a run in flight lands in the topic it answers, as long as that
\* topic still talks in the conversation of the run.
RepliesLandInTheirTopic ==
  Settled => \A m \in Msg :
    phase[m] = "running" /\ HomeOf(m) \in Topic /\ IsLive(msgConv[m]) =>
      RoutedTopic(msgConv[m]) = HomeOf(m)

=============================================================================
